SPECIFICATION Spec
CONSTANTS
    Cases <- PlainCases
    MaxJobs = 2
    MaxDropped = 1
    MaxTroubles = 1
    ReusedIds = FALSE
    Gaps = FALSE
INVARIANTS TypeOK OriginalKept
PROPERTIES RevertGivesBack UndoRemovesForged BinIsCounted
CHECK_DEADLOCK FALSE
