SPECIFICATION Spec
CONSTANTS
    Cases <- OwnAc3
    MaxJobs = 3
    MaxDropped = 1
    MaxTroubles = 0
    ReusedIds = FALSE
    Gaps = FALSE
PROPERTIES UndoRemovesForged
CHECK_DEADLOCK FALSE
