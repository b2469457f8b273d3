SPECIFICATION Spec
CONSTANTS
    Cases <- PlainCases
    MaxJobs = 2
    MaxDropped = 1
    MaxTroubles = 1
    ReusedIds = TRUE
    Gaps = FALSE
INVARIANTS OriginalKept
CHECK_DEADLOCK FALSE
