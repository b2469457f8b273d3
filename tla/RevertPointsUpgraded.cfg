SPECIFICATION Spec
CONSTANTS
    Cases <- PlainCases
    MaxJobs = 2
    MaxDropped = 1
    MaxTroubles = 1
    ReusedIds = FALSE
    Gaps = TRUE
PROPERTIES RevertGivesBack
CHECK_DEADLOCK FALSE
