SPECIFICATION Spec
CONSTANTS
    Cases <- Lookalikes
    MaxJobs = 2
    MaxDropped = 1
    MaxTroubles = 0
    ReusedIds = FALSE
    Gaps = FALSE
PROPERTIES RevertGivesBack
CHECK_DEADLOCK FALSE
