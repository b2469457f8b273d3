SPECIFICATION Spec
CONSTANTS
    Tasks = {t1, t2}
    None = none
    Asking = asking
    MaxId = 1
    MaxJobs = 1
    MaxFaults = 0
    MaxLeft = 1
INVARIANT AbortedUnchanged
CHECK_DEADLOCK FALSE
