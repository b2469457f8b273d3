SPECIFICATION Spec
CONSTANTS
    Tasks = {t1, t2}
    None = none
    Asking = asking
    MaxId = 1
    MaxJobs = 2
    MaxFaults = 0
    MaxLeft = 1
PROPERTY RequeueSafe
CHECK_DEADLOCK FALSE
