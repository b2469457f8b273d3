SPECIFICATION Spec
CONSTANTS
    Tasks = {t1, t2}
    None = none
    Asking = asking
    MaxId = 1
    MaxJobs = 1
    MaxFaults = 1
    MaxLeft = 1
INVARIANTS TypeOK NoStrandedRow
PROPERTIES EveryJobEnds RequeueSafe
CHECK_DEADLOCK FALSE
