SPECIFICATION Spec
CONSTANTS
    Files = {f1, f2, f3}
    JobFiles = {f1, f2, f3}
    ForgeFiles = {f3}
    None = none
    MaxJobs = 2
INVARIANTS TypeOK SlotsRespected
PROPERTIES ManualRunFinishes ForgeNotStarved QueueServed
CHECK_DEADLOCK FALSE
