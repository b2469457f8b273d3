SPECIFICATION Spec
CONSTANTS
    Files = {f1, f2}
    JobFiles = {f1, f2}
    ForgeFiles = {f2}
    None = none
    MaxJobs = 1
PROPERTY QueueMovesOn
CHECK_DEADLOCK FALSE
