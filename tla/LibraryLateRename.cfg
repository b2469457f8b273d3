SPECIFICATION Spec
CONSTANTS
    Paths = {a, b, c}
    Files = {f, g}
    MaxEvents = 1
    MaxStops = 0
    MaxScans = 1
    MaxJobs = 1
    MaxMoves = 2
    MaxMounts = 0
    Gaps = FALSE
PROPERTIES NoneTakenAlong
CHECK_DEADLOCK FALSE
