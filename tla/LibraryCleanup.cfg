SPECIFICATION Spec
CONSTANTS
    Paths = {a, b}
    Files = {f}
    MaxEvents = 0
    MaxStops = 1
    MaxScans = 1
    MaxJobs = 1
    MaxMoves = 0
    MaxMounts = 0
    Gaps = TRUE
PROPERTY HistoryKept
CHECK_DEADLOCK FALSE
