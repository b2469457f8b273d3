SPECIFICATION Spec
CONSTANTS
    Paths = {a, b}
    Files = {f, g}
    MaxEvents = 1
    MaxStops = 1
    MaxScans = 1
    MaxJobs = 1
    MaxMoves = 2
    MaxMounts = 1
    Gaps = FALSE
SYMMETRY Symmetry
INVARIANTS TypeOK
PROPERTIES HistoryKept
CHECK_DEADLOCK FALSE
