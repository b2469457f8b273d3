SPECIFICATION IntakeSpec
CONSTANTS
    Paths = {"a", "b"}
    MaxEvents = 3
    MaxStops = 1
INVARIANTS RowBacked OneTimer
PROPERTIES AcceptedLands
CHECK_DEADLOCK FALSE
