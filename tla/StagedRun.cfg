SPECIFICATION Spec
CONSTANTS
    NumOutputs = 3
    MaxUpsets = 1
INVARIANTS
    TypeOK
    FinalsWhole
    NothingLeft
PROPERTIES
    CancelledEnds
    KeepsItsPromise
CHECK_DEADLOCK FALSE
