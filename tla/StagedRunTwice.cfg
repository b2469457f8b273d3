SPECIFICATION Spec
CONSTANTS
    NumOutputs = 2
    MaxUpsets = 2
INVARIANT
    NoOrphan
CHECK_DEADLOCK FALSE
