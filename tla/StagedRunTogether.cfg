SPECIFICATION Spec
CONSTANTS
    NumOutputs = 2
    MaxUpsets = 1
INVARIANT
    LandTogether
CHECK_DEADLOCK FALSE
