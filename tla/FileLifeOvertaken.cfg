SPECIFICATION Spec
CONSTANTS
    Cases <- OneCase
    MaxReplaced = 0
    MaxRequests = 1
    MaxFailures = 0
    Gaps = {"probe"}
INVARIANT DeltaSound
CHECK_DEADLOCK FALSE
