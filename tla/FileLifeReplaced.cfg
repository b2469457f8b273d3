SPECIFICATION Spec
CONSTANTS
    Cases <- OneCase
    MaxReplaced = 1
    MaxRequests = 1
    MaxFailures = 0
    Gaps = {}
INVARIANT QuestionsFit
CHECK_DEADLOCK FALSE
