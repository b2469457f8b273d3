SPECIFICATION Spec
CONSTANTS
    Cases <- TwoCases
    MaxReplaced = 1
    MaxRequests = 1
    MaxFailures = 0
    Gaps = {"answer"}
PROPERTY AnswersFit
CHECK_DEADLOCK FALSE
