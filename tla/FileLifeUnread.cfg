SPECIFICATION Spec
CONSTANTS
    Cases <- TwoCases
    MaxReplaced = 0
    MaxRequests = 1
    MaxFailures = 1
    Gaps = {}
PROPERTY AnswersFitUnread
CHECK_DEADLOCK FALSE
