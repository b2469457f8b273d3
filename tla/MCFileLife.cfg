SPECIFICATION Spec
CONSTANTS
    Cases <- TwoCases
    MaxReplaced = 1
    MaxRequests = 3
    MaxFailures = 1
    Gaps = {}
INVARIANTS TypeOK DeltaSound QuestionsFit
PROPERTIES AnswersFit AnswersLand
CHECK_DEADLOCK FALSE
