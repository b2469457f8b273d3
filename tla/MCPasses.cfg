SPECIFICATION Spec
CONSTANTS
    Cases <- AllCases
    Languages = {"eng", "en", "jpn", "und"}
    Chosen = {"eng", "jpn"}
    MaxInputs = 1
INVARIANTS TypeOK AudioStays MuxFits
PROPERTIES WantedStays SidecarsStay ExtractedSaved AnswersFollow Settles
CHECK_DEADLOCK FALSE
