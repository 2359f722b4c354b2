\* A call of each kind, whose status message holds two lines.
SPECIFICATION FairSpec
CONSTANTS
    Calls <- MCCalls
    Words <- MCWords
    Slots = {"a", "b", "c"}
    MaxLines = 2
INVARIANTS
    QuietAfterEnd
    AnswerIsTheLast
PROPERTIES
    OneOutcome
    CallEnds
CHECK_DEADLOCK FALSE
