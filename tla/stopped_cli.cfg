CONSTANTS
    Calls <- MCCalls
    Words <- MCWords
    Slots = {"a", "b", "c"}
    MaxLines = 2
SPECIFICATION FairSpec
PROPERTIES
    StoppedIsTerminated
CHECK_DEADLOCK FALSE
