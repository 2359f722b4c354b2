\* A run of the gateway, stopped by a command in another process.
CONSTANTS
    Procs = {gateway, cli}
    MaxLaunches = 1
    MaxFaults = 0
    Careful = TRUE
    TornPersist = FALSE
    NoStep = "none"
    NoLoop = "-"
    Ghost = "?"
    StepOrder <- RetryOrder
    Kind <- RetryKind
    LoopOf <- RetryLoopOf
    MaxIter <- RetryBounds
    MaxSteps <- RetryBounds
    Timed = {}
    Targets <- RetryTargets
    OnInvalid <- RetryOnInvalid
    EndsAs <- RetryEndsAs
    Inputs <- RetryInputs
SPECIFICATION Spec
PROPERTY PersistedStopHolds
CHECK_DEADLOCK FALSE
