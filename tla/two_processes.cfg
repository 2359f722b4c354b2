\* The gateway and a CLI command on one run folder: two executors in turn.
CONSTANTS
    Procs = {gateway, cli}
    MaxLaunches = 2
    MaxFaults = 1
    Careful = TRUE
    TornPersist = FALSE
    NoStep = "none"
    NoLoop = "-"
    Ghost = "?"
    StepOrder <- ReviewOrder
    Kind <- ReviewKind
    LoopOf <- ReviewLoopOf
    MaxIter <- ReviewMaxIter
    MaxSteps <- ReviewMaxSteps
    Timed = {}
    Targets <- ReviewTargets
    OnInvalid <- ReviewOnInvalid
    EndsAs <- ReviewEndsAs
    Inputs <- ReviewInputs
SPECIFICATION FairSpec
INVARIANTS
    OneExecutor
    LiveRunReachable
PROPERTIES
    RunEnds
CHECK_DEADLOCK FALSE
