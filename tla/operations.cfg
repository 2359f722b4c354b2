\* One process serves the run: three executors in turn, one crash or exception.
CONSTANTS
    Procs = {gateway}
    MaxLaunches = 3
    MaxFaults = 1
    Careful = TRUE
    TornPersist = FALSE
    NoStep = "none"
    NoLoop = "-"
    Ghost = "?"
    StepOrder <- ReviewOrder
    Kind <- ReviewKind
    LoopOf <- ReviewLoopOf
    MaxIter <- ReviewMaxIter
    MaxSteps <- ReviewMaxSteps
    Timed = {}
    Targets <- ReviewTargets
    OnInvalid <- ReviewOnInvalid
    EndsAs <- ReviewEndsAs
    Inputs <- ReviewInputs
SPECIFICATION FairSpec
INVARIANTS
    RoundsBounded
    AnswersSurvive
PROPERTIES
    GateNeedsApproval
    LifecycleKept
CHECK_DEADLOCK FALSE
