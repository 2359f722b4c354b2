\* One GPU run under its submitting command and one more.
SPECIFICATION Spec
CONSTANTS
    Runs = {r1}
    Commands = {c1}
    Pods = {p1}
    Warm = {}
    NoPod = NoPod
INVARIANTS
    CompletedIsSuccess
    StoppedIsQuiet
    SshLossIsNoFailure
PROPERTIES
    PodNamed
    WaitEnds
