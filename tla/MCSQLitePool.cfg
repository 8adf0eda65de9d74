\* Two requests and two overlapping probes over a pool of two contexts.
SPECIFICATION FairSpec
CONSTANTS
    Callers = {c1, c2}
    Probers = {p1, p2}
    Names = 6
    TargetSize = 2
INVARIANTS
    ContextsAreAccountedFor
    NoWakeupIsLost
PROPERTIES
    RefusalEnds
    ShutdownCompletes
