SPECIFICATION Serving
CONSTANTS
    MaxRequests = 1
    Window = 2
    MaxSources = 2
    TrustedProxies = {"proxy"}
    FailureWindow = 2
    Surfaces = {"enforce", "observe", "simulate", "delegated", "tokens"}
    Threads = {h1, h2}
    Keys <- MCKeys
    Tokens <- MCTokens
    Allowed = {"A"}
    Successor <- MCSuccessor
    Mixes <- MCMixes
    Retention = 1
    MaxTime = 3
    PageSize = 2
    MaxWritten = 6
    MaxRestores = 1
    QueueSize = 2
    BatchSize = 2
    MaxAttempts = 2
    MaxEmits = 4
INVARIANTS
    RefusalsAreEarned
    FailuresAreCounted
    ActionsAreAuthorized
    KeyedActionsHappenOnce
    ReportsAreExact
    HonestWalksSucceed
    AcceptedIsTried
SYMMETRY Symmetry
CHECK_DEADLOCK FALSE
