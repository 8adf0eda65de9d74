SPECIFICATION MCTrafficSpec
CONSTANTS
    Callers = {1, 2}
    MaxAbandoned = 1
    Workers = {1, 2, 3}
    Conns = {1, 2, 3, 4}
INVARIANTS
    SessionsAreAccountedFor
    CancelsHitTheirCall
    ReadyIsFresh
PROPERTIES
    ReadinessRecovers
