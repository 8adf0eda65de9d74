SPECIFICATION Spec
CONSTANTS
    old = old
    new = new
    p1 = p1
    p2 = p2
    t1 = t1
    t2 = t2
    n1 = n1
    n2 = n2
    Procs = {p1, p2}
    Threads = {t1, t2}
    Home <- Apart
    Keys = {k1}
    Fingerprints = {f1}
    Versions = {old, new}
    Nonces = {n1, n2}
    Keyrings <- OldRing
    OperatorRing <- NewRing
    MaxTTL = 1
    RemovalWindow = 1
    HardLimit = 2
    MaxTime = 1
    MaxClosing = 1
SYMMETRY Symmetry
INVARIANTS
    PgPromiseHolds
    OperatorIsToldTheTruth
PROPERTIES
    NoWriteAfterDrain
CHECK_DEADLOCK FALSE
