SPECIFICATION IdempotencySpec
CONSTANTS
    old = old
    new = new
    Services = {s1, s2}
    Keys = {k1}
    Fingerprints = {f1, f2}
    Versions = {old, new}
    Nonces = {n1, n2}
    Keyrings <- RotationRings
    MaxTTL = 1
    RemovalWindow = 1
    HardLimit = 2
    MaxTime = 2
SYMMETRY Symmetry
INVARIANTS
    AtMostOnce
    ReplyIsCommitted
    ReservationsAreSound
    RotationStrandsNothing
PROPERTIES
    ImplementsPromise
CHECK_DEADLOCK FALSE
