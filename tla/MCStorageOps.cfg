SPECIFICATION Spec
CONSTANTS
    Conns = {"svc", "cli"}
    Service = {"svc"}
    Duties <- MCDuties
    KeyIds = {"k1", "k2"}
    Owner <- MCOwner
    SeededKey = "k1"
    MaxEvents = 2
    MaxOps = 2
    MaxFaults = 1
INVARIANTS
    OnlyCommittedRowsLeave
    ControlChangesAreAudited
    VerifiedHistoryIsAnchored
    DatabaseIsWhole
PROPERTIES
    RevocationSticks
