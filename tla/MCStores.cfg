\* Two requests, two tokens, two nonces and a window of one second; one agent, one
\* rule and three documents on SQLite or PostgreSQL.
SPECIFICATION StoresSpec
CONSTANTS
    Workers = {w1, w2}
    Tokens = {t1, t2}
    Nonces = {n1, n2}
    Skew = 1
    MaxEntries = 2
    MaxPerToken = 1
    MaxTime = 2
    a1 = a1  r1 = r1  narrow = narrow  wide = wide  hour = hour
    Agents = {a1}
    Workspace = ws
    Rules = {r1}
    Scopes = {narrow, wide}
    Caps = {hour}
    None = None  Absent = Absent  Null = Null
    Documents <- PolicyFiles
    Backends = {"sqlite", "postgres"}
    BoundaryDefault = TRUE
    MaxVersions = 2
    MaxWrites = 2
SYMMETRY Interchangeable
INVARIANTS
    RoundTripsAreExact
PROPERTIES
    FreshProofsAreSingleUse
    SnapshotsAgree
    RollbackNeverExempts
    ChangesAreDeliberate
