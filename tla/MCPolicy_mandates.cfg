CONSTANTS
    a1 = a1  r1 = r1  narrow = narrow  wide = wide  hour = hour
    Agents = {a1}
    Workspace = ws
    Rules = {r1}
    Scopes = {narrow, wide}
    Caps = {hour}
    None = None  Absent = Absent  Null = Null
    Documents <- PolicyFiles
    Backends = {"sqlite"}
    BoundaryDefault = TRUE
    MaxVersions = 2
    MaxWrites = 2
SPECIFICATION PolicySpec
PROPERTY RollbackKeepsMandates
