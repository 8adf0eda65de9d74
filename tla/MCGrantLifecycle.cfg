\* Two deciders of one request, or direct issues, while bounds and rules change.
CONSTANTS
    Actions = {"read"}  Plain = {"repo", "src", "a"}  Odd = {}  Illegal = {".."}  Star = "*"
    Deciders = {d1, d2}
    RequestIds = {"r1"}
    RuleIds = {i1}
    Agents = {"a1"}  Workspaces = {"w1"}
    Home <- MCHome
    LockKey <- Shared
    Asks <- MCAsks
    BoundRows <- MCBoundRows
    RuleRows <- OneRule
    DefaultTTL = 2
    Ceiling = 2
    None = None
    MaxBegun = 2
    MaxChanges = 2
SPECIFICATION Spec
INVARIANTS DecisionsAgree
PROPERTIES IssuedWithinBounds AutoApprovalNeedsRule DecisionsEnd
CHECK_DEADLOCK FALSE
