\* Two workspaces, one grant, one token; revocation, expiry and identity, or mandates that change.
SPECIFICATION EnforcementSpec
CONSTANTS
    Workers = {k1}
    Agents = {"a1", "a2"}
    Peps = {"p1", "p2", "p3"}
    Boundaries = {"b1", "b2"}
    Refs = {"g1"}
    Tokens = {"t1"}
    Home <- MCHome
    Calls <- MCCalls
    Issues <- AuthorityIssues
    Mints <- AuthorityMints
    Mandates = {"pop", "boundary"}
    DefaultOn = {"boundary"}
    MaxTime = 3
    Actions = {"read"}
    Plain = {"repo", "a", "b"}
    Odd = {"odd"}
    Illegal = {"."}
    Star = "*"
INVARIANTS
    PermitsAreSound
    
    SteadyMandatesAreObeyed
