SPECIFICATION Spec
CONSTANTS
    c1 = c1
    c2 = c2
    r1 = r1
    r2 = r2
    r3 = r3
    Clients = {c1, c2}
    Requests = {r1, r2, r3}
    MaxFailures = 2
    Window = 2
    PruneThreshold = 0
    NoClient = NoClient
    MaxClock = 5
INVARIANTS
    TypeOK
    NoWindowLetsMoreThrough
    RefusedForItsOwn
PROPERTIES
    OnlyRecentBeyondThreshold
SYMMETRY Symmetry
