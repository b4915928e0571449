SPECIFICATION Spec
CONSTANTS
    s1 = s1
    h1 = h1
    h2 = h2
    w1 = w1
    w2 = w2
    Sessions = {s1}
    Logouts = {h1}
    Sockets = {w1, w2}
    NoSession = NoSession
    AccessTTL = 1
    RefreshTTL = 2
    GateLimit = 1
    MaxClock = 3
INVARIANTS
    TokensLapseFirst
