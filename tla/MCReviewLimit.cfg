SPECIFICATION SameDaySpec
CONSTANTS
    k1 = k1
    k2 = k2
    c1 = c1
    c2 = c2
    r1 = r1
    r2 = r2
    Keys = {k1, k2}
    Position <- TwoCards
    Clients = {c1, c2}
    Requests = {r1, r2}
    Grades = {"Again"}
    Droppable = {k1}
    Intervals = {1}
    Limit = 1
    DayLength = 2
    MaxClock = 4
    NoKey = NoKey
    NoRequest = NoRequest
    Zones <- AllZones
    Shown = 2
INVARIANTS
    DailyLimit
    DaysFollow
SYMMETRY Symmetry
