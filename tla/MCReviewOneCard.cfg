SPECIFICATION Spec
CONSTANTS
    k1 = k1
    c1 = c1
    c2 = c2
    r1 = r1
    r2 = r2
    Keys = {k1}
    Position <- OneCard
    Clients = {c1, c2}
    Requests = {r1, r2}
    Grades = {"Again", "Good"}
    Droppable = {k1}
    Intervals = {1}
    Limit = 0
    DayLength = 2
    MaxClock = 3
    NoKey = NoKey
    NoRequest = NoRequest
INVARIANTS
    TypeOK
    RowSummarisesLog
    ScheduledFromThePrevious
    SavedIsLogged
    StaleWasReviewed
PROPERTIES
    ImplementsLedger
SYMMETRY Symmetry
