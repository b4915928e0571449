SPECIFICATION Spec
CONSTANTS
    t1 = t1
    t2 = t2
    Tabs = {t1, t2}
    MaxLogins = 2
    MaxLoads = 2
    MaxFailures = 1
INVARIANTS
    TypeOK
    LoggedOutEverywhere
SYMMETRY Symmetry
CHECK_DEADLOCK FALSE
