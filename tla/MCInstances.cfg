SPECIFICATION Spec
CONSTANTS
    p1 = p1
    p2 = p2
    Processes = {p1, p2}
    Nobody = Nobody
    Images = {1, 2}
    MaxReviews = 2
    MaxBuilds = 2
INVARIANTS
    ServedIsComplete
    HalfUpgradedHasBackup
    OnlyAbandonedBuildsMeet
SYMMETRY Symmetry
