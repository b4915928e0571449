SPECIFICATION DryViewSpec
CONSTANTS
    MaxBuilds = 2
    MaxHistory = 1
    s1 = s1
    Streams = {s1}
    QueueSize = 1
INVARIANTS
    ShownEndIsReal
PROPERTIES
    ShowsTheEnd
