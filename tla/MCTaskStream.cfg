SPECIFICATION StreamSpec
CONSTANTS
    MaxBuilds = 2
    MaxHistory = 1
    s1 = s1
    Streams = {s1}
    QueueSize = 2
INVARIANTS
    StreamTypeOK
    OneWriter
    StatusIsTrue
    LastWordIsTruth
PROPERTIES
    EndedIsFinal
    SlotComesBack
    NeverBackwards
    ToldOfTheEnd
