SPECIFICATION FairSpec
CONSTANTS
    Streams = {s1, s2}
    QueueMax = 3
    MaxEvents = 7
CHECK_DEADLOCK FALSE
INVARIANTS
    InOrder
    NewerKept
PROPERTIES
    GoneStreamCloses
