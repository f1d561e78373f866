SPECIFICATION FairSpec
CONSTANTS
    Room = {r1, r2}
    None = None
    Ttl = 1
    Inbound = 1
    MaxNow = 1
    MaxWrites = 2
    MaxCommands = 1
INVARIANTS
    NothingLeaks
PROPERTIES
    RevokedLeaves
CHECK_DEADLOCK FALSE
