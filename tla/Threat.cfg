SPECIFICATION FairSpec
CONSTANTS
    Producers = {p1}
    None = None
    Window = 2
    Gap = 1
    Day = 5
    DayCap = 2
    Spacing = 3
    MaxNow = 4
INVARIANTS
    ToldOnce
    CallsCapped
PROPERTIES
    HotIsTold
