SPECIFICATION MailSpec
CONSTANTS
    Senders = {s1, s2}
    Sources = {a1, a2}
    Nil = Nil
    HourWindow = 1
    DayWindow = 2
    Kept = 3
    HourLimit = 2
    DayLimit = 2
    SourceLimit = 5
    Ceiling = 2
    Share = 2
    MaxClock = 4
    MaxMails = 3
    MaxCrashes = 1
SYMMETRY Symmetry
INVARIANTS
    BudgetKept
    CeilingKept
PROPERTIES
    ReserveKept
    SweepHarmless
CHECK_DEADLOCK FALSE
