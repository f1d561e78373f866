SPECIFICATION DataSpec
CONSTANTS
    g1 = g1
    g2 = g2
    n1 = n1
    n2 = n2
    None = None
    Retention = Retention
    Emails = {g1}
    Configs <- MCConfigs
    Followed = {g1}
    Nicks = {n1}
    MaxCodes = 1
    MaxVisits = 1
    MaxDeletes = 1
CHECK_DEADLOCK FALSE
INVARIANT
    NothingKept
