SPECIFICATION Spec
CONSTANTS
    Emails = {e1}
    Browsers = {b1, b2}
    Posts = {p1}
    Codes = {t1, t2}
    Links = {l1}
    None = None
    Normal = 1
    Strict = 0
    IpLimit = 2
    MaxTries = 3
    MaxPasswords = 2
SYMMETRY Symmetry
INVARIANTS
    SessionEarned
    TrustSound
    CorrectIsFree
    ResetLogsOut
