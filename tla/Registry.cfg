SPECIFICATION FairSpec
CONSTANTS
    Backends = {sandbox}
    Sandbox = sandbox
    Browsers = {d1}
    NoBrowser = NoBrowser
    Reqs = {r1, r2}
    NoEntry = NoEntry
    MaxRenames = 1
PROPERTIES
    NoneForgotten
    EndedClosed
    NickSettles
