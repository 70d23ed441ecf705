SPECIFICATION Spec
CONSTANTS
    Browsers = {b1, b2}
    Requests = {r1, r2, r3, r4}
    Ids = {i1, i2, i3}
    None = None
    Environments = {"production"}
    KeyLengths = {15, 20, 32}
    MaxFaults = 2
SYMMETRY Symmetry
INVARIANTS
    TypeOK
    SessionsDoNotMix
    CookieHasSession
    CleanLogoutIsFinal
    SequentialBrowserKeepsAll
CHECK_DEADLOCK FALSE
