SPECIFICATION CacheSpec
CONSTANTS
    A1 = A1
    A2 = A2
    c1 = c1
    c2 = c2
    c3 = c3
    k1 = k1
    k2 = k2
    Agent = {A1, A2}
    Caller = {c1, c2, c3}
    Key = {k1, k2}
    Home <- CacheHome
    Wants <- CacheWants
    NoOne = NoOne
    Quota = 1
    MaxCrashes = 1
CHECK_DEADLOCK FALSE
INVARIANT
    HeldIsWhole
