CONSTANTS
    s1 = s1
    s2 = s2
    c1 = c1
    r1 = r1
    r2 = r2
    NoExpiry = NoExpiry
    Asks <- MCKeys
    Requests <- MCRequests
    Lives <- MCLives
    MaxLife = 4
    RefreshMargin = 2
    FallbackTtl = 3
    MaxEntries = 1
    Horizon = 10
    MaxCacheTtl = 4
    MaxFlight = 2
    MaxWait = 1
    MaxTime = 5
    Never = Never
SPECIFICATION Spec
INVARIANT NotServedPastExpiry
SYMMETRY Symmetry
CHECK_DEADLOCK FALSE
