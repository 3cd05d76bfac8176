CONSTANTS
    a = a
    b = b
    c = c
    t1 = t1
    t2 = t2
    NoExpiry = NoExpiry
    Keys <- MCKeys
    Threads <- MCThreads
    ExpiresIn <- MCExpiresIn
    RefreshMargin = 1
    FallbackTtl = 2
    MaxEntries = 2
    Horizon = 6
    MaxClock = 5
    MaxTime = 2
SPECIFICATION Spec
INVARIANT TypeOK
INVARIANT CapacityBound
INVARIANT TicksUnique
PROPERTY EvictsOnlyTheColdest
PROPERTY KeepsPromise
SYMMETRY Symmetry
CHECK_DEADLOCK FALSE
