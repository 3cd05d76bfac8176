CONSTANTS
    k1 = k1
    k2 = k2
    r1 = r1
    r2 = r2
    r3 = r3
    None = None
    Keys <- MCKeys
    Requests <- MCRequests
    MinRefreshInterval = 2
SPECIFICATION Spec
INVARIANT TypeOK
INVARIANT SingleFlight
PROPERTY RefreshesSpaced
PROPERTY FollowsIssuer
SYMMETRY Symmetry
