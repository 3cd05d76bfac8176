CONSTANTS
    k1 = k1
    r1 = r1
    r2 = r2
    None = None
    Keys <- MCKeys
    Requests <- MCRequests
    MinRefreshInterval = 2
SPECIFICATION ASpec
PROPERTY AttemptsSpaced
