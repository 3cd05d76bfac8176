CONSTANTS
    t1 = t1
    t2 = t2
    a1 = a1
    a2 = a2
    a3 = a3
    a4 = a4
    None = None
    Tabs <- MCTabs
    Attempts <- MCAttempts
    SessionCookie = "session"
    ScopeCookie = "session"
    ProtectionCookie = "authn_protection"
SPECIFICATION Spec
INVARIANT TypeOK
INVARIANT FailedLoginLeavesNothing
INVARIANT SecretsDieWithLogin
PROPERTY SessionOnce
SYMMETRY Symmetry
