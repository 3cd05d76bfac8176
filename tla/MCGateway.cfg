CONSTANTS
    Mechanisms <- MCRegistered
    Requests <- MCRequests
    Declined <- NotApplicable
    Anonymous <- AnonymousVisit
    Challenge <- Unauthenticated
    Answer <- Authenticate
    IsPublic <- PublicScope
    NoCredential <- CredentialIsNone
    None = None
    Wires <- MCWires
    NoWire = NoWire
    MaxChain = 3
SPECIFICATION ServiceSpec
INVARIANT TypeOK
INVARIANT NoDowngrade
INVARIANT CookiesDecideNothingClaimed
INVARIANT OrderIrrelevant
INVARIANT OutageNeverLogsOut
INVARIANT FrameworksAgree
PROPERTY ImplementsContract
CHECK_DEADLOCK FALSE
