CONSTANTS
    Mechanisms <- MCRegistered
    Requests <- ApiKeys
    Declined <- NotApplicable
    Anonymous <- AnonymousVisit
    Challenge <- Unauthenticated
    Answer <- Authenticate
    IsPublic <- PublicScope
    NoCredential <- CredentialIsNone
    None = None
    Wires <- ApiKeyWires
    NoWire = NoWire
    MaxChain = 2
SPECIFICATION ServiceSpec
INVARIANT PrefixSettlesOrder
CHECK_DEADLOCK FALSE
