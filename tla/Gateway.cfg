\* Every component stops at its bounds.
SPECIFICATION GatewaySpec
CONSTANTS
    RadioCalls = {r1}
    ReadCalls = {g1}
    StreamCalls = {s1}
    MaxTokens = 2
    Documents <- MCDocuments
    MaxSent = 3
    MaxSize = 7
    Hosts = {h1, h2}
    MaxChanges = 1
SYMMETRY MCSymmetry
INVARIANTS
    GatewayTypesOK
    OneLogin
    RadioTakenOnce
    SplitsAsSent
    OnlyConfirmedCertificates
PROPERTIES
    StoredAsAnswered
    LoginLetsOthersGoOn
CHECK_DEADLOCK FALSE
