SPECIFICATION FairSpec
CONSTANT MaxEndpoints <- MCMaxEndpoints
INVARIANTS
    TypeOK
    OneOperationPerStream
    NothingBeforeVerified
    BadIsLast
    EncryptorNotRaced
    DenyIsFinal
PROPERTIES
    PeersGoneEndsSession
    ServerGoneEndsHandshake
CHECK_DEADLOCK FALSE
