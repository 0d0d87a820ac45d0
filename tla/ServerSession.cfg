SPECIFICATION FairSpec
CONSTANT MaxEndpoints <- MCMaxEndpoints
INVARIANTS
    TypeOK
    OneOperationPerDirection
    NothingBeforeAuth
    HandlersKnowTheRequest
    DenyIsFinal
    ConnectGuarded
PROPERTIES
    AnsweredOnce
    PeersGoneEndsSession
    ConnectEnds
    RefusalEndsSession
CHECK_DEADLOCK FALSE
