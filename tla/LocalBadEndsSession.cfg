SPECIFICATION FairSpec
CONSTANT MaxEndpoints <- MCMaxEndpoints
PROPERTY BadEndsSession
CHECK_DEADLOCK FALSE
