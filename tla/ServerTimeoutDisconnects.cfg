SPECIFICATION Spec
CONSTANT MaxEndpoints <- MCMaxEndpoints
PROPERTY TimeoutDisconnects
CHECK_DEADLOCK FALSE
