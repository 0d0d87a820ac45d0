SPECIFICATION Spec
CONSTANT MaxEndpoints <- MCMaxEndpoints
PROPERTY TimeoutOnlyWhenPending
CHECK_DEADLOCK FALSE
