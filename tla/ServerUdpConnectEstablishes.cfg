SPECIFICATION Spec
CONSTANT MaxEndpoints <- MCMaxEndpoints
PROPERTY UdpConnectEstablishes
CHECK_DEADLOCK FALSE
