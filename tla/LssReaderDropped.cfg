SPECIFICATION Spec
CONSTANTS
    Packets <- MCPackets
    Boundary <- MCBoundary
    MaxLength <- MCMaxLength
    MisreadLens <- MCMisread
INVARIANT Intact
CHECK_DEADLOCK FALSE
