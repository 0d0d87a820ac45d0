SPECIFICATION FairSpec
CONSTANTS
    Packets <- MCPackets
    Boundary <- MCBoundary
    MaxLength <- MCMaxLength
    MisreadLens <- MCMisread
INVARIANTS
    TypeOK
    IntactWhileWhole
    NoneTwice
PROPERTY AllDelivered
CHECK_DEADLOCK FALSE
