SPECIFICATION FairSpec
CONSTANTS
    MaxRuns = 3
    MaxStops = 2
    MaxClients = 2
INVARIANTS
    TypeOK
    AcceptsGoOn
    OneRightThread
    NoThreadLeftBehind
PROPERTIES
    StopEnds
    RunEnds
    ClientsServed
CHECK_DEADLOCK FALSE
