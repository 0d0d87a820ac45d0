SPECIFICATION FairSpec
CONSTANTS
    console = console
    logfile = logfile
    Programs <- MCPrograms
    o1 = o1
    o2 = o2
    Streams = {console, logfile}
    LogFile = logfile
    Accepts <- MCAccepts
    Levels = {"INFO", "FATAL"}
    vfactor <- MCvfactor
    Capacity = 2
    MaxEntries = 3
    MaxCrashes = 1
    MaxSize = 1
    Stamps = {1}
INVARIANTS
    TypeOK
    NoneVanishes
    UnboundIsLeftAlone
    OnlyPriorityOvertakes
    LinesKept
PROPERTIES
    ArchivesKept
    EventuallyOutput
CHECK_DEADLOCK FALSE
