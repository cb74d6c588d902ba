SPECIFICATION FairSpec
CONSTANTS
    Many = 3
    Programs <- EveryProgram
    Families = {"unix", "tcp", "bt"}
    MaxFd = 5
    MaxFile = 9
    MaxRemote = 2
INVARIANTS
    TypeOK
    NoAstrayCall
    ArgsOutliveThreads
    PipeLoopNeverFails
    StuckOnlyOnClosed
PROPERTIES
    ShutdownEndsThem
CHECK_DEADLOCK FALSE
