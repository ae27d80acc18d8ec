SPECIFICATION Spec
CONSTANTS
    PGSIZE = 4
    NPTE = 3
    LEVELS = 4
    BUFFER = 4
    BUFPAGES = 2
    IPCPage = 2
    Frames <- MCFrames
    pluginNum = 2
    Pages = 7
    Builds <- MCBuilds
INVARIANTS
    FramesExclusive
    LoaderNeverFaults
    OwnProgram
    ScanStops
    IpcBufferMapped
PROPERTY
    LoadEnds
