SPECIFICATION FairSpec
CONSTANTS
    OutCap = 1
    ErrCap = 1
    MaxOut = 3
    MaxErr = 2
    Paths <- MCPaths
    Inodes <- MCInodes
    Root = "s"
    Layouts <- MCLayouts
    SizeOf <- MCSizeOf
    ChunkSize = 2
    Passes = 9
INVARIANTS
    TypeOK
    BlocksAtOverflow
    OkMeansArchived
    ChildOutlivesPipes
    FailureIsExplained
    RemovedIsWiped
    OkMeansGone
    OutsideKept
    FailsForAReason
PROPERTIES
    KeepsPromise
    EndsUnlessJammed
CHECK_DEADLOCK FALSE
