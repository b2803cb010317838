SPECIFICATION Spec
CONSTANTS
    P = P
    C = C
    x1 = x1
    x2 = x2
    NoOffset = NoOffset
    Partitions = {P}
    PostPartitions = {P}
    LogLen = 2
    Posts = {x1, x2}
    KindOf <- MCPosts
    PostOf <- MCEach
    Concurrency <- MCFour
    InfraRetries = 0
    ParentRetries = 1
    UnexpectedRetries = 0
    MemoCap = 0
    InitCommitted <- MCZeroes
    Legacy <- MCNoOffsets
    InitLogEnd <- MCFull
    MaxCrashes = 0
    MaxRebalances = 1
    MaxMisreads = 0
    BrokerMayFail = FALSE
INVARIANT TrackerDrains
CHECK_DEADLOCK FALSE
