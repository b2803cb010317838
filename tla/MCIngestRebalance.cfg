SPECIFICATION Spec
CONSTANTS
    P = P
    C = C
    x1 = x1
    x2 = x2
    NoOffset = NoOffset
    Partitions = {P}
    PostPartitions = {P}
    LogLen = 4
    Posts = {x1, x2}
    KindOf <- MCPosts
    PostOf <- MCEach
    Concurrency <- MCOne
    InfraRetries = 0
    ParentRetries = 1
    UnexpectedRetries = 0
    MemoCap = 0
    InitCommitted <- MCZeroes
    Legacy <- MCNoOffsets
    InitLogEnd <- MCFull
    MaxCrashes = 1
    MaxRebalances = 1
    MaxMisreads = 0
    BrokerMayFail = TRUE
INVARIANTS CommittedSettled NothingLost
PROPERTIES KeepsPromise
CHECK_DEADLOCK FALSE
