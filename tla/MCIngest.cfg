SPECIFICATION FairSpec
CONSTANTS
    P = P
    C = C
    x1 = x1
    x2 = x2
    NoOffset = NoOffset
    Partitions = {P, C}
    PostPartitions = {P}
    LogLen = 2
    Posts = {x1}
    KindOf <- MCComments
    PostOf <- MCSame
    Concurrency <- MCOne
    InfraRetries = 1
    ParentRetries = 1
    UnexpectedRetries = 0
    MemoCap = 0
    InitCommitted <- MCStarted
    Legacy <- MCNoOffsets
    InitLogEnd <- MCGrowing
    MaxCrashes = 1
    MaxRebalances = 0
    MaxMisreads = 1
    BrokerMayFail = FALSE
INVARIANTS TypeOK TrackerDrains DeliberateDrops
PROPERTIES StaleMemoHarmless EverySettles
CHECK_DEADLOCK FALSE
