SPECIFICATION Spec
CONSTANTS
    Sweepers = {a, b} NewestRow = 5 Unreadable = {2, 3} RowLimit = 2 MaxAttempts = 1 MaxSlips = 2
    LastRun = 2 MaxRead = 2
    Writers = {v, w} LastOffset = 2 Platforms = {1, 2} PlatformOf <- MCPlatformOf BatchMax = 2 MaxChanges = 2
    Processes = {s, t} Scheduler = s Fallback = 2
    Tags = {h1} LastPage = 1 DayQuota = 2 Reserve = 1 Feeds = {"search"} ShareOf <- MCShareOf
    PageTries = 1 StallRounds = 2 EmptyPages = 1 MaxTroubles <- MCMaxTroubles MaxAges = 1
    Videos = {v1} LastComment = 1 Threads = {0, 1} MaxSlipUps = 2
INVARIANTS OutcomeIsReal CommittedInLake DoneIsWhole ReserveKept FinishedIsRead
PROPERTIES
    LabelIsFinal
    CommentsGetLabels RefreshGetsOutcome RecordsReachLake HashtagsGetDone VideosGetMarked
CHECK_DEADLOCK FALSE
