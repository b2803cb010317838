SPECIFICATION FairSpec
CONSTANTS
    Posts = {x1}
    Rounds = {k1, k2}
    MaxRuns = 2
    MaxReplies = 1
    Interrupts = 1
INVARIANTS TypeOK QueuedHoldsLease LeaseIsAccounted
PROPERTIES CountsWhatWasQueued EveryCompletionHandled
CHECK_DEADLOCK FALSE
