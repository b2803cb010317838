SPECIFICATION FairSpec
CONSTANTS
    Posts = {x1}
    Rounds = {k1}
    MaxRuns = 1
    MaxReplies = 1
    Interrupts = 1
PROPERTY ReapplyHarmless
CHECK_DEADLOCK FALSE
