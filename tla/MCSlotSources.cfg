SPECIFICATION FairSpec
CONSTANTS
    LastSlot = 1
    Keywords = {k1}
    Nurture = {}
    Pages = {p1}
    Lanes = TRUE
    FiredCap = 0
    MaxLosses = 0
    MaxOutages = 1
INVARIANT SourcesDelivered
CHECK_DEADLOCK FALSE
