SPECIFICATION FairSpec
CONSTANTS
    LastSlot = 2
    Keywords = {k1}
    Nurture = {"nurture_before"}
    Pages = {p1}
    Lanes = TRUE
    FiredCap = 0
    MaxLosses = 1
    MaxOutages = 1
INVARIANTS TypeOK FiredMeansDelivered OnceAndOncePerLoss
PROPERTY DueSlotDelivered
CHECK_DEADLOCK FALSE
