CONSTANTS
    Writers = {w1, w2}
    Features = {a}
    NKeys = 2
    Limit = 1
    Backfill = TRUE
    MaxWrites = 2
    MaxFaults = 2
SPECIFICATION FairSpec
CHECK_DEADLOCK FALSE
INVARIANTS ReadStaysCurrent IndexFollowsStoreUnlessMissed
PROPERTIES WorkEnds
