CONSTANTS
    Writers = {w1}
    Features = {a}
    NKeys = 1
    Limit = 1
    Backfill = TRUE
    MaxWrites = 1
    MaxFaults = 0
SPECIFICATION Spec
CHECK_DEADLOCK FALSE
INVARIANT IndexFollowsStore
