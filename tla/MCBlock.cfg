SPECIFICATION BlockSpec
CONSTANTS
    Keys = {k1, k2}
    Procs = {p1, p2, p3, p4}
    Bounds = {0, 2}
    ShardedFrom = {3}
    RingShards <- MCRingShards
    MaxRings = 2
    MaxId = 4
    Inserts = {i1, i2}
    BlockShards <- MCBlockShards
    Modes = {"compact", "incremental"}
    Overrides = {"compact"}
    FixedIds = {2}
    MaxLower = 1
    MaxEntries = 2
    MaxRestarts = 1
INVARIANTS LockSafety IdsAreSound
PROPERTIES ImplementsFifoLock EveryWaiterEnters
CHECK_DEADLOCK TRUE
