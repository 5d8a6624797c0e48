SPECIFICATION FairSpec
CONSTANTS
    Procs = {p1, p2}
    Blocks = {n1, n2, n3}
    Data = {d0, d1}
    NBUF = 2
    MaxPinned = 1
    NoBlock = NoBlock
    NotCached = NotCached
    NoProc = NoProc
INVARIANTS OneBufferPerBlock StillWanted NoLostWakeup CacheInv
PROPERTIES ImplementsCache SleeperWakes
CHECK_DEADLOCK FALSE
