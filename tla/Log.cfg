SPECIFICATION FairSpec
CONSTANTS
    Procs = {p1, p2}
    Blocks = {b1, b2}
    Data = {d0, d1}
    Zero = d0
    Torn = Torn
    NotCached = NotCached
    NoBlock = NoBlock
    LOGBLOCKS = 2
    MAXOPBLOCKS = 1
    OpBlocks = 1
    MaxCrashes = 2
INVARIANTS IInv NoTornRead SleeperHasWaker NoPanic
PROPERTIES CrashAtomic LogProgress
