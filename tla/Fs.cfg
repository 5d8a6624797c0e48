SPECIFICATION Spec
CONSTANTS a = a
  b = b
  Procs = {p1, p2}
  InitProc = p1
  NoProc = none
  Names = {a, b}
  Paths <- TreePaths
  NINODE = 3
  NInodes = 3
  NBlocks = 2
  NFILE = 2
  NOFILE = 2
  MAXFILE = 1
  MaxCalls = 3
  MaxCrashes = 2
INVARIANTS CountInv CopyIsCurrent InUseInv DurableConsistent
PROPERTY BootLeavesNoOrphan
