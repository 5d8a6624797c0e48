SPECIFICATION Spec
CONSTANTS a = a
  b = b
  Procs = {p1, p2}
  InitProc = p1
  NoProc = none
  Names = {a, b}
  Paths <- OnePath
  NINODE = 2
  NInodes = 2
  NBlocks = 1
  NFILE = 2
  NOFILE = 1
  MAXFILE = 1
  MaxCalls = 3
  MaxCrashes = 0
INVARIANT CountsAtZeroFree
