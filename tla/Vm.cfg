SPECIFICATION Spec
CONSTANTS Procs = {p1, p2}
  InitProc = p1
  NPages = 13
  MaxPages = 3
  Fanout = 2
  PGSIZE = 2
  Data = {d}
  SbrkSizes <- Sizes
INVARIANT PageInv
PROPERTY ImplementsSpaces
VIEW Shape
