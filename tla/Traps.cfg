CONSTANTS
  Procs = {p1}
  NCPU = 2
  UINT = 3
  PauseArgs <- Args
  Irqs = {uart}
  Victims = {p1}
SPECIFICATION Spec
INVARIANTS CpuInv TrapInv PauseLongEnough

VIEW Live
