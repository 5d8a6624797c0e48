SPECIFICATION Spec
CONSTANTS
    c1 = c1
    c2 = c2
    NoCpu = NoCpu
    CPUs <- TwoCPUs
    NPROC = 3
    MaxPid = 4
    KillPids <- KillSecond
SYMMETRY Symmetry
INVARIANTS StackInv NoMissedExit OrphansAdopted
PROPERTY ImplementsFamily
