SPECIFICATION FairSpec
CONSTANTS
    c1 = c1
    c2 = c2
    NoCpu = NoCpu
    CPUs <- OneCPU
    NPROC = 3
    MaxPid = 3
    KillPids <- KillFirst
PROPERTY ProcProgress
