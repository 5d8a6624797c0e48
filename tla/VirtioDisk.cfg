SPECIFICATION Spec
CONSTANTS
    b1 = b1
    b2 = b2
    b3 = b3
    Bufs <- ThreeBufs
    Contents <- ThreeContents
    NUM = 8
    UINT16 = 16
    NoBuf = NoBuf
    Intr = Intr
INVARIANTS QueueInv ChainsPartition
PROPERTY ImplementsDisk
