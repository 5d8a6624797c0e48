SPECIFICATION FairSpec
CONSTANTS
    Readers = {r1, b}
    Writers = {w1, b}
    Killable = {b}
    NoProc = NoProc
    Bytes = {0, 1}
    PIPESIZE = 2
    UINT = 4
    MaxN = 2
INVARIANT PipeInv
PROPERTIES ImplementsFifo ReadersReturn
CHECK_DEADLOCK FALSE
