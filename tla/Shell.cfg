SPECIFICATION FairSpec
CONSTANTS
    NPROC = 6
    NOFILE = 5
    MAXARGS = 3
    Chunks = 2
    MaxLen = 3
    Lines <- TypedLines
INVARIANTS ParsedByGrammar PlumbingInv InOrder
PROPERTY ShellComesBack
CHECK_DEADLOCK FALSE
