\* fchdir() beside the other calls.
CONSTANTS
    MAXOPBLOCKS = 1
    LOGSIZE = 3
    NLOG = 4
    OpBlocks = 1
    Block = {a, b}
    Value = {x}
    Torn = Torn
    Proc = {p, q}
    NoProc = NoProc
SPECIFICATION SpecFchdir
INVARIANTS
    OutstandingCounts
