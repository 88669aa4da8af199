\* A log as mkfs makes it; calls use all they reserve.
CONSTANTS
    MAXOPBLOCKS = 2
    LOGSIZE = 4
    NLOG = 4
    OpBlocks = 2
    Block = {a, b, c, d}
    Value = {x}
    Torn = Torn
    Proc = {p, q}
    NoProc = NoProc
SPECIFICATION Spec
INVARIANTS
    LogFits
