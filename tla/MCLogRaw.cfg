\* Raw writes to the disk the file system is on.
CONSTANTS
    MAXOPBLOCKS = 1
    LOGSIZE = 3
    NLOG = 4
    OpBlocks = 1
    Block = {a, b}
    Value = {x, y}
    Torn = Torn
    Proc = {p, q}
    NoProc = NoProc
SPECIFICATION SpecRaw
INVARIANTS
    LoggedArePinned
