\* A log as mkfs makes it; calls use less than they reserve.
CONSTANTS
    MAXOPBLOCKS = 2
    LOGSIZE = 4
    NLOG = 4
    OpBlocks = 1
    Block = {a, b, c}
    Value = {x}
    Torn = Torn
    Proc = {p, q, r}
    NoProc = NoProc
SPECIFICATION MCSpec
INVARIANTS
    LogCounts
    ProcessorsApart
PROPERTIES
    SleepersWake
    CloseReleasesPeers
    AllStart
