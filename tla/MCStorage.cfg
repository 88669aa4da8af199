\* nlog as mkfs sets it: LOGSIZE blocks, one of them the header; calls may
\* modify more blocks than they reserve, so that log_write() panics too.
CONSTANTS
    MAXOPBLOCKS = 1
    LOGSIZE = 3
    NLOG = 3
    OpBlocks = 2
    Block = {a, b, c}
    Value = {x, y}
    Torn = Torn
    Proc = {p, q}
    NoProc = NoProc
SPECIFICATION MCSpec
SYMMETRY Alike
INVARIANTS
    SleepersHaveReason
    LoggedArePinned
    LayersTypeOK
    BufferWaitsEnd
    PanicsOnlyWhenFull
    BlocksAccounted
PROPERTIES
    ImplementsAtomicDisk
    BioImplementsStore
    DataImplementsFile
