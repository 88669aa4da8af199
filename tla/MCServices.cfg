\* A two-byte ring whose counters wrap at four; writes longer than the ring.
CONSTANTS
    PIPESIZE = 2
    UINT = 4
    Byte = {x, y}
    Proc = {p1, p2}
    NoProc = NoProc
    MaxN = 3
SPECIFICATION MCSpec
SYMMETRY Alike
INVARIANTS
    TypeOK
    SleepersHaveReason
    FreedIsUnused
    RefsCounted
    CopiesAgree
    NoPanic
    LinksCovered
    NoLockCycle
    FilesMatch
    InputIsRead
    PagesConserved
    ImageWhole
PROPERTIES
    ImplementsStream
    SleepsEnd
    ConsoleImplementsLines
