CONSTANTS
    PIPESIZE = 1
    UINT = 2
    Byte = {x}
    Proc = {p1, p2}
    NoProc = NoProc
    MaxN = 2
SPECIFICATION FairSpec
PROPERTIES
    KilledReturns
CHECK_DEADLOCK FALSE
