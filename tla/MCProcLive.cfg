\* One CPU: scheduling is fair because scheduler() goes round the table.
CONSTANTS
    NPROC = 3
    CPU = {c1}
    NoCpu = NoCpu
    MaxPid = 4
    MaxKill = 1
SPECIFICATION FairSpec
PROPERTIES
    KilledDies
    OrphansReaped
CHECK_DEADLOCK FALSE
