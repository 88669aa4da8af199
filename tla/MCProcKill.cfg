CONSTANTS
    NPROC = 2
    CPU = {c1}
    NoCpu = NoCpu
    MaxPid = 4
    MaxKill = 1
SPECIFICATION Spec
INVARIANTS
    KilledMeansKilled
CHECK_DEADLOCK FALSE
