CONSTANTS
    NPROC = 3
    CPU = {c1, c2}
    NoCpu = NoCpu
    MaxPid = 4
    MaxKill = 1
SYMMETRY Symmetry
SPECIFICATION Spec
INVARIANTS
    TypeOK
    StackSafe
    SchedAssertions
    InterruptsRestored
    InodeSleepersHaveReason
    WaitersHaveReason
    ParentAlive
    StatusExchanged
    InodeExclusive
\* panic("init exiting") stops the machine.
CHECK_DEADLOCK FALSE
