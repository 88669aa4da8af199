------------------------------- MODULE Ticks -------------------------------
(***************************************************************************)
(* The clock (the timer case of trap() in kern/trap.c) and sys_sleep().    *)
(* ticks wraps; a tick is a step under tickslock, and so is each turn of   *)
(* the loop in sys_sleep(), but kill() takes no lock and may fall between  *)
(* the test of proc->killed and sleep().  A process that has been woken    *)
(* runs before MaxLag more ticks have passed.                              *)
(***************************************************************************)
EXTENDS Integers

CONSTANTS
    Proc,
    UINT,                   \* 2^32
    Naps,                   \* the n of sleep(), an int: negative ones too
    MaxLag

(* Times that a late wakeup does not turn into a second round.             *)
TicksAssumption ==
    /\ UINT \in Nat \ {0} /\ Naps \subseteq Int /\ MaxLag \in Nat
    /\ \A k \in Naps : (k % UINT) + MaxLag < UINT

VARIABLES
    ticks,
    pc, ticks0, n,          \* by process: sys_sleep()'s locals
    killed,
    since,                  \* by process: the ticks since its call
    lag,                    \* by process: the ticks since it was woken
    doomed                  \* by process: the ticks since it was killed in the call

vars == <<ticks, pc, ticks0, n, killed, since, lag, doomed>>

Zero == [p \in Proc |-> 0]

Init ==
    /\ ticks \in 0 .. UINT - 1
    /\ pc = [p \in Proc |-> "idle"] /\ ticks0 = Zero /\ n = Zero
    /\ killed = {} /\ since = Zero /\ lag = Zero /\ doomed = Zero

Goto(p, l) == pc' = [pc EXCEPT ![p] = l]

(* The timer interrupt of CPU 0; tickslock is held at "sleep".             *)
timer ==
    /\ \A p \in Proc : pc[p] # "sleep" /\ (pc[p] = "test" => lag[p] < MaxLag)
    /\ ticks' = (ticks + 1) % UINT
    /\ pc' = [p \in Proc |-> IF pc[p] = "asleep" THEN "test" ELSE pc[p]]
    /\ since' = [p \in Proc |-> IF pc[p] = "idle" THEN 0 ELSE since[p] + 1]
    /\ lag' = [p \in Proc |-> IF pc[p] = "test" THEN lag[p] + 1 ELSE 0]
    /\ doomed' = [p \in Proc |-> IF pc[p] # "idle" /\ p \in killed THEN doomed[p] + 1 ELSE 0]
    /\ UNCHANGED <<ticks0, n, killed>>

sys_sleep(p) ==
    /\ pc[p] = "idle" /\ p \notin killed
    /\ \E k \in Naps : n' = [n EXCEPT ![p] = k]
    /\ ticks0' = [ticks0 EXCEPT ![p] = ticks] /\ Goto(p, "test")
    /\ since' = [since EXCEPT ![p] = 0] /\ lag' = [lag EXCEPT ![p] = 0]
    /\ UNCHANGED <<ticks, killed, doomed>>

\* Mutant: ticks is compared with the time to wake up.
BeforeDeadline(p) == ticks < ticks0[p] + n[p]

\* ticks - ticks0 < n, unsigned.
TooEarly(p) == (ticks - ticks0[p]) % UINT < n[p] % UINT

Return(p) ==
    /\ Goto(p, "idle") /\ n' = [n EXCEPT ![p] = 0] /\ ticks0' = [ticks0 EXCEPT ![p] = 0]
    /\ since' = [since EXCEPT ![p] = 0] /\ lag' = [lag EXCEPT ![p] = 0]
    /\ doomed' = [doomed EXCEPT ![p] = 0]
    /\ UNCHANGED <<ticks, killed>>

sleepOver(p) == pc[p] = "test" /\ ~TooEarly(p) /\ Return(p)

GivesUp(p) == p \in killed

sleepKilled(p) == pc[p] = "test" /\ TooEarly(p) /\ GivesUp(p) /\ Return(p)

sleepTest(p) ==
    /\ pc[p] = "test" /\ TooEarly(p) /\ ~GivesUp(p)
    /\ Goto(p, "sleep")
    /\ UNCHANGED <<ticks, ticks0, n, killed, since, lag, doomed>>

sleep(p) ==
    /\ pc[p] = "sleep"
    /\ Goto(p, "asleep") /\ lag' = [lag EXCEPT ![p] = 0]
    /\ UNCHANGED <<ticks, ticks0, n, killed, since, doomed>>

kill(p) ==
    /\ p \notin killed /\ killed' = killed \cup {p}
    /\ pc' = IF pc[p] = "asleep" THEN [pc EXCEPT ![p] = "test"] ELSE pc
    /\ UNCHANGED <<ticks, ticks0, n, since, lag, doomed>>

Next == timer \/ \E p \in Proc :
    sys_sleep(p) \/ sleepOver(p) \/ sleepKilled(p) \/ sleepTest(p) \/ sleep(p) \/ kill(p)

Spec == Init /\ [][Next]_vars

----------------------------------------------------------------------------
(* sleep(n) returns after n ticks, not before, and at most MaxLag later,   *)
(* although ticks wraps; a negative n is taken for UINT + n.  It holds for *)
(* times below UINT - MaxLag: a longer one may be missed and go round.     *)
SleepsItsTime == [][\A p \in Proc : sleepOver(p) =>
    since[p] \in (n[p] % UINT) .. (n[p] % UINT) + MaxLag]_vars

(* A killed process leaves sys_sleep() at once: even when kill() falls     *)
(* between the test and sleep(), the next tick wakes it.                   *)
KilledLeaves == \A p \in Proc : doomed[p] <= 1 + MaxLag
=============================================================================
