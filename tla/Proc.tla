-------------------------------- MODULE Proc --------------------------------
(***************************************************************************)
(* kern/proc.c on several CPUs: the process table, the scheduler and the   *)
(* hand-over of ptable.lock across swtch(), fork/exit/wait/kill, and       *)
(* sleep/wakeup.  The client of sleep() is the inode lock of fs.c          *)
(* (ilock/iunlock: a flag guarded by icache.lock), the pattern every other *)
(* sleeper of the kernel follows.                                          *)
(*                                                                         *)
(* A step is a piece of code between two points where another CPU can see  *)
(* or change the process table: a section under ptable.lock with no switch *)
(* in it is one step; a section that switches keeps the lock in ptlock.    *)
(* ncli, intena and the interrupt flag of each CPU follow pushcli/popcli   *)
(* (spinlock.c); the timer interrupts a process wherever they allow it.    *)
(***************************************************************************)
EXTENDS Integers, FiniteSets

CONSTANTS
    NPROC,      \* slots of ptable
    CPU,        \* processors
    NoCpu,      \* "no CPU holds the lock"
    MaxPid,     \* bound: nextpid stops here
    MaxKill     \* bound: calls of kill()

ASSUME ProcAssumption ==
    /\ NPROC \in Nat \ {0}
    /\ NoCpu \notin CPU
    /\ MaxPid \in Nat /\ MaxKill \in Nat

Slot     == 1 .. NPROC
initproc == 1               \* userinit() fills the first slot
None     == 0               \* a null struct proc*, a null chan
Inode    == NPROC + 1       \* the chan of ilock(); wait() sleeps on its own slot

VARIABLES
    state, pid, parent, chan, killed, exitstatus,   \* struct proc, by slot
    nextpid,
    ptlock, iclock,         \* the CPUs that hold ptable.lock, icache.lock
    ibusy,                  \* ip->flags & I_BUSY
    ncli, intena, intr,     \* per CPU: struct cpu's fields, the IF flag
    cproc,                  \* per CPU: cpu->proc
    spc, nxt,               \* per CPU: where scheduler() is, its loop variable
    ctx,                    \* by slot: "on" a CPU, or saved ("off") by swtch()
    saved,                  \* by slot: sched()'s local copy of intena
    pc, irq,                \* by slot: the system call's code, the timer trap's
    np,                     \* by slot: fork()'s local np
    reaped,                 \* what wait() last returned: <<pid, status>>
    targets, kills          \* pids kill() was called with, and how often

table  == <<state, pid, parent, chan, killed, exitstatus>>
cpus   == <<ncli, intena, intr>>
switch == <<cproc, spc, nxt, ctx, saved>>
inode  == <<iclock, ibusy>>
obs    == <<reaped, targets, kills>>
vars   == <<table, nextpid, ptlock, inode, cpus, switch, pc, irq, np, obs>>

----------------------------------------------------------------------------
(* spinlock.c: interrupts are off while a CPU holds a lock, and come back  *)
(* as they were when it releases the last one.                             *)
pushcli(c) ==
    /\ ncli' = [ncli EXCEPT ![c] = @ + 1]
    /\ intena' = IF ncli[c] = 0 THEN [intena EXCEPT ![c] = intr[c]] ELSE intena
    /\ intr' = [intr EXCEPT ![c] = FALSE]

\* Mutant: release() leaves its pushcli() in place.
NoPopcli(c, ie) == ncli' = ncli /\ intena' = [intena EXCEPT ![c] = ie] /\ intr' = intr

popcli(c, ie) ==            \* ie: the value of intena[c] when it is tested
    /\ ncli' = [ncli EXCEPT ![c] = @ - 1]
    /\ intena' = [intena EXCEPT ![c] = ie]
    /\ intr' = IF ncli[c] = 1 /\ ie THEN [intr EXCEPT ![c] = TRUE] ELSE intr

----------------------------------------------------------------------------
At(p) == IF irq[p] # "none" THEN irq[p] ELSE pc[p]

\* CPU c executes process p, which is about to run the code at l.
On(c, p, l) == cproc[c] = p /\ spc[c] = "run" /\ At(p) = l

Goto(p, l) ==
    IF irq[p] # "none" THEN irq' = [irq EXCEPT ![p] = l] /\ pc' = pc
                       ELSE pc' = [pc EXCEPT ![p] = l] /\ irq' = irq

\* Mutant: wakeup1() stops at the first sleeper it finds.
WakeOne(st, ch) ==
    [q \in Slot |-> IF /\ st[q] = "SLEEPING" /\ chan[q] = ch
                       /\ \A r \in 1 .. q - 1 : ~(st[r] = "SLEEPING" /\ chan[r] = ch)
                    THEN "RUNNABLE" ELSE st[q]]

\* wakeup1(ch): st is the table's state column before it.
wakeup1(st, ch) ==
    [q \in Slot |-> IF st[q] = "SLEEPING" /\ chan[q] = ch THEN "RUNNABLE" ELSE st[q]]

(* userinit() has run and every CPU is entering scheduler().               *)
Init ==
    /\ state = [p \in Slot |-> IF p = initproc THEN "RUNNABLE" ELSE "UNUSED"]
    /\ pid = [p \in Slot |-> IF p = initproc THEN 1 ELSE 0]
    /\ parent = [p \in Slot |-> None] /\ chan = [p \in Slot |-> None]
    /\ killed = [p \in Slot |-> FALSE] /\ exitstatus = [p \in Slot |-> 0]
    /\ nextpid = 2
    /\ ptlock = NoCpu /\ iclock = NoCpu /\ ibusy = FALSE
    /\ ncli = [c \in CPU |-> 0] /\ intena = [c \in CPU |-> FALSE]
    /\ intr = [c \in CPU |-> FALSE]
    /\ cproc = [c \in CPU |-> None] /\ spc = [c \in CPU |-> "idle"]
    /\ nxt = [c \in CPU |-> 1]
    /\ ctx = [p \in Slot |-> "off"] /\ saved = [p \in Slot |-> FALSE]
    /\ pc = [p \in Slot |-> "forkret"] /\ irq = [p \in Slot |-> "none"]
    /\ np = [p \in Slot |-> None]
    /\ reaped = <<0, 0>> /\ targets = {} /\ kills = 0

----------------------------------------------------------------------------
(* scheduler(): sti(), take the lock, go once through the table; a process *)
(* is switched to with the lock held, and comes back with it held.         *)
SchedAcquire(c) ==
    /\ spc[c] = "idle" /\ ptlock = NoCpu
    /\ ptlock' = c
    /\ ncli' = [ncli EXCEPT ![c] = @ + 1]
    /\ intena' = [intena EXCEPT ![c] = TRUE] /\ intr' = [intr EXCEPT ![c] = FALSE]
    /\ spc' = [spc EXCEPT ![c] = "scan"]
    /\ UNCHANGED <<table, nextpid, inode, cproc, nxt, ctx, saved, pc, irq, np, obs>>

\* Mutant: the loop ends one slot early.
RunnableShort(p) == p < NPROC /\ state[p] = "RUNNABLE"

Runnable(p) == state[p] = "RUNNABLE"

SchedSwitch(c) ==
    /\ spc[c] = "scan"
    /\ \E p \in Slot :
         /\ p >= nxt[c] /\ Runnable(p)
         /\ \A q \in nxt[c] .. p - 1 : ~Runnable(q)
         /\ cproc' = [cproc EXCEPT ![c] = p]
         /\ state' = [state EXCEPT ![p] = "RUNNING"]
         /\ ctx' = [ctx EXCEPT ![p] = "on"]
         /\ nxt' = [nxt EXCEPT ![c] = p + 1] /\ spc' = [spc EXCEPT ![c] = "run"]
    /\ UNCHANGED <<pid, parent, chan, killed, exitstatus, nextpid, ptlock, inode,
                   cpus, saved, pc, irq, np, obs>>

SchedRelease(c) ==
    /\ spc[c] = "scan" /\ \A p \in nxt[c] .. NPROC : ~Runnable(p)
    /\ ptlock' = NoCpu /\ popcli(c, intena[c])
    /\ nxt' = [nxt EXCEPT ![c] = 1] /\ spc' = [spc EXCEPT ![c] = "idle"]
    /\ UNCHANGED <<table, nextpid, inode, cproc, ctx, saved, pc, irq, np, obs>>

(* sched(): swtch() to this CPU's scheduler, which goes on with its loop.  *)
AfterSched(l) == CASE l = "y_sched" -> "y_release"
                   [] l = "s_sched" -> "s_tidy"
                   [] l = "w_sched" -> "w_tidy"
                   [] l = "x_sched" -> "x_dead"

sched(c, p) ==
    /\ \E l \in {"y_sched", "s_sched", "w_sched", "x_sched"} :
         On(c, p, l) /\ Goto(p, AfterSched(l))
    /\ saved' = [saved EXCEPT ![p] = intena[c]]
    /\ ctx' = [ctx EXCEPT ![p] = "off"]
    /\ cproc' = [cproc EXCEPT ![c] = None] /\ spc' = [spc EXCEPT ![c] = "scan"]
    /\ UNCHANGED <<table, nextpid, ptlock, inode, cpus, nxt, np, obs>>

(* Back from sched(): cpu->intena = intena, and the local is gone.         *)
RestoreIntena(p) == saved' = [saved EXCEPT ![p] = FALSE]

\* Mutant: sched() does not restore cpu->intena.
ReleaseKeepsIntena(c, p) ==
    ptlock' = NoCpu /\ popcli(c, intena[c]) /\ RestoreIntena(p)

ReleaseAfterSched(c, p) ==
    ptlock' = NoCpu /\ popcli(c, saved[p]) /\ RestoreIntena(p)

(* forkret(): a new process starts here, outside sched(), and returns to   *)
(* user space, where interrupts are on.                                    *)
forkret(c, p) ==
    /\ On(c, p, "forkret") /\ Goto(p, "user")
    /\ ptlock' = NoCpu
    /\ ncli' = [ncli EXCEPT ![c] = @ - 1] /\ intr' = [intr EXCEPT ![c] = TRUE]
    /\ UNCHANGED <<table, nextpid, inode, intena, switch, np, obs>>

----------------------------------------------------------------------------
(* trap(): the timer interrupts p when interrupts are on, and yields; but  *)
(* a killed process that is in user space goes to exit() instead.          *)
Timer(c, p) ==
    /\ cproc[c] = p /\ spc[c] = "run" /\ intr[c] /\ irq[p] = "none"
    /\ ~(pc[p] = "user" /\ killed[p])
    /\ irq' = [irq EXCEPT ![p] = "y_acquire"]
    /\ intr' = [intr EXCEPT ![c] = FALSE]
    /\ UNCHANGED <<table, nextpid, ptlock, inode, ncli, intena, switch, pc, np, obs>>

\* Mutant: ptable.lock is given up before the switch.
NoPtlock(c) == ptlock = NoCpu /\ ptlock' = NoCpu /\ pushcli(c)

AcquirePtlock(c) == ptlock = NoCpu /\ ptlock' = c /\ pushcli(c)

yield(c, p) ==
    /\ On(c, p, "y_acquire") /\ Goto(p, "y_sched")
    /\ AcquirePtlock(c)
    /\ state' = [state EXCEPT ![p] = "RUNNABLE"]
    /\ UNCHANGED <<pid, parent, chan, killed, exitstatus, nextpid, inode, switch, np, obs>>

YieldReturn(c, p) ==
    /\ On(c, p, "y_release") /\ Goto(p, "y_iret")
    /\ ReleaseAfterSched(c, p)
    /\ UNCHANGED <<table, nextpid, inode, cproc, spc, nxt, ctx, np, obs>>

\* iret restores the flags the interrupt saved: interrupts were on.
Iret(c, p) ==
    /\ On(c, p, "y_iret")
    /\ irq' = [irq EXCEPT ![p] = "none"] /\ intr' = [intr EXCEPT ![c] = TRUE]
    /\ UNCHANGED <<table, nextpid, ptlock, inode, ncli, intena, switch, pc, np, obs>>

----------------------------------------------------------------------------
(* A system call from user space: trap() sends a killed process to exit(). *)
\* Mutant: trap() does not look at proc->killed.
UserCall(c, p) == On(c, p, "user")

MayCall(c, p) == On(c, p, "user") /\ ~killed[p]

(* fork(): allocproc() claims a slot under the lock; the copying of the    *)
(* address space, which may fail, and the write of np->parent do not hold  *)
(* it; the child becomes RUNNABLE under the lock.                          *)
allocproc(c, p) ==
    /\ MayCall(c, p) /\ ptlock = NoCpu /\ nextpid < MaxPid
    /\ \E q \in Slot :
         /\ state[q] = "UNUSED" /\ \A r \in 1 .. q - 1 : state[r] # "UNUSED"
         /\ state' = [state EXCEPT ![q] = "EMBRYO"]
         /\ pid' = [pid EXCEPT ![q] = nextpid]
         /\ np' = [np EXCEPT ![p] = q]
    /\ nextpid' = nextpid + 1
    /\ Goto(p, "f_copy")
    /\ UNCHANGED <<parent, chan, killed, exitstatus, ptlock, inode, cpus, switch, obs>>

\* kalloc() of the kernel stack or copyuvm() fails: the slot is given back.
ForkFail(c, p) ==
    /\ On(c, p, "f_copy") /\ Goto(p, "user")
    /\ state' = [state EXCEPT ![np[p]] = "UNUSED"]
    /\ np' = [np EXCEPT ![p] = None]
    /\ UNCHANGED <<pid, parent, chan, killed, exitstatus, nextpid, ptlock, inode,
                   cpus, switch, obs>>

ForkCopy(c, p) ==
    /\ On(c, p, "f_copy") /\ Goto(p, "f_ready")
    /\ parent' = [parent EXCEPT ![np[p]] = p]
    /\ UNCHANGED <<state, pid, chan, killed, exitstatus, nextpid, ptlock, inode,
                   cpus, switch, np, obs>>

ForkReady(c, p) ==
    /\ On(c, p, "f_ready") /\ ptlock = NoCpu
    /\ state' = [state EXCEPT ![np[p]] = "RUNNABLE"]
    /\ Goto(p, "user")
    /\ np' = [np EXCEPT ![p] = None]
    /\ UNCHANGED <<pid, parent, chan, killed, exitstatus, nextpid, ptlock, inode,
                   cpus, switch, obs>>

----------------------------------------------------------------------------
(* exit(), called by the process or by trap() when it has been killed.     *)
(* panic("init exiting") freezes every CPU.                                *)
InitExit(c) ==
    /\ On(c, initproc, "user")
    /\ spc' = [d \in CPU |-> "panic"]
    /\ UNCHANGED <<table, nextpid, ptlock, inode, cpus, cproc, nxt, ctx, saved,
                   pc, irq, np, obs>>

\* The exit value is the pid here, so that those of two processes differ; it
\* stands for the caller's, and for the 0 with which trap() calls exit().
exit(c, p) ==
    /\ On(c, p, "user") /\ p # initproc
    /\ exitstatus' = [exitstatus EXCEPT ![p] = pid[p]]
    /\ Goto(p, "x_acquire")
    /\ UNCHANGED <<state, pid, parent, chan, killed, nextpid, ptlock, inode, cpus,
                   switch, np, obs>>

\* Mutant: the children of an exiting process keep their parent.
KeepParent(p) == parent

Reparented(p) == [q \in Slot |-> IF parent[q] = p THEN initproc ELSE parent[q]]

ExitZombie(c, p) ==
    /\ On(c, p, "x_acquire") /\ Goto(p, "x_sched")
    /\ AcquirePtlock(c)
    /\ LET woken  == wakeup1(state, parent[p])
           orphan == \E q \in Slot : parent[q] = p /\ woken[q] = "ZOMBIE"
           all    == IF orphan THEN wakeup1(woken, initproc) ELSE woken
       IN  state' = [all EXCEPT ![p] = "ZOMBIE"]
    /\ parent' = Reparented(p)
    /\ UNCHANGED <<pid, chan, killed, exitstatus, nextpid, inode, switch, np, obs>>

----------------------------------------------------------------------------
(* wait(): everything between acquire and sleep or release is one step, on *)
(* entry and each time sleep(proc, &ptable.lock) returns with the lock.    *)
wait(c, p) ==
    /\ MayCall(c, p)
    /\ Goto(p, "w_acquire")
    /\ UNCHANGED <<table, nextpid, ptlock, inode, cpus, switch, np, obs>>

WaitAcquire(c, p) ==
    /\ On(c, p, "w_acquire") /\ Goto(p, "w_scan")
    /\ AcquirePtlock(c)
    /\ UNCHANGED <<table, nextpid, inode, switch, np, obs>>

Children(p) == {q \in Slot : parent[q] = p}

\* Mutant: the search ends one slot early.
ZombiesShort(p) == {q \in Children(p) : q < NPROC /\ state[q] = "ZOMBIE"}

Zombies(p) == {q \in Children(p) : state[q] = "ZOMBIE"}

\* Mutant: wait() reports its caller's own field.
OwnStatus(p, q) == exitstatus[p]

\* (killed has been cleared by then: its bit, 0x100, is never set.)
Status(p, q) == exitstatus[q]

\* The first zombie child in table order.  The slot's next owner starts at
\* forkret(): allocproc() makes it a new context.
WaitReap(c, p) ==
    /\ On(c, p, "w_scan") /\ irq' = irq
    /\ \E q \in Zombies(p) :
         /\ \A r \in Zombies(p) : q <= r
         /\ pc' = [pc EXCEPT ![p] = "user", ![q] = "forkret"]
         /\ reaped' = <<pid[q], Status(p, q)>>
         /\ state' = [state EXCEPT ![q] = "UNUSED"]
         /\ pid' = [pid EXCEPT ![q] = 0]
         /\ parent' = [parent EXCEPT ![q] = None]
         /\ killed' = [killed EXCEPT ![q] = FALSE]
    /\ ptlock' = NoCpu /\ popcli(c, intena[c])
    /\ UNCHANGED <<chan, exitstatus, nextpid, inode, switch, np, targets, kills>>

WaitFail(c, p) ==
    /\ On(c, p, "w_scan") /\ Goto(p, "user")
    /\ Zombies(p) = {} /\ (Children(p) = {} \/ killed[p])
    /\ ptlock' = NoCpu /\ popcli(c, intena[c])
    /\ UNCHANGED <<table, nextpid, inode, switch, np, obs>>

WaitSleep(c, p) ==
    /\ On(c, p, "w_scan") /\ Goto(p, "w_sched")
    /\ Zombies(p) = {} /\ Children(p) # {} /\ ~killed[p]
    /\ chan' = [chan EXCEPT ![p] = p]
    /\ state' = [state EXCEPT ![p] = "SLEEPING"]
    /\ UNCHANGED <<pid, parent, killed, exitstatus, nextpid, ptlock, inode, cpus,
                   switch, np, obs>>

WaitTidy(c, p) ==
    /\ On(c, p, "w_tidy") /\ Goto(p, "w_scan")
    /\ chan' = [chan EXCEPT ![p] = None]
    /\ intena' = [intena EXCEPT ![c] = saved[p]] /\ RestoreIntena(p)
    /\ UNCHANGED <<state, pid, parent, killed, exitstatus, nextpid, ptlock, inode,
                   ncli, intr, cproc, spc, nxt, ctx, np, obs>>

----------------------------------------------------------------------------
(* kill(): the first slot with that pid, whatever its state.               *)
\* Mutant: kill() leaves a sleeper asleep.
StaysAsleep(st) == st

Roused(st) == IF st = "SLEEPING" THEN "RUNNABLE" ELSE st

kill(c, p) ==
    /\ MayCall(c, p) /\ ptlock = NoCpu /\ kills < MaxKill
    /\ \E x \in 0 .. nextpid - 1, q \in Slot :
         /\ pid[q] = x /\ \A r \in 1 .. q - 1 : pid[r] # x
         /\ killed' = [killed EXCEPT ![q] = TRUE]
         /\ state' = [state EXCEPT ![q] = Roused(@)]
         /\ targets' = targets \cup {x}
    /\ kills' = kills + 1
    /\ UNCHANGED <<pid, parent, chan, exitstatus, nextpid, ptlock, inode, cpus,
                   switch, pc, irq, np, reaped>>

----------------------------------------------------------------------------
(* ilock(): acquire(&icache.lock); while(busy) sleep(ip, &icache.lock).    *)
ilock(c, p) ==
    /\ MayCall(c, p)
    /\ Goto(p, "i_acquire")
    /\ UNCHANGED <<table, nextpid, ptlock, inode, cpus, switch, np, obs>>

IlockAcquire(c, p) ==
    /\ On(c, p, "i_acquire") /\ Goto(p, "i_test")
    /\ iclock = NoCpu /\ iclock' = c /\ pushcli(c)
    /\ UNCHANGED <<table, nextpid, ptlock, ibusy, switch, np, obs>>

IlockTake(c, p) ==
    /\ On(c, p, "i_test") /\ Goto(p, "locked")
    /\ ~ibusy /\ ibusy' = TRUE
    /\ iclock' = NoCpu /\ popcli(c, intena[c])
    /\ UNCHANGED <<table, nextpid, ptlock, switch, np, obs>>

(* sleep(ip, &icache.lock): ptable.lock first, only then release(lk).      *)
SleepAcquire(c, p) ==
    /\ On(c, p, "i_test") /\ Goto(p, "s_release")
    /\ ibusy
    /\ AcquirePtlock(c)
    /\ UNCHANGED <<table, nextpid, inode, switch, np, obs>>

\* Mutant: sleep() keeps lk.
SleepKeepsLk(c, p) ==
    /\ On(c, p, "s_release") /\ Goto(p, "s_sleep")
    /\ UNCHANGED <<table, nextpid, ptlock, inode, cpus, switch, np, obs>>

SleepRelease(c, p) ==
    /\ On(c, p, "s_release") /\ Goto(p, "s_sleep")
    /\ iclock' = NoCpu /\ popcli(c, intena[c])
    /\ UNCHANGED <<table, nextpid, ptlock, ibusy, switch, np, obs>>

SleepState(c, p) ==
    /\ On(c, p, "s_sleep") /\ Goto(p, "s_sched")
    /\ chan' = [chan EXCEPT ![p] = Inode]
    /\ state' = [state EXCEPT ![p] = "SLEEPING"]
    /\ UNCHANGED <<pid, parent, killed, exitstatus, nextpid, ptlock, inode, cpus,
                   switch, np, obs>>

\* Mutant: ilock() has an if where it needs a while.
NoRetest == "locked"

AfterSleep == "i_acquire"       \* acquire(lk), and back to the while

SleepTidy(c, p) ==
    /\ On(c, p, "s_tidy") /\ Goto(p, AfterSleep)
    /\ chan' = [chan EXCEPT ![p] = None]
    /\ ReleaseAfterSched(c, p)
    /\ UNCHANGED <<state, pid, parent, killed, exitstatus, nextpid, inode,
                   cproc, spc, nxt, ctx, np, obs>>

(* iunlock(): clear the flag, wakeup(ip), release, all under icache.lock.  *)
iunlock(c, p) ==
    /\ On(c, p, "locked") /\ Goto(p, "u_wakeup")
    /\ iclock = NoCpu /\ iclock' = c /\ pushcli(c)
    /\ ibusy' = FALSE
    /\ UNCHANGED <<table, nextpid, ptlock, switch, np, obs>>

wakeup(c, p) ==
    /\ On(c, p, "u_wakeup") /\ Goto(p, "user")
    /\ ptlock = NoCpu
    /\ state' = wakeup1(state, Inode)
    /\ iclock' = NoCpu /\ popcli(c, intena[c])
    /\ UNCHANGED <<pid, parent, chan, killed, exitstatus, nextpid, ptlock, ibusy,
                   switch, np, obs>>

----------------------------------------------------------------------------
Scheduler(c) == SchedAcquire(c) \/ SchedSwitch(c) \/ SchedRelease(c)

(* The steps of a process to and from the scheduler.                       *)
Switching(c, p) ==
    \/ sched(c, p) \/ forkret(c, p)
    \/ yield(c, p) \/ YieldReturn(c, p) \/ Iret(c, p)

(* The steps of a system call that has been made.                          *)
Syscall(c, p) ==
    \/ ForkFail(c, p) \/ ForkCopy(c, p) \/ ForkReady(c, p)
    \/ ExitZombie(c, p)
    \/ WaitAcquire(c, p) \/ WaitReap(c, p) \/ WaitFail(c, p)
    \/ WaitSleep(c, p) \/ WaitTidy(c, p)
    \/ IlockAcquire(c, p) \/ IlockTake(c, p)
    \/ SleepAcquire(c, p) \/ SleepRelease(c, p) \/ SleepState(c, p) \/ SleepTidy(c, p)
    \/ iunlock(c, p) \/ wakeup(c, p)

(* The system calls a process may make, and the timer.                     *)
Calls(c, p) == allocproc(c, p) \/ exit(c, p) \/ wait(c, p) \/ kill(c, p) \/ ilock(c, p)

Next == \E c \in CPU :
    \/ Scheduler(c) \/ InitExit(c)
    \/ \E p \in Slot : Switching(c, p) \/ Syscall(c, p) \/ Calls(c, p) \/ Timer(c, p)

Spec == Init /\ [][Next]_vars

(* A CPU runs the code it is in.  Its timer ticks: it takes the CPU from   *)
(* whoever computes (a tick that comes while interrupts are off stays      *)
(* pending), but not before each instruction, so a process that is run     *)
(* again and again gets on with its system call, a killed one gets to      *)
(* exit(), and init, whose program is a loop around wait(), calls it.      *)
(* Nothing else is assumed of user programs.                               *)
KilledExits(c) ==
    \/ killed[initproc] /\ InitExit(c)
    \/ \E p \in Slot : killed[p] /\ exit(c, p)

Fairness == \A c \in CPU :
    /\ WF_vars(Scheduler(c)) /\ WF_vars(\E p \in Slot : Switching(c, p))
    /\ SF_vars(\E p \in Slot : Timer(c, p))
    /\ \A p \in Slot : SF_vars(Syscall(c, p))
    /\ SF_vars(wait(c, initproc)) /\ WF_vars(KilledExits(c))

FairSpec == Spec /\ Fairness

----------------------------------------------------------------------------
Labels == {"forkret", "user", "f_copy", "f_ready", "x_acquire", "x_sched", "x_dead",
           "w_acquire", "w_scan", "w_sched", "w_tidy", "i_acquire", "i_test", "locked",
           "s_release", "s_sleep", "s_sched", "s_tidy", "u_wakeup"}

(* The fields of struct proc and struct cpu, and the locals, keep types.   *)
TypeOK ==
    /\ state \in [Slot -> {"UNUSED", "EMBRYO", "SLEEPING", "RUNNABLE", "RUNNING", "ZOMBIE"}]
    /\ pid \in [Slot -> Nat] /\ nextpid \in Nat
    /\ parent \in [Slot -> Slot \cup {None}]
    /\ chan \in [Slot -> Slot \cup {None, Inode}]
    /\ killed \in [Slot -> BOOLEAN] /\ exitstatus \in [Slot -> Nat]
    /\ ptlock \in CPU \cup {NoCpu} /\ iclock \in CPU \cup {NoCpu}
    /\ ibusy \in BOOLEAN
    /\ ncli \in [CPU -> 0 .. 2]
    /\ intena \in [CPU -> BOOLEAN] /\ intr \in [CPU -> BOOLEAN]
    /\ cproc \in [CPU -> Slot \cup {None}]
    /\ spc \in [CPU -> {"idle", "scan", "run", "panic"}]
    /\ nxt \in [CPU -> 1 .. NPROC + 1]
    /\ ctx \in [Slot -> {"on", "off"}] /\ saved \in [Slot -> BOOLEAN]
    /\ pc \in [Slot -> Labels]
    /\ irq \in [Slot -> {"none", "y_acquire", "y_sched", "y_release", "y_iret"}]
    /\ np \in [Slot -> Slot \cup {None}]
    /\ reaped \in Nat \X Nat /\ targets \in SUBSET Nat /\ kills \in Nat

(* The hand-over of ptable.lock across swtch(): a kernel stack is used by  *)
(* one CPU at a time, and while the table says that another CPU may run or *)
(* reap a process whose stack is still in use, this CPU holds the lock.    *)
StackSafe ==
    /\ \A c, d \in CPU : cproc[c] = cproc[d] /\ cproc[c] # None => c = d
    /\ \A p \in Slot : ctx[p] = "on" => \E c \in CPU :
         /\ cproc[c] = p
         /\ state[p] # "RUNNING" => ptlock = c

(* sched() never panics: the caller holds ptable.lock and no other lock,   *)
(* has changed its state, and interrupts are off.                          *)
SchedAssertions ==
    \A c \in CPU, p \in Slot, l \in {"y_sched", "s_sched", "w_sched", "x_sched"} :
        On(c, p, l) => /\ ptlock = c /\ ncli[c] = 1
                       /\ state[p] # "RUNNING" /\ ~intr[c]

(* sched() gives each process its own interrupt state back, whatever CPU   *)
(* and process ran in between: on in a system call that holds no lock, off *)
(* in an interrupt handler.                                                *)
InterruptsRestored ==
    \A c \in CPU, p \in Slot : cproc[c] = p =>
        intr[c] = (irq[p] = "none" /\ ncli[c] = 0)

(* sleep() loses no wakeup: a process asleep on the inode lock sleeps      *)
(* while the lock is taken, or its wakeup() is about to run.               *)
InodeSleepersHaveReason ==
    \A p \in Slot : state[p] = "SLEEPING" /\ chan[p] = Inode =>
        ibusy \/ \E q \in Slot : pc[q] = "u_wakeup"

(* exit() and kill() lose no wait(): a process asleep in wait() has        *)
(* children, none of them a zombie, and has not been killed.               *)
WaitersHaveReason ==
    \A p \in Slot : state[p] = "SLEEPING" /\ chan[p] = p =>
        /\ Children(p) # {} /\ ~killed[p]
        /\ \A q \in Children(p) : state[q] # "ZOMBIE"

(* exit() passes its children on: the parent of every process that wait()  *)
(* may have to reap is itself there to call wait().                        *)
ParentAlive ==
    \A p \in Slot \ {initproc} : state[p] \notin {"UNUSED", "EMBRYO"} =>
        parent[p] # None /\ state[parent[p]] \notin {"UNUSED", "EMBRYO", "ZOMBIE"}

(* XV6_CHANGES: "exit() and wait() exchange values": wait() returns the    *)
(* value that the very process whose pid it returns passed to exit().      *)
StatusExchanged == reaped[1] = reaped[2]

(* ilock() excludes: one process at a time holds the inode.                *)
InodeExclusive ==
    \A p, q \in Slot : pc[p] = "locked" /\ pc[q] = "locked" => p = q

Panicked == \E c \in CPU : spc[c] = "panic"
Live(p) == state[p] \in {"SLEEPING", "RUNNABLE", "RUNNING"}

WantsInode(p) == pc[p] \in {"i_acquire", "i_test", "s_release", "s_sleep", "s_sched", "s_tidy"}

(* proc.c:414-428: a killed process is scheduled and exits, whether it was *)
(* killed in user space, in fork() or asleep in wait().  (One that waits   *)
(* for an inode lock exits once it gets it; ilock() does not say who is    *)
(* next, so it may starve.)                                                *)
KilledDies == \A p \in Slot \ {initproc} :
    killed[p] /\ Live(p) /\ ~WantsInode(p) ~> ~Live(p) \/ Panicked

(* exit()'s wakeups, the reparenting and wait() together leave no zombie   *)
(* that init is the parent of, as long as init is not killed and does not  *)
(* starve for an inode.                                                    *)
OrphansReaped == []<>(~WantsInode(initproc)) => \A p \in Slot \ {initproc} :
    state[p] = "ZOMBIE" /\ parent[p] = initproc
        ~> state[p] = "UNUSED" \/ killed[initproc] \/ Panicked

(* proc.h:65 says of killed "If non-zero, have been killed": a process     *)
(* that is there with the flag set is one that kill() was called for.      *)
KilledMeansKilled ==
    \A p \in Slot : killed[p] /\ state[p] \notin {"UNUSED", "EMBRYO"} => pid[p] \in targets
=============================================================================
