-------------------------------- MODULE Log --------------------------------
(***************************************************************************)
(* kern/log.c: file system calls in transactions, group commit, crash and  *)
(* recovery.  The disk is the home blocks, the blocks of the log and the   *)
(* log's header; a crash can come between any two steps and in the middle  *)
(* of a disk write, which leaves the block Torn (a block is two sectors;   *)
(* the header's fields are all in the first, so its write is atomic).      *)
(*                                                                         *)
(* A step is a section under log.lock, or one disk write.  bio.c is used   *)
(* as it promises: one buffer per block, held by one process at a time,    *)
(* and recycled, with its contents, only when it is not busy and clean.    *)
(***************************************************************************)
EXTENDS Integers, Sequences, FiniteSets

CONSTANTS
    MAXOPBLOCKS, LOGSIZE,   \* param.h
    NLOG,                   \* sb.nlog, the header included (tools/mkfs.c)
    OpBlocks,               \* the most blocks a system call really modifies
    Block, Value, Torn,
    Proc, NoProc

ASSUME LogAssumption ==
    /\ MAXOPBLOCKS \in Nat /\ LOGSIZE \in Nat /\ MAXOPBLOCKS <= LOGSIZE
    /\ NLOG \in Nat \ {0} /\ NLOG - 1 <= LOGSIZE
    /\ OpBlocks \in Nat
    /\ Torn \notin Value /\ NoProc \notin Proc

VARIABLES
    home, slot, head,       \* on disk: home blocks, log blocks, header
    buf, dirty, busy,       \* the buffers' data, B_DIRTY, the B_BUSY holder
    lh, outstanding, committing,    \* struct log
    pc, wrote,              \* by process: where it is, the blocks it modified
    tail,                   \* the loop variable of commit and recovery
    mode                    \* "boot", "replay", "run", "panic", "overrun"

disk  == <<home, slot, head>>
cache == <<buf, dirty, busy>>
log   == <<lh, outstanding, committing>>
vars  == <<disk, cache, log, pc, wrote, tail, mode>>

Data == Value \cup {Torn}
Slot == 1 .. NLOG - 1

Blocks(s) == {s[k] : k \in 1 .. Len(s)}

(* A disk as mkfs makes it; initlog() is about to run.                     *)
Init ==
    /\ home \in [Block -> Value] /\ slot \in [Slot -> {Torn}] /\ head = <<>>
    /\ buf = home /\ dirty = {} /\ busy = [b \in Block |-> NoProc]
    /\ lh = <<>> /\ outstanding = 0 /\ committing = FALSE
    /\ pc = [p \in Proc |-> "idle"] /\ wrote = [p \in Proc |-> {}]
    /\ tail = 1 /\ mode = "boot"

At(p, l) == mode = "run" /\ pc[p] = l
Goto(p, l) == pc' = [pc EXCEPT ![p] = l]

\* Mutant: nobody is woken.
NoWakeup(p, l) == pc' = [pc EXCEPT ![p] = l]

\* wakeup(&log), then p goes to l.
WakeAndGoto(p, l) ==
    pc' = [q \in Proc |-> IF q = p THEN l
                          ELSE IF pc[q] = "asleep" THEN "begin" ELSE pc[q]]

----------------------------------------------------------------------------
(* begin_op(), from its start and each time sleep() returns.               *)
\* Mutant: the call that asks is not counted.
RoomForOthers == ~committing /\ Len(lh) + outstanding * MAXOPBLOCKS <= LOGSIZE

Room == ~committing /\ Len(lh) + (outstanding + 1) * MAXOPBLOCKS <= LOGSIZE

begin_op(p) ==
    /\ At(p, "idle") \/ At(p, "begin")
    /\ Room
    /\ outstanding' = outstanding + 1
    /\ Goto(p, "op")
    /\ UNCHANGED <<disk, cache, lh, committing, wrote, tail, mode>>

BeginSleep(p) ==
    /\ At(p, "idle") \/ At(p, "begin")
    /\ ~Room
    /\ Goto(p, "asleep")
    /\ UNCHANGED <<disk, cache, log, wrote, tail, mode>>

(* A system call: bp = bread(b); modify bp->data.                          *)
Modify(p) ==
    /\ At(p, "op")
    /\ \E b \in Block, v \in Value :
         /\ busy[b] = NoProc
         /\ b \in wrote[p] \/ Cardinality(wrote[p]) < OpBlocks
         /\ busy' = [busy EXCEPT ![b] = p] /\ buf' = [buf EXCEPT ![b] = v]
         /\ wrote' = [wrote EXCEPT ![p] = @ \cup {b}]
    /\ Goto(p, "check")
    /\ UNCHANGED <<disk, dirty, log, tail, mode>>

(* log_write(bp): the size checks hold no lock.                            *)
TooBig == Len(lh) >= LOGSIZE \/ Len(lh) >= NLOG - 1 \/ outstanding < 1

LogPanic(p) ==
    /\ At(p, "check") /\ TooBig
    /\ mode' = "panic"
    /\ UNCHANGED <<disk, cache, log, pc, wrote, tail>>

LogCheck(p) ==
    /\ At(p, "check") /\ ~TooBig
    /\ Goto(p, "append")
    /\ UNCHANGED <<disk, cache, log, wrote, tail, mode>>

(* Under log.lock: absorb or append, pin the buffer; then brelse(bp).      *)
Absorb(b) == IF b \in Blocks(lh) THEN lh ELSE Append(lh, b)

\* Mutant: the buffer is not marked B_DIRTY.
NoPin(b) == dirty' = dirty

Pin(b) == dirty' = dirty \cup {b}

LogAppend(p) ==
    /\ At(p, "append")
    /\ \E b \in Block :
         /\ busy[b] = p
         /\ lh' = Absorb(b) /\ Len(lh') <= NLOG - 1
         /\ Pin(b)
         /\ busy' = [busy EXCEPT ![b] = NoProc]
    /\ Goto(p, "op")
    /\ UNCHANGED <<disk, buf, outstanding, committing, wrote, tail, mode>>

(* The same, when others have filled the log since the check: the commit   *)
(* would write past its end.  The model stops here; LogFits is about it.   *)
LogOverrun(p) ==
    /\ At(p, "append")
    /\ \E b \in Block : busy[b] = p /\ Len(Absorb(b)) > NLOG - 1
    /\ mode' = "overrun"
    /\ UNCHANGED <<disk, cache, log, pc, wrote, tail>>

----------------------------------------------------------------------------
(* end_op(): the last call goes on to commit(), any other wakes the calls  *)
(* that wait for room.                                                     *)
Ended == outstanding - 1

EndOp(p) ==
    /\ outstanding' = Ended
    /\ mode' = IF committing THEN "panic" ELSE mode
    /\ IF outstanding' = 0
       THEN /\ committing' = TRUE /\ tail' = 1
            /\ Goto(p, IF lh = <<>> THEN "done" ELSE "write_log")
       ELSE /\ WakeAndGoto(p, "idle")
            /\ UNCHANGED <<committing, tail>>
    /\ wrote' = [wrote EXCEPT ![p] = {}]
    /\ UNCHANGED <<disk, cache, lh>>

end_op(p) == At(p, "op") /\ EndOp(p)

(* commit(): one disk write after another.                                 *)
write_log(p) ==
    /\ At(p, "write_log") /\ tail <= Len(lh)
    /\ busy[lh[tail]] = NoProc          \* bread() waits for the buffer
    /\ slot' = [slot EXCEPT ![tail] = buf[lh[tail]]]
    /\ tail' = tail + 1
    /\ UNCHANGED <<home, head, cache, log, pc, wrote, mode>>

write_head(p) ==
    /\ At(p, "write_log") /\ tail > Len(lh)
    /\ head' = lh
    /\ tail' = 1 /\ Goto(p, "install")
    /\ UNCHANGED <<home, slot, cache, log, wrote, mode>>

\* Copy a log block to its home, in the buffer and on disk.
InstallBlock ==
    /\ tail <= Len(lh)
    /\ home' = [home EXCEPT ![lh[tail]] = slot[tail]]
    /\ buf' = [buf EXCEPT ![lh[tail]] = slot[tail]]
    /\ dirty' = dirty \ {lh[tail]}
    /\ tail' = tail + 1

install_trans(p) ==
    /\ At(p, "install")
    /\ InstallBlock
    /\ UNCHANGED <<slot, head, busy, log, pc, wrote, mode>>

\* Mutant: the header is erased while blocks are still to be installed.
ClearEarly == lh' = <<>> /\ head' = <<>> /\ tail' = 1

\* log.lh.n = 0; write_head().
ClearLog == tail > Len(lh) /\ lh' = <<>> /\ head' = <<>> /\ tail' = 1

EraseLog(p) ==
    /\ At(p, "install")
    /\ ClearLog
    /\ Goto(p, "done")
    /\ UNCHANGED <<home, slot, cache, outstanding, committing, wrote, mode>>

CommitDone(p) ==
    /\ At(p, "done")
    /\ committing' = FALSE
    /\ WakeAndGoto(p, "idle")
    /\ UNCHANGED <<disk, cache, lh, outstanding, wrote, tail, mode>>

----------------------------------------------------------------------------
(* initlog(), recover_from_log(): before the first process runs.           *)
read_head ==
    /\ mode = "boot"
    /\ lh' = head /\ tail' = 1 /\ mode' = "replay"
    /\ UNCHANGED <<disk, cache, outstanding, committing, pc, wrote>>

Replay ==
    /\ mode = "replay"
    /\ InstallBlock
    /\ UNCHANGED <<slot, head, busy, log, pc, wrote, mode>>

recover_from_log ==
    /\ mode = "replay"
    /\ ClearLog
    /\ mode' = "run"
    /\ UNCHANGED <<home, slot, cache, outstanding, committing, pc, wrote>>

(* bget() recycles a buffer; the next bread() of its block goes to disk.   *)
Evictable(b) == busy[b] = NoProc /\ b \notin dirty

bget(b) ==
    /\ mode = "run" /\ Evictable(b)
    /\ buf' = [buf EXCEPT ![b] = home[b]]
    /\ UNCHANGED <<disk, dirty, busy, log, pc, wrote, tail, mode>>

(* The machine stops, perhaps in the middle of a disk write, and reboots.  *)
WritingLog == tail <= Len(lh) /\ \E p \in Proc : At(p, "write_log")
Installing == tail <= Len(lh) /\ (mode = "replay" \/ \E p \in Proc : At(p, "install"))

Crash ==
    /\ \/ UNCHANGED <<home, slot>>
       \/ WritingLog /\ slot' = [slot EXCEPT ![tail] = Torn] /\ home' = home
       \/ Installing /\ home' = [home EXCEPT ![lh[tail]] = Torn] /\ slot' = slot
    /\ head' = head
    /\ buf' = home' /\ dirty' = {} /\ busy' = [b \in Block |-> NoProc]
    /\ lh' = <<>> /\ outstanding' = 0 /\ committing' = FALSE
    /\ pc' = [p \in Proc |-> "idle"] /\ wrote' = [p \in Proc |-> {}]
    /\ tail' = 1 /\ mode' = "boot"

----------------------------------------------------------------------------
Step(p) ==
    \/ begin_op(p) \/ BeginSleep(p)
    \/ Modify(p) \/ LogPanic(p) \/ LogCheck(p) \/ LogAppend(p) \/ LogOverrun(p)
    \/ end_op(p)
    \/ write_log(p) \/ write_head(p) \/ install_trans(p) \/ EraseLog(p) \/ CommitDone(p)

Next ==
    \/ \E p \in Proc : Step(p)
    \/ read_head \/ Replay \/ recover_from_log
    \/ \E b \in Block : bget(b)
    \/ Crash

Spec == Init /\ [][Next]_vars

(* A process that is in a call is run, and its call comes to its end_op(). *)
Fairness == \A p \in Proc :
    WF_vars(pc[p] # "idle" /\ Step(p)) /\ SF_vars(end_op(p))

FairSpec == Spec /\ WF_vars(read_head \/ Replay \/ recover_from_log) /\ Fairness

----------------------------------------------------------------------------
(* Two ways around begin_op()/log_write().  sys_fchdir() reaches ichdir(), *)
(* which ends in end_op(), without a begin_op().                           *)
sys_fchdir(p) == At(p, "idle") /\ EndOp(p)

SpecFchdir == Init /\ [][Next \/ \E p \in Proc : sys_fchdir(p)]_vars

(* A filewrite() to the raw disk, which logs nothing, gets to idewrite()   *)
(* between begin_op() and end_op(): bread(), modify, bwrite(), brelse().   *)
idewrite(p) ==
    /\ At(p, "op") /\ wrote[p] = {}
    /\ \E b \in Block, v \in Value :
         /\ busy[b] = NoProc
         /\ buf' = [buf EXCEPT ![b] = v] /\ home' = [home EXCEPT ![b] = v]
         /\ dirty' = dirty \ {b}
    /\ UNCHANGED <<slot, head, busy, log, pc, wrote, tail, mode>>

SpecRaw == Init /\ [][Next \/ \E p \in Proc : idewrite(p)]_vars

----------------------------------------------------------------------------
(* The fields of struct log, the buffers and the disk keep their types.    *)
TypeOK ==
    /\ home \in [Block -> Data] /\ slot \in [Slot -> Data] /\ buf \in [Block -> Data]
    /\ head \in Seq(Block) /\ lh \in Seq(Block)
    /\ dirty \in SUBSET Block /\ busy \in [Block -> Proc \cup {NoProc}]
    /\ outstanding \in Nat /\ committing \in BOOLEAN
    /\ pc \in [Proc -> {"idle", "begin", "asleep", "op", "check", "append",
                        "write_log", "install", "done"}]
    /\ wrote \in [Proc -> SUBSET Block]
    /\ tail \in Nat
    /\ mode \in {"boot", "replay", "run", "panic", "overrun"}

(* The disk that recover_from_log() would make of what is on disk now.     *)
Recovered ==
    [b \in Block |-> IF b \in Blocks(head)
                     THEN slot[CHOOSE k \in 1 .. Len(head) : head[k] = b]
                     ELSE home[b]]

Promise == INSTANCE AtomicDisk WITH
    committed <- Recovered,
    current   <- IF mode \in {"boot", "replay"} THEN Recovered ELSE buf,
    active    <- outstanding

(* log.c:8-14 and the recovery: whatever the interleaving of system calls  *)
(* and wherever the machine stops, even inside a disk write or during a    *)
(* recovery, what comes back is the state at a moment when no call was     *)
(* half done, and nothing that commit() finished is lost.                  *)
ImplementsAtomicDisk == Promise!DiskSpec

(* log_write()'s panics do not happen and the log's blocks suffice: the    *)
(* reservation of begin_op() is enough for the calls it admits, although   *)
(* log_write() checks the size without the lock.                           *)
LogFits == mode \notin {"panic", "overrun"}

(* No lost wakeup in begin_op()/end_op(): a call that sleeps has a commit  *)
(* or a call under way that will wake it.                                  *)
SleepersHaveReason ==
    (\E p \in Proc : pc[p] = "asleep") => committing \/ outstanding > 0

(* log.c:202-204: log_write() pins a block in the cache "with B_DIRTY"     *)
(* until commit() has written it: bget() cannot recycle it before.         *)
LoggedArePinned == mode = "run" /\ head = <<>> => Blocks(lh) \subseteq dirty

(* log.c:42 says of outstanding: "how many FS sys calls are executing".    *)
OutstandingCounts ==
    outstanding = Cardinality({p \in Proc : pc[p] \in {"op", "check", "append"}})

(* Both: while calls modify fewer blocks than they reserve, the log is     *)
(* never too small, and outstanding is right.                              *)
LogCounts == LogFits /\ OutstandingCounts

(* A call that sleeps in begin_op() is woken, or the machine crashes.      *)
SleepersWake == \A p \in Proc : pc[p] = "asleep" ~> pc[p] # "asleep"
=============================================================================
