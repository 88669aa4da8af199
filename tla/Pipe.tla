-------------------------------- MODULE Pipe --------------------------------
(***************************************************************************)
(* kern/pipe.c: one pipe shared by several reading and writing processes.  *)
(*                                                                         *)
(* The code holds p->lock from acquire() to sleep() or release().  A step  *)
(* here is one turn of a loop of the code, and the variable lock carries   *)
(* the spinlock from step to step, so processes interleave exactly where   *)
(* the code lets them.  sleep() gives the lock up and sleeps in one step:  *)
(* that is the promise of proc.c, which Proc.tla checks.  kill() takes no  *)
(* lock of the pipe, so it may fall between the test of proc->killed and   *)
(* sleep(): the test and the sleep are separate steps.                     *)
(*                                                                         *)
(* The counters nread and nwrite are uints: they wrap at UINT.             *)
(***************************************************************************)
EXTENDS Integers, Sequences, FiniteSets

CONSTANTS
    PIPESIZE,   \* bytes in the ring
    UINT,       \* 2^w for the counters' width w
    Byte,       \* the byte values
    Proc,       \* processes that use the pipe
    NoProc,     \* "nobody holds the lock"
    MaxN        \* bound: the largest count passed to one read or write

ASSUME SizeAssumption ==
    /\ PIPESIZE \in Nat \ {0}
    /\ UINT \in Nat \ {0}
    /\ \E k \in 2 .. UINT : UINT = PIPESIZE * k

ASSUME ProcAssumption == NoProc \notin Proc /\ MaxN \in Nat /\ Byte # {}

VARIABLES
    data,       \* p->data
    nread,      \* p->nread
    nwrite,     \* p->nwrite
    readopen,   \* p->readopen
    writeopen,  \* p->writeopen
    freed,      \* the pipe's page has been given to kfree()
    lock,       \* the holder of p->lock
    rd, wr,     \* processes whose descriptors hold the read, the write end
    pc,         \* where each process is
    i, n,       \* its loop counter and its byte count
    killed,     \* proc->killed
    out,        \* the byte most recently delivered to a reader
    eof,        \* some read of n > 0 bytes has returned 0
    gaveup      \* a writer has failed on a full pipe since readers were woken

ring == <<data, nread, nwrite>>
ends == <<readopen, writeopen, freed, rd, wr>>
vars == <<data, nread, nwrite, readopen, writeopen, freed, lock, rd, wr,
          pc, i, n, killed, out, eof, gaveup>>

----------------------------------------------------------------------------
\* Mutant: the writer runs one byte past the ring.
FullOffByOne == nwrite = (nread + PIPESIZE + 1) % UINT

Full  == nwrite = (nread + PIPESIZE) % UINT
Empty == nread = nwrite

\* Mutant: the counter is not wrapped to the width of a uint.
IncUnwrapped(c) == c + 1

Inc(c) == (c + 1) % UINT

\* pc after p moves to l and everybody asleep at `from' is woken to `to'.
Woken(p, l, from, to) ==
    [q \in Proc |-> IF q = p THEN l ELSE IF pc[q] = from THEN to ELSE pc[q]]

\* Mutant: the wakeup() is forgotten.
WakeNobody(p, l) == [pc EXCEPT ![p] = l]

WakeReaders(p, l) == Woken(p, l, "r_asleep", "r_acquire")   \* wakeup(&p->nread)
WakeWriters(p, l) == Woken(p, l, "w_asleep", "w_acquire")   \* wakeup(&p->nwrite)

Goto(p, l) == pc' = [pc EXCEPT ![p] = l]

(* release(&p->lock) and return: the call's locals go.                     *)
Leave(p) ==
    /\ lock' = NoProc
    /\ i' = [i EXCEPT ![p] = 0] /\ n' = [n EXCEPT ![p] = 0]

----------------------------------------------------------------------------
(* pipealloc() has just succeeded and the two files have been shared out.  *)
Init ==
    /\ data \in [0 .. PIPESIZE - 1 -> Byte]
    /\ nread = 0 /\ nwrite = 0
    /\ readopen = TRUE /\ writeopen = TRUE /\ freed = FALSE
    /\ lock = NoProc
    /\ rd \in SUBSET Proc \ {{}} /\ wr \in SUBSET Proc \ {{}}
    /\ pc = [p \in Proc |-> "idle"]
    /\ i = [p \in Proc |-> 0] /\ n = [p \in Proc |-> 0]
    /\ killed = [p \in Proc |-> FALSE]
    /\ out \in Byte
    /\ eof = FALSE /\ gaveup = FALSE

(* System call entry; trap() lets no killed process in.                    *)
Call(p, l, k) ==
    /\ pc[p] = "idle" /\ ~killed[p]
    /\ n' = [n EXCEPT ![p] = k]
    /\ Goto(p, l)
    /\ UNCHANGED <<ring, ends, lock, i, killed, out, eof, gaveup>>

pipewrite(p) == p \in wr /\ \E k \in 0 .. MaxN : Call(p, "w_acquire", k)
piperead(p)  == p \in rd /\ \E k \in 0 .. MaxN : Call(p, "r_acquire", k)

(* acquire(&p->lock), on entry and again when sleep() returns.             *)
Acquire(p) ==
    /\ lock = NoProc /\ lock' = p
    /\ \/ pc[p] = "w_acquire" /\ Goto(p, "w_loop")
       \/ pc[p] = "r_acquire" /\ Goto(p, "r_wait")
    /\ UNCHANGED <<ring, ends, i, n, killed, out, eof, gaveup>>

----------------------------------------------------------------------------
WritePut(p) ==
    /\ pc[p] = "w_loop" /\ i[p] < n[p] /\ ~Full
    /\ \E b \in Byte : data' = [data EXCEPT ![nwrite % PIPESIZE] = b]
    /\ nwrite' = Inc(nwrite)
    /\ i' = [i EXCEPT ![p] = @ + 1]
    /\ UNCHANGED <<nread, ends, lock, pc, n, killed, out, eof, gaveup>>

WriteFail(p) ==
    /\ pc[p] = "w_loop" /\ i[p] < n[p] /\ Full
    /\ ~readopen \/ killed[p]
    /\ Leave(p) /\ Goto(p, "idle")
    /\ gaveup' = TRUE
    /\ UNCHANGED <<ring, ends, killed, out, eof>>

WriteFull(p) ==
    /\ pc[p] = "w_loop" /\ i[p] < n[p] /\ Full
    /\ readopen /\ ~killed[p]
    /\ pc' = WakeReaders(p, "w_sleep")
    /\ gaveup' = FALSE
    /\ UNCHANGED <<ring, ends, lock, i, n, killed, out, eof>>

WriteSleep(p) ==
    /\ pc[p] = "w_sleep"
    /\ lock' = NoProc /\ Goto(p, "w_asleep")
    /\ UNCHANGED <<ring, ends, i, n, killed, out, eof, gaveup>>

WriteDone(p) ==
    /\ pc[p] = "w_loop" /\ i[p] = n[p]
    /\ pc' = WakeReaders(p, "idle") /\ Leave(p)
    /\ gaveup' = FALSE
    /\ UNCHANGED <<ring, ends, killed, out, eof>>

----------------------------------------------------------------------------
ReadKilled(p) ==
    /\ pc[p] = "r_wait" /\ Empty /\ writeopen /\ killed[p]
    /\ Leave(p) /\ Goto(p, "idle")
    /\ UNCHANGED <<ring, ends, killed, out, eof, gaveup>>

ReadEmpty(p) ==
    /\ pc[p] = "r_wait" /\ Empty /\ writeopen /\ ~killed[p]
    /\ Goto(p, "r_sleep")
    /\ UNCHANGED <<ring, ends, lock, i, n, killed, out, eof, gaveup>>

ReadSleep(p) ==
    /\ pc[p] = "r_sleep"
    /\ lock' = NoProc /\ Goto(p, "r_asleep")
    /\ UNCHANGED <<ring, ends, i, n, killed, out, eof, gaveup>>

ReadReady(p) ==
    /\ pc[p] = "r_wait" /\ ~(Empty /\ writeopen)
    /\ Goto(p, "r_copy")
    /\ UNCHANGED <<ring, ends, lock, i, n, killed, out, eof, gaveup>>

ReadTake(p) ==
    /\ pc[p] = "r_copy" /\ i[p] < n[p] /\ ~Empty
    /\ out' = data[nread % PIPESIZE]
    /\ nread' = Inc(nread)
    /\ i' = [i EXCEPT ![p] = @ + 1]
    /\ UNCHANGED <<data, nwrite, ends, lock, pc, n, killed, eof, gaveup>>

ReadDone(p) ==
    /\ pc[p] = "r_copy" /\ (i[p] = n[p] \/ Empty)
    /\ eof' = (eof \/ (i[p] = 0 /\ n[p] > 0))
    /\ pc' = WakeWriters(p, "idle") /\ Leave(p)
    /\ UNCHANGED <<ring, ends, killed, out, gaveup>>

----------------------------------------------------------------------------
(* fileclose() of one end: the last holder goes on to pipeclose(), after   *)
(* ftable.lock has been released.                                          *)
fileclose(p) ==
    /\ pc[p] = "idle"
    /\ \/ /\ p \in wr /\ wr' = wr \ {p} /\ rd' = rd
          /\ Goto(p, IF wr = {p} THEN "close_w" ELSE "idle")
       \/ /\ p \in rd /\ rd' = rd \ {p} /\ wr' = wr
          /\ Goto(p, IF rd = {p} THEN "close_r" ELSE "idle")
    /\ UNCHANGED <<ring, readopen, writeopen, freed, lock, i, n, killed, out, eof, gaveup>>

\* Mutant: kfree() as soon as one end is closed.
EitherClosed(r, w) == ~r \/ ~w

BothClosed(r, w) == ~r /\ ~w

pipeclose(p) ==
    /\ lock = NoProc
    /\ \/ /\ pc[p] = "close_w"
          /\ writeopen' = FALSE /\ readopen' = readopen /\ gaveup' = FALSE
          /\ pc' = WakeReaders(p, "idle")
       \/ /\ pc[p] = "close_r"
          /\ readopen' = FALSE /\ writeopen' = writeopen /\ gaveup' = gaveup
          /\ pc' = WakeWriters(p, "idle")
    /\ freed' = BothClosed(readopen', writeopen')
    /\ UNCHANGED <<ring, lock, rd, wr, i, n, killed, out, eof>>

(* kill(): sets killed and wakes a sleeper, under ptable.lock only.        *)
kill(p) ==
    /\ ~killed[p] /\ killed' = [killed EXCEPT ![p] = TRUE]
    /\ pc' = [pc EXCEPT ![p] = CASE @ = "w_asleep" -> "w_acquire"
                                 [] @ = "r_asleep" -> "r_acquire"
                                 [] OTHER -> @]
    /\ UNCHANGED <<ring, ends, lock, i, n, out, eof, gaveup>>

----------------------------------------------------------------------------
(* The steps a process in a call takes by itself.                          *)
Step(p) ==
    \/ Acquire(p)
    \/ WritePut(p) \/ WriteFail(p) \/ WriteFull(p) \/ WriteSleep(p) \/ WriteDone(p)
    \/ ReadKilled(p) \/ ReadEmpty(p) \/ ReadSleep(p) \/ ReadReady(p)
    \/ ReadTake(p) \/ ReadDone(p)
    \/ pipeclose(p)

Next == \E p \in Proc :
    pipewrite(p) \/ piperead(p) \/ fileclose(p) \/ kill(p) \/ Step(p)

Spec == Init /\ [][Next]_vars

(* Every process that can run is run again and again (scheduler() goes     *)
(* round the process table) and a spinlock is never held across a switch,  *)
(* so a process that keeps asking for p->lock is run when it is free.      *)
(* A killed process exits at its next trap (the timer sees to one), which  *)
(* closes its files.  Nothing else is assumed of the user programs.        *)
Fairness == \A p \in Proc :
    /\ WF_vars(Step(p)) /\ SF_vars(Acquire(p))
    /\ WF_vars(killed[p] /\ fileclose(p))

FairSpec == Spec /\ Fairness

----------------------------------------------------------------------------
Labels == {"idle", "w_acquire", "w_loop", "w_sleep", "w_asleep",
           "r_acquire", "r_wait", "r_sleep", "r_asleep", "r_copy",
           "close_w", "close_r"}

Writing(p) == pc[p] \in {"w_acquire", "w_loop", "w_sleep", "w_asleep"}
Reading(p) == pc[p] \in {"r_acquire", "r_wait", "r_sleep", "r_asleep", "r_copy"}
Holding(p) == pc[p] \in {"w_loop", "w_sleep", "r_wait", "r_sleep", "r_copy"}

(* The fields of struct pipe and the locals of each call have their types. *)
TypeOK ==
    /\ data \in [0 .. PIPESIZE - 1 -> Byte]
    /\ nread \in 0 .. UINT - 1 /\ nwrite \in 0 .. UINT - 1
    /\ readopen \in BOOLEAN /\ writeopen \in BOOLEAN /\ freed \in BOOLEAN
    /\ lock \in Proc \cup {NoProc}
    /\ rd \in SUBSET Proc /\ wr \in SUBSET Proc
    /\ pc \in [Proc -> Labels]
    /\ i \in [Proc -> Nat] /\ n \in [Proc -> Nat]
    /\ killed \in [Proc -> BOOLEAN]
    /\ out \in Byte /\ eof \in BOOLEAN /\ gaveup \in BOOLEAN

(* The bytes in the ring, oldest first, as piperead() would deliver them.  *)
Count  == (nwrite - nread) % UINT
Unread == [k \in 1 .. Count |-> data[((nread + k - 1) % UINT) % PIPESIZE]]

Stream == INSTANCE ByteStream WITH Capacity <- PIPESIZE, queue <- Unread

(* pipewrite() and piperead() implement a byte stream: what a reader gets  *)
(* is what was written, in order, through every wrap of the ring and of    *)
(* the counters; nothing is written after a reader was told end of file.   *)
ImplementsStream == Stream!Spec

(* No lost wakeup: while nobody is inside the pipe, a process asleep in    *)
(* pipewrite() has no room and a reader that may still come, and a process *)
(* asleep in piperead() has nothing to read and a writer that may come,    *)
(* unless the last writer gave up on a full pipe (which wakes no reader).  *)
SleepersHaveReason ==
    lock = NoProc => \A p \in Proc :
        /\ pc[p] = "w_asleep" => Full /\ readopen
        /\ pc[p] = "r_asleep" => writeopen /\ (Empty \/ gaveup)

(* pipeclose() frees the pipe only when nobody can touch it any more: no   *)
(* process is in a call on it or on its way to close it.                   *)
FreedIsUnused ==
    freed => rd = {} /\ wr = {} /\ \A p \in Proc : pc[p] = "idle"

(* pipeclose() releases whoever waits for the end that closes: a writer    *)
(* returns once the read end is closed, a reader once the write end is.    *)
CloseReleasesPeers == \A p \in Proc :
    /\ Writing(p) /\ ~readopen ~> pc[p] = "idle"
    /\ Reading(p) /\ ~writeopen ~> pc[p] = "idle"

(* proc.c:414-428: kill() makes the process exit when it next returns to   *)
(* user space, and wakes it "from sleep if necessary": a killed process    *)
(* returns from piperead() and pipewrite().                                *)
KilledReturns == \A p \in Proc :
    killed[p] /\ (Writing(p) \/ Reading(p)) ~> pc[p] = "idle"
=============================================================================
