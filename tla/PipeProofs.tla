----------------------------- MODULE PipeProofs -----------------------------
(***************************************************************************)
(* Proofs about Pipe.tla, for every ring size, counter width, set of bytes *)
(* and set of processes.                                                   *)
(*                                                                         *)
(* IInv strengthens the invariants the runs check until they are           *)
(* inductive: LockInv ties p->lock to the processes inside the pipe,       *)
(* EndsInv ties the open flags to the descriptors and to the processes on  *)
(* their way to pipeclose(), RingInv bounds the ring, and WakeInv says what*)
(* a sleeper may rely on while somebody else is inside.                    *)
(***************************************************************************)
EXTENDS Pipe, Lemmas

(* A process is between acquire() and release() exactly when it holds the  *)
(* lock.                                                                   *)
LockInv == \A p \in Proc : Holding(p) <=> lock = p

(* An end is open while a descriptor holds it or its last holder has yet   *)
(* to call pipeclose(); a call is made through a descriptor of its end.    *)
EndsInv ==
    /\ freed = BothClosed(readopen, writeopen)
    /\ ~writeopen => wr = {}
    /\ ~readopen => rd = {}
    /\ \A p \in Proc :
         /\ Writing(p) => p \in wr
         /\ Reading(p) => p \in rd
         /\ pc[p] = "close_w" => wr = {} /\ writeopen
         /\ pc[p] = "close_r" => rd = {} /\ readopen
    /\ \A p, q \in Proc :
         pc[p] = pc[q] /\ pc[p] \in {"close_w", "close_r"} => p = q

(* The ring never holds more than it can, and end of file is only reported *)
(* once the write end is closed.                                           *)
RingInv ==
    /\ Count <= PIPESIZE
    /\ eof => ~writeopen
    /\ \A p \in Proc : pc[p] = "r_copy" /\ i[p] = 0 => ~Empty \/ ~writeopen

(* What sleepers rely on.  Only a reader that is copying may have made     *)
(* room without having woken the writers yet, and only a writer in its     *)
(* loop may have put bytes in without having woken the readers.            *)
WakeInv ==
    /\ \A p \in Proc :
         /\ pc[p] \in {"w_sleep", "w_asleep"} => readopen
         /\ pc[p] \in {"r_sleep", "r_asleep"} => writeopen
         /\ pc[p] = "w_sleep" => Full
         /\ pc[p] = "r_sleep" => Empty
    /\ (\A p \in Proc : pc[p] # "r_copy") =>
         \A p \in Proc : pc[p] = "w_asleep" => Full
    /\ (\A p \in Proc : pc[p] # "w_loop") =>
         \A p \in Proc : pc[p] = "r_asleep" => Empty \/ gaveup

IInv == TypeOK /\ LockInv /\ EndsInv /\ RingInv /\ WakeInv

----------------------------------------------------------------------------
(* The invariant implies what the runs check.                              *)
LEMMA InvImplies == IInv => SleepersHaveReason /\ FreedIsUnused
  <1> SUFFICES ASSUME IInv PROVE SleepersHaveReason /\ FreedIsUnused  OBVIOUS
  <1>1. ASSUME lock = NoProc, NEW p \in Proc
        PROVE  ~Holding(p)
    BY <1>1, ProcAssumption DEF IInv, LockInv
  <1>2. SleepersHaveReason
    BY <1>1 DEF IInv, WakeInv, SleepersHaveReason, Holding
  <1>3. FreedIsUnused
    <2> SUFFICES ASSUME freed PROVE rd = {} /\ wr = {} /\ \A p \in Proc : pc[p] = "idle"
      BY DEF FreedIsUnused
    <2>1. ~readopen /\ ~writeopen /\ rd = {} /\ wr = {}
      BY DEF IInv, EndsInv, BothClosed
    <2>2. ASSUME NEW p \in Proc PROVE pc[p] = "idle"
      BY <2>1 DEF IInv, EndsInv, TypeOK, Labels, Writing, Reading
    <2> QED  BY <2>1, <2>2
  <1> QED  BY <1>2, <1>3

----------------------------------------------------------------------------
(* The ring: how Count and Unread change when a counter moves.             *)

(* UINT is a multiple of PIPESIZE, at least twice as large.                *)
LEMMA UintFacts == /\ PIPESIZE \in Nat \ {0} /\ UINT \in Nat \ {0}
                   /\ PIPESIZE < UINT
                   /\ \A x \in Int : (x % UINT) % PIPESIZE = x % PIPESIZE
  <1>1. PICK k \in 2 .. UINT : UINT = PIPESIZE * k  BY SizeAssumption
  <1>2. PIPESIZE < PIPESIZE * k  BY <1>1, SizeAssumption, Z3
  <1>3. k \in Nat \ {0}  BY <1>1, SizeAssumption
  <1>4. ASSUME NEW x \in Int PROVE (x % UINT) % PIPESIZE = x % PIPESIZE
    <2>1. (x % (PIPESIZE * k)) % PIPESIZE = x % PIPESIZE
      BY <1>3, SizeAssumption, ModMod
    <2> QED  BY <1>1, <2>1
  <1> QED  BY <1>1, <1>2, <1>4, SizeAssumption

(* Count is the distance from nread to nwrite going up, with at most one   *)
(* wrap; zero and PIPESIZE are the tests Empty and Full of the code.       *)
LEMMA CountFacts ==
    ASSUME NEW r \in 0 .. UINT - 1, NEW w \in 0 .. UINT - 1
    PROVE  /\ (w - r) % UINT = IF r <= w THEN w - r ELSE w - r + UINT
           /\ (w - r) % UINT \in 0 .. UINT - 1
           /\ r = w <=> (w - r) % UINT = 0
           /\ w = (r + PIPESIZE) % UINT <=> (w - r) % UINT = PIPESIZE
  <1>0. PIPESIZE \in Nat \ {0} /\ UINT \in Nat \ {0} /\ PIPESIZE < UINT
    BY UintFacts
  <1>1. (w - r) % UINT = IF r <= w THEN w - r ELSE w - r + UINT
    <2>1. CASE r <= w  BY <1>0, <2>1, ModSmall, Z3
    <2>2. CASE ~(r <= w)  BY <1>0, <2>2, ModBelow, Z3
    <2> QED  BY <2>1, <2>2
  <1>2. (r + PIPESIZE) % UINT =
          IF r + PIPESIZE < UINT THEN r + PIPESIZE ELSE r + PIPESIZE - UINT
    <2>1. CASE r + PIPESIZE < UINT  BY <1>0, <2>1, ModSmall, Z3
    <2>2. CASE ~(r + PIPESIZE < UINT)
      <3> DEFINE x == r + PIPESIZE
      <3>1. x \in Int /\ UINT <= x /\ x < UINT + UINT  BY <1>0, <2>2, Z3
      <3> HIDE DEF x
      <3>2. x % UINT = x - UINT  BY <1>0, <3>1, ModAbove
      <3> QED  BY <1>0, <2>2, <3>2, Z3 DEF x
    <2> QED  BY <2>1, <2>2
  <1> QED  BY <1>0, <1>1, <1>2, Z3

(* The increment of a counter, with at most one wrap.                      *)
LEMMA IncFacts == ASSUME NEW c \in 0 .. UINT - 1
                  PROVE  /\ Inc(c) = IF c + 1 < UINT THEN c + 1 ELSE 0
                         /\ Inc(c) \in 0 .. UINT - 1
  <1>0. UINT \in Nat \ {0}  BY UintFacts
  <1>1. CASE c + 1 < UINT  BY <1>0, <1>1, ModSmall, Z3 DEF Inc
  <1>2. CASE ~(c + 1 < UINT)
    <2>1. c + 1 \in Int /\ UINT <= c + 1 /\ c + 1 < UINT + UINT  BY <1>0, <1>2, Z3
    <2>2. (c + 1) % UINT = c + 1 - UINT  BY <1>0, <2>1, ModAbove
    <2> QED  BY <1>0, <1>2, <2>2, Z3 DEF Inc
  <1> QED  BY <1>1, <1>2

----------------------------------------------------------------------------
(* Only WritePut and ReadTake move a counter; every other step leaves the  *)
(* ring as it is, so Empty, Full and Count keep their values.              *)
LEMMA RingKept == UNCHANGED ring => /\ Empty' = Empty /\ Full' = Full
                                    /\ Count' = Count /\ Unread' = Unread
  BY DEF ring, Empty, Full, Count, Unread

(* The initial states satisfy the invariant.                               *)
LEMMA InitInv == Init => IInv
  <1> SUFFICES ASSUME Init PROVE IInv  OBVIOUS
  <1>1. TypeOK
    <2>1. 0 \in 0 .. UINT - 1  BY UintFacts, Z3
    <2> QED  BY <2>1 DEF Init, TypeOK, Labels
  <1>2. LockInv  BY ProcAssumption DEF Init, LockInv, Holding
  <1>3. EndsInv  BY DEF Init, EndsInv, BothClosed, Writing, Reading
  <1>4. Count = 0
    <2>1. (0 - 0) % UINT = 0  BY UintFacts, CountFacts, Z3
    <2> QED  BY <2>1 DEF Init, Count
  <1>5. RingInv  BY <1>4, UintFacts DEF Init, RingInv
  <1>6. WakeInv  BY DEF Init, WakeInv
  <1> QED  BY <1>1, <1>2, <1>3, <1>5, <1>6 DEF IInv

(* Steps that leave the ends alone: a call is on an end its process holds, *)
(* and no process comes to pipeclose().                                    *)
LEMMA EndsKept ==
    ASSUME IInv, UNCHANGED ends,
           \A q \in Proc : /\ Writing(q)' => q \in wr
                           /\ Reading(q)' => q \in rd
                           /\ pc'[q] \in {"close_w", "close_r"} => pc'[q] = pc[q]
    PROVE  EndsInv'
  <1>1. EndsInv  BY DEF IInv
  <1>2. UNCHANGED <<readopen, writeopen, freed, rd, wr>>  BY DEF ends
  <1>3. ASSUME NEW q \in Proc
        PROVE  /\ pc'[q] = "close_w" => wr' = {} /\ writeopen'
               /\ pc'[q] = "close_r" => rd' = {} /\ readopen'
    BY <1>1, <1>2 DEF EndsInv
  <1>4. ASSUME NEW q \in Proc, NEW r \in Proc,
               pc'[q] = pc'[r], pc'[q] \in {"close_w", "close_r"}
        PROVE  q = r
    <2>1. pc[q] = pc'[q] /\ pc[r] = pc'[r]  BY <1>4
    <2> QED  BY <1>1, <1>4, <2>1 DEF EndsInv
  <1> QED  BY <1>1, <1>2, <1>3, <1>4 DEF EndsInv, BothClosed

(* Entering pipewrite() touches neither the ring nor the lock.             *)
LEMMA pipewriteInv == ASSUME IInv, NEW p \in Proc, pipewrite(p) PROVE IInv'
  <1> USE DEF IInv
  <1>0. UNCHANGED ring  BY DEF pipewrite, Call, ring, ends, Goto
  <1>1. TypeOK'  BY DEF TypeOK, Labels, BothClosed, pipewrite, Call, ring, ends, Goto
  <1>2. LockInv'
    BY ProcAssumption DEF TypeOK, LockInv, Holding, pipewrite, Call, ring, ends,
       Goto
  <1>3. EndsInv'
    <2>1. UNCHANGED ends  BY DEF pipewrite, Call, ends
    <2>2. ASSUME NEW q \in Proc
          PROVE  /\ Writing(q)' => q \in wr
                 /\ Reading(q)' => q \in rd
                 /\ pc'[q] \in {"close_w", "close_r"} => pc'[q] = pc[q]
      BY DEF TypeOK, EndsInv, Writing, Reading, pipewrite, Call, Goto
    <2> QED  BY <2>1, <2>2, EndsKept
  <1>4. RingInv'
    BY <1>0, RingKept DEF TypeOK, LockInv, Holding, EndsInv, RingInv, pipewrite,
       Call, ring, ends, Goto
  <1>5. WakeInv'
    BY <1>0, RingKept DEF TypeOK, LockInv, Holding, EndsInv, WakeInv, Reading,
       Writing, pipewrite, Call, ring, ends, Goto
  <1> QED  BY <1>1, <1>2, <1>3, <1>4, <1>5

(* Entering piperead() touches neither the ring nor the lock.              *)
LEMMA pipereadInv == ASSUME IInv, NEW p \in Proc, piperead(p) PROVE IInv'
  <1> USE DEF IInv
  <1>0. UNCHANGED ring  BY DEF piperead, Call, ring, ends, Goto
  <1>1. TypeOK'  BY DEF TypeOK, Labels, BothClosed, piperead, Call, ring, ends, Goto
  <1>2. LockInv'
    BY ProcAssumption DEF TypeOK, LockInv, Holding, piperead, Call, ring, ends,
       Goto
  <1>3. EndsInv'
    <2>1. UNCHANGED ends  BY DEF piperead, Call, ends
    <2>2. ASSUME NEW q \in Proc
          PROVE  /\ Writing(q)' => q \in wr
                 /\ Reading(q)' => q \in rd
                 /\ pc'[q] \in {"close_w", "close_r"} => pc'[q] = pc[q]
      BY DEF TypeOK, EndsInv, Writing, Reading, piperead, Call, Goto
    <2> QED  BY <2>1, <2>2, EndsKept
  <1>4. RingInv'
    BY <1>0, RingKept DEF TypeOK, LockInv, Holding, EndsInv, RingInv, piperead,
       Call, ring, ends, Goto
  <1>5. WakeInv'
    BY <1>0, RingKept DEF TypeOK, LockInv, Holding, EndsInv, WakeInv, Reading,
       Writing, piperead, Call, ring, ends, Goto
  <1> QED  BY <1>1, <1>2, <1>3, <1>4, <1>5

(* fileclose(): only the last holder of an end goes on to pipeclose().     *)
LEMMA filecloseInv == ASSUME IInv, NEW p \in Proc, fileclose(p) PROVE IInv'
  <1> USE DEF IInv
  <1>0. UNCHANGED ring  BY DEF fileclose, ring, ends, Goto
  <1>1. TypeOK'  BY DEF TypeOK, Labels, BothClosed, fileclose, ring, ends, Goto
  <1>2. LockInv'
    BY ProcAssumption DEF TypeOK, LockInv, Holding, fileclose, ring, ends, Goto
  <1>3. EndsInv'
    <2>1. CASE p \in wr /\ wr' = wr \ {p} /\ rd' = rd
               /\ pc' = [pc EXCEPT ![p] = IF wr = {p} THEN "close_w" ELSE "idle"]
      BY <2>1 DEF TypeOK, EndsInv, BothClosed, Writing, Reading, fileclose
    <2>2. CASE p \in rd /\ rd' = rd \ {p} /\ wr' = wr
               /\ pc' = [pc EXCEPT ![p] = IF rd = {p} THEN "close_r" ELSE "idle"]
      BY <2>2 DEF TypeOK, EndsInv, BothClosed, Writing, Reading, fileclose
    <2> QED  BY <2>1, <2>2 DEF fileclose, Goto
  <1>4. RingInv'
    BY <1>0, RingKept DEF TypeOK, LockInv, Holding, EndsInv, RingInv, fileclose,
       ring, ends, Goto
  <1>5. WakeInv'
    BY <1>0, RingKept DEF TypeOK, LockInv, Holding, EndsInv, WakeInv, Reading,
       Writing, fileclose, ring, ends, Goto
  <1> QED  BY <1>1, <1>2, <1>3, <1>4, <1>5

(* kill() moves sleepers only, to where a wakeup would move them.          *)
LEMMA killInv == ASSUME IInv, NEW p \in Proc, kill(p) PROVE IInv'
  <1> USE DEF IInv
  <1>0. UNCHANGED ring  BY DEF kill, ring, ends, Goto
  <1>1. TypeOK'  BY DEF TypeOK, Labels, BothClosed, kill, ring, ends, Goto
  <1>2. LockInv'  BY ProcAssumption DEF TypeOK, LockInv, Holding, kill, ring, ends, Goto
  <1>3. EndsInv'
    <2>1. UNCHANGED ends  BY DEF kill, ends
    <2>2. ASSUME NEW q \in Proc
          PROVE  /\ Writing(q)' => q \in wr
                 /\ Reading(q)' => q \in rd
                 /\ pc'[q] \in {"close_w", "close_r"} => pc'[q] = pc[q]
      BY DEF TypeOK, EndsInv, Writing, Reading, kill, Goto
    <2> QED  BY <2>1, <2>2, EndsKept
  <1>4. RingInv'
    BY <1>0, RingKept DEF TypeOK, LockInv, Holding, EndsInv, RingInv, kill, ring,
       ends, Goto
  <1>5. WakeInv'
    BY <1>0, RingKept DEF TypeOK, LockInv, Holding, EndsInv, WakeInv, Reading,
       Writing, kill, ring, ends, Goto
  <1> QED  BY <1>1, <1>2, <1>3, <1>4, <1>5

(* acquire(): the lock was free, so the caller is its only holder.         *)
LEMMA AcquireInv == ASSUME IInv, NEW p \in Proc, Acquire(p) PROVE IInv'
  <1> USE DEF IInv
  <1>0. UNCHANGED ring  BY DEF Acquire, ring, ends, Goto
  <1>1. TypeOK'  BY DEF TypeOK, Labels, BothClosed, Acquire, ring, ends, Goto
  <1>2. LockInv'
    BY ProcAssumption DEF TypeOK, LockInv, Holding, Acquire, ring, ends, Goto
  <1>3. EndsInv'
    <2>1. UNCHANGED ends  BY DEF Acquire, ends
    <2>2. ASSUME NEW q \in Proc
          PROVE  /\ Writing(q)' => q \in wr
                 /\ Reading(q)' => q \in rd
                 /\ pc'[q] \in {"close_w", "close_r"} => pc'[q] = pc[q]
      BY DEF TypeOK, EndsInv, Writing, Reading, Acquire, Goto
    <2> QED  BY <2>1, <2>2, EndsKept
  <1>4. RingInv'
    BY <1>0, RingKept DEF TypeOK, LockInv, Holding, EndsInv, RingInv, Acquire,
       ring, ends, Goto
  <1>5. WakeInv'
    BY <1>0, RingKept DEF TypeOK, LockInv, Holding, EndsInv, WakeInv, Reading,
       Writing, Acquire, ring, ends, Goto
  <1> QED  BY <1>1, <1>2, <1>3, <1>4, <1>5

(* pipewrite() gives up: readers may be left asleep, as gaveup says.       *)
LEMMA WriteFailInv == ASSUME IInv, NEW p \in Proc, WriteFail(p) PROVE IInv'
  <1> USE DEF IInv
  <1>0. UNCHANGED ring  BY DEF WriteFail, Leave, ring, ends, Goto
  <1>1. TypeOK'  BY DEF TypeOK, Labels, BothClosed, WriteFail, Leave, ring, ends, Goto
  <1>2. LockInv'
    BY ProcAssumption DEF TypeOK, LockInv, Holding, WriteFail, Leave, ring, ends,
       Goto
  <1>3. EndsInv'
    <2>1. UNCHANGED ends  BY DEF WriteFail, ends
    <2>2. ASSUME NEW q \in Proc
          PROVE  /\ Writing(q)' => q \in wr
                 /\ Reading(q)' => q \in rd
                 /\ pc'[q] \in {"close_w", "close_r"} => pc'[q] = pc[q]
      BY DEF TypeOK, EndsInv, Writing, Reading, WriteFail, Leave, Goto
    <2> QED  BY <2>1, <2>2, EndsKept
  <1>4. RingInv'
    BY <1>0, RingKept DEF TypeOK, LockInv, Holding, EndsInv, RingInv, WriteFail,
       Leave, ring, ends, Goto
  <1>5. WakeInv'
    BY <1>0, RingKept DEF TypeOK, LockInv, Holding, EndsInv, WakeInv, Reading,
       Writing, WriteFail, Leave, ring, ends, Goto
  <1> QED  BY <1>1, <1>2, <1>3, <1>4, <1>5

(* pipewrite() finds the ring full and wakes every reader.                 *)
LEMMA WriteFullInv == ASSUME IInv, NEW p \in Proc, WriteFull(p) PROVE IInv'
  <1> USE DEF IInv
  <1>0. UNCHANGED ring  BY DEF WriteFull, WakeReaders, Woken, ring, ends, Goto
  <1>1. TypeOK'
    BY DEF TypeOK, Labels, BothClosed, WriteFull, WakeReaders, Woken, ring, ends,
       Goto
  <1>2. LockInv'
    BY ProcAssumption DEF TypeOK, LockInv, Holding, WriteFull, WakeReaders, Woken,
       ring, ends, Goto
  <1>3. EndsInv'
    <2>1. UNCHANGED ends  BY DEF WriteFull, ends
    <2>2. ASSUME NEW q \in Proc
          PROVE  /\ Writing(q)' => q \in wr
                 /\ Reading(q)' => q \in rd
                 /\ pc'[q] \in {"close_w", "close_r"} => pc'[q] = pc[q]
      BY DEF TypeOK, EndsInv, Writing, Reading, WriteFull, WakeReaders, Woken, Goto
    <2> QED  BY <2>1, <2>2, EndsKept
  <1>4. RingInv'
    BY <1>0, RingKept DEF TypeOK, LockInv, Holding, EndsInv, RingInv, WriteFull,
       WakeReaders, Woken, ring, ends, Goto
  <1>5. WakeInv'
    BY <1>0, RingKept DEF TypeOK, LockInv, Holding, EndsInv, WakeInv, Reading,
       Writing, WriteFull, WakeReaders, Woken, ring, ends, Goto
  <1> QED  BY <1>1, <1>2, <1>3, <1>4, <1>5

(* pipewrite() falls asleep: the ring is full, or it could not be here.    *)
LEMMA WriteSleepInv == ASSUME IInv, NEW p \in Proc, WriteSleep(p) PROVE IInv'
  <1> USE DEF IInv
  <1>0. UNCHANGED ring  BY DEF WriteSleep, ring, ends, Goto
  <1>1. TypeOK'  BY DEF TypeOK, Labels, BothClosed, WriteSleep, ring, ends, Goto
  <1>2. LockInv'
    BY ProcAssumption DEF TypeOK, LockInv, Holding, WriteSleep, ring, ends, Goto
  <1>3. EndsInv'
    <2>1. UNCHANGED ends  BY DEF WriteSleep, ends
    <2>2. ASSUME NEW q \in Proc
          PROVE  /\ Writing(q)' => q \in wr
                 /\ Reading(q)' => q \in rd
                 /\ pc'[q] \in {"close_w", "close_r"} => pc'[q] = pc[q]
      BY DEF TypeOK, EndsInv, Writing, Reading, WriteSleep, Goto
    <2> QED  BY <2>1, <2>2, EndsKept
  <1>4. RingInv'
    BY <1>0, RingKept DEF TypeOK, LockInv, Holding, EndsInv, RingInv, WriteSleep,
       ring, ends, Goto
  <1>5. WakeInv'
    BY <1>0, RingKept DEF TypeOK, LockInv, Holding, EndsInv, WakeInv, Reading,
       Writing, WriteSleep, ring, ends, Goto
  <1> QED  BY <1>1, <1>2, <1>3, <1>4, <1>5

(* pipewrite() returns, having woken every reader.                         *)
LEMMA WriteDoneInv == ASSUME IInv, NEW p \in Proc, WriteDone(p) PROVE IInv'
  <1> USE DEF IInv
  <1>0. UNCHANGED ring  BY DEF WriteDone, WakeReaders, Woken, Leave, ring, ends, Goto
  <1>1. TypeOK'
    BY DEF TypeOK, Labels, BothClosed, WriteDone, WakeReaders, Woken, Leave, ring,
       ends, Goto
  <1>2. LockInv'
    BY ProcAssumption DEF TypeOK, LockInv, Holding, WriteDone, WakeReaders, Woken,
       Leave, ring, ends, Goto
  <1>3. EndsInv'
    <2>1. UNCHANGED ends  BY DEF WriteDone, ends
    <2>2. ASSUME NEW q \in Proc
          PROVE  /\ Writing(q)' => q \in wr
                 /\ Reading(q)' => q \in rd
                 /\ pc'[q] \in {"close_w", "close_r"} => pc'[q] = pc[q]
      BY DEF TypeOK, EndsInv, Writing, Reading, WriteDone, WakeReaders, Woken, Leave, Goto
    <2> QED  BY <2>1, <2>2, EndsKept
  <1>4. RingInv'
    BY <1>0, RingKept DEF TypeOK, LockInv, Holding, EndsInv, RingInv, WriteDone,
       WakeReaders, Woken, Leave, ring, ends, Goto
  <1>5. WakeInv'
    BY <1>0, RingKept DEF TypeOK, LockInv, Holding, EndsInv, WakeInv, Reading,
       Writing, WriteDone, WakeReaders, Woken, Leave, ring, ends, Goto
  <1> QED  BY <1>1, <1>2, <1>3, <1>4, <1>5

(* piperead() gives up because its process has been killed.                *)
LEMMA ReadKilledInv == ASSUME IInv, NEW p \in Proc, ReadKilled(p) PROVE IInv'
  <1> USE DEF IInv
  <1>0. UNCHANGED ring  BY DEF ReadKilled, Leave, ring, ends, Goto
  <1>1. TypeOK'  BY DEF TypeOK, Labels, BothClosed, ReadKilled, Leave, ring, ends, Goto
  <1>2. LockInv'
    BY ProcAssumption DEF TypeOK, LockInv, Holding, ReadKilled, Leave, ring, ends,
       Goto
  <1>3. EndsInv'
    <2>1. UNCHANGED ends  BY DEF ReadKilled, ends
    <2>2. ASSUME NEW q \in Proc
          PROVE  /\ Writing(q)' => q \in wr
                 /\ Reading(q)' => q \in rd
                 /\ pc'[q] \in {"close_w", "close_r"} => pc'[q] = pc[q]
      BY DEF TypeOK, EndsInv, Writing, Reading, ReadKilled, Leave, Goto
    <2> QED  BY <2>1, <2>2, EndsKept
  <1>4. RingInv'
    BY <1>0, RingKept DEF TypeOK, LockInv, Holding, EndsInv, RingInv, ReadKilled,
       Leave, ring, ends, Goto
  <1>5. WakeInv'
    BY <1>0, RingKept DEF TypeOK, LockInv, Holding, EndsInv, WakeInv, Reading,
       Writing, ReadKilled, Leave, ring, ends, Goto
  <1> QED  BY <1>1, <1>2, <1>3, <1>4, <1>5

(* piperead() finds the ring empty and the write end open.                 *)
LEMMA ReadEmptyInv == ASSUME IInv, NEW p \in Proc, ReadEmpty(p) PROVE IInv'
  <1> USE DEF IInv
  <1>0. UNCHANGED ring  BY DEF ReadEmpty, ring, ends, Goto
  <1>1. TypeOK'  BY DEF TypeOK, Labels, BothClosed, ReadEmpty, ring, ends, Goto
  <1>2. LockInv'
    BY ProcAssumption DEF TypeOK, LockInv, Holding, ReadEmpty, ring, ends, Goto
  <1>3. EndsInv'
    <2>1. UNCHANGED ends  BY DEF ReadEmpty, ends
    <2>2. ASSUME NEW q \in Proc
          PROVE  /\ Writing(q)' => q \in wr
                 /\ Reading(q)' => q \in rd
                 /\ pc'[q] \in {"close_w", "close_r"} => pc'[q] = pc[q]
      BY DEF TypeOK, EndsInv, Writing, Reading, ReadEmpty, Goto
    <2> QED  BY <2>1, <2>2, EndsKept
  <1>4. RingInv'
    BY <1>0, RingKept DEF TypeOK, LockInv, Holding, EndsInv, RingInv, ReadEmpty,
       ring, ends, Goto
  <1>5. WakeInv'
    BY <1>0, RingKept DEF TypeOK, LockInv, Holding, EndsInv, WakeInv, Reading,
       Writing, ReadEmpty, ring, ends, Goto
  <1> QED  BY <1>1, <1>2, <1>3, <1>4, <1>5

(* piperead() falls asleep: the ring is empty and the write end open.      *)
LEMMA ReadSleepInv == ASSUME IInv, NEW p \in Proc, ReadSleep(p) PROVE IInv'
  <1> USE DEF IInv
  <1>0. UNCHANGED ring  BY DEF ReadSleep, ring, ends, Goto
  <1>1. TypeOK'  BY DEF TypeOK, Labels, BothClosed, ReadSleep, ring, ends, Goto
  <1>2. LockInv'
    BY ProcAssumption DEF TypeOK, LockInv, Holding, ReadSleep, ring, ends, Goto
  <1>3. EndsInv'
    <2>1. UNCHANGED ends  BY DEF ReadSleep, ends
    <2>2. ASSUME NEW q \in Proc
          PROVE  /\ Writing(q)' => q \in wr
                 /\ Reading(q)' => q \in rd
                 /\ pc'[q] \in {"close_w", "close_r"} => pc'[q] = pc[q]
      BY DEF TypeOK, EndsInv, Writing, Reading, ReadSleep, Goto
    <2> QED  BY <2>1, <2>2, EndsKept
  <1>4. RingInv'
    BY <1>0, RingKept DEF TypeOK, LockInv, Holding, EndsInv, RingInv, ReadSleep,
       ring, ends, Goto
  <1>5. WakeInv'
    BY <1>0, RingKept DEF TypeOK, LockInv, Holding, EndsInv, WakeInv, Reading,
       Writing, ReadSleep, ring, ends, Goto
  <1> QED  BY <1>1, <1>2, <1>3, <1>4, <1>5

(* piperead() goes on to copy.                                             *)
LEMMA ReadReadyInv == ASSUME IInv, NEW p \in Proc, ReadReady(p) PROVE IInv'
  <1> USE DEF IInv
  <1>0. UNCHANGED ring  BY DEF ReadReady, ring, ends, Goto
  <1>1. TypeOK'  BY DEF TypeOK, Labels, BothClosed, ReadReady, ring, ends, Goto
  <1>2. LockInv'
    BY ProcAssumption DEF TypeOK, LockInv, Holding, ReadReady, ring, ends, Goto
  <1>3. EndsInv'
    <2>1. UNCHANGED ends  BY DEF ReadReady, ends
    <2>2. ASSUME NEW q \in Proc
          PROVE  /\ Writing(q)' => q \in wr
                 /\ Reading(q)' => q \in rd
                 /\ pc'[q] \in {"close_w", "close_r"} => pc'[q] = pc[q]
      BY DEF TypeOK, EndsInv, Writing, Reading, ReadReady, Goto
    <2> QED  BY <2>1, <2>2, EndsKept
  <1>4. RingInv'
    BY <1>0, RingKept DEF TypeOK, LockInv, Holding, EndsInv, RingInv, ReadReady,
       ring, ends, Goto
  <1>5. WakeInv'
    BY <1>0, RingKept DEF TypeOK, LockInv, Holding, EndsInv, WakeInv, Reading,
       Writing, ReadReady, ring, ends, Goto
  <1> QED  BY <1>1, <1>2, <1>3, <1>4, <1>5

(* piperead() returns, having woken every writer.                          *)
LEMMA ReadDoneInv == ASSUME IInv, NEW p \in Proc, ReadDone(p) PROVE IInv'
  <1> USE DEF IInv
  <1>0. UNCHANGED ring  BY DEF ReadDone, WakeWriters, Woken, Leave, ring, ends, Goto
  <1>1. TypeOK'
    BY DEF TypeOK, Labels, BothClosed, ReadDone, WakeWriters, Woken, Leave, ring,
       ends, Goto
  <1>2. LockInv'
    BY ProcAssumption DEF TypeOK, LockInv, Holding, ReadDone, WakeWriters, Woken,
       Leave, ring, ends, Goto
  <1>3. EndsInv'
    <2>1. UNCHANGED ends  BY DEF ReadDone, ends
    <2>2. ASSUME NEW q \in Proc
          PROVE  /\ Writing(q)' => q \in wr
                 /\ Reading(q)' => q \in rd
                 /\ pc'[q] \in {"close_w", "close_r"} => pc'[q] = pc[q]
      BY DEF TypeOK, EndsInv, Writing, Reading, ReadDone, WakeWriters, Woken, Leave, Goto
    <2> QED  BY <2>1, <2>2, EndsKept
  <1>4. RingInv'
    BY <1>0, RingKept DEF TypeOK, LockInv, Holding, EndsInv, RingInv, ReadDone,
       WakeWriters, Woken, Leave, ring, ends, Goto
  <1>5. WakeInv'
    BY <1>0, RingKept DEF TypeOK, LockInv, Holding, EndsInv, WakeInv, Reading,
       Writing, ReadDone, WakeWriters, Woken, Leave, ring, ends, Goto
  <1> QED  BY <1>1, <1>2, <1>3, <1>4, <1>5

(* pipeclose(): the end had no holder left, and its peers are woken.       *)
LEMMA pipecloseInv == ASSUME IInv, NEW p \in Proc, pipeclose(p) PROVE IInv'
  <1> USE DEF IInv
  <1>0. UNCHANGED ring
    BY DEF pipeclose, WakeReaders, WakeWriters, Woken, ring, ends, Goto
  <1>1. TypeOK'
    BY DEF TypeOK, Labels, BothClosed, pipeclose, WakeReaders, WakeWriters, Woken,
       ring, ends, Goto
  <1>2. LockInv'
    BY ProcAssumption DEF TypeOK, LockInv, Holding, pipeclose, WakeReaders,
       WakeWriters, Woken, ring, ends, Goto
  <1>3. EndsInv'
    <2>1. freed' = BothClosed(readopen', writeopen')  BY DEF pipeclose
    <2>2. (~writeopen' => wr' = {}) /\ (~readopen' => rd' = {})
      BY DEF EndsInv, pipeclose
    <2>3. ASSUME NEW q \in Proc
          PROVE  /\ pc'[q] = pc[q] \/ (q = p /\ pc'[q] = "idle")
                    \/ (pc[q] = "r_asleep" /\ pc'[q] = "r_acquire")
                    \/ (pc[q] = "w_asleep" /\ pc'[q] = "w_acquire")
                 /\ pc[q] = "close_w" => q = p \/ writeopen' = writeopen
                 /\ pc[q] = "close_r" => q = p \/ readopen' = readopen
      BY DEF TypeOK, EndsInv, pipeclose, WakeReaders, WakeWriters, Woken
    <2>4. pc'[p] = "idle"
      BY DEF TypeOK, pipeclose, WakeReaders, WakeWriters, Woken
    <2>5. wr' = wr /\ rd' = rd  BY DEF pipeclose
    <2>6. ASSUME NEW q \in Proc
          PROVE  /\ Writing(q)' => q \in wr'
                 /\ Reading(q)' => q \in rd'
                 /\ pc'[q] \in {"close_w", "close_r"} => pc[q] = pc'[q] /\ q # p
      BY <2>3, <2>4, <2>5 DEF EndsInv, Writing, Reading
    <2>7. ASSUME NEW q \in Proc
          PROVE  /\ pc'[q] = "close_w" => wr' = {} /\ writeopen'
                 /\ pc'[q] = "close_r" => rd' = {} /\ readopen'
      BY <2>3, <2>5, <2>6 DEF EndsInv
    <2>8. ASSUME NEW q \in Proc, NEW r \in Proc,
                 pc'[q] = pc'[r], pc'[q] \in {"close_w", "close_r"}
          PROVE  q = r
      <3>1. pc[q] = pc'[q] /\ pc[r] = pc'[r]  BY <2>6, <2>8
      <3> QED  BY <2>8, <3>1 DEF EndsInv
    <2> QED  BY <2>1, <2>2, <2>6, <2>7, <2>8 DEF EndsInv
  <1>4. RingInv'
    BY <1>0, RingKept DEF TypeOK, LockInv, Holding, EndsInv, RingInv, pipeclose,
       WakeReaders, WakeWriters, Woken, ring, ends, Goto
  <1>5. WakeInv'
    <2>0. \A q \in Proc : ~Holding(q)  BY ProcAssumption DEF LockInv, pipeclose
    <2>1. CASE pc[p] = "close_w"
      BY <1>0, <2>0, <2>1, RingKept DEF TypeOK, Holding, WakeInv, pipeclose, WakeReaders, Woken
    <2>2. CASE pc[p] = "close_r"
      <3>1. \A q \in Proc : /\ pc'[q] # "w_asleep" /\ pc'[q] # "w_sleep"
                            /\ pc'[q] # "r_sleep" /\ pc'[q] # "w_loop"
                            /\ pc'[q] = "r_asleep" => pc[q] = "r_asleep"
        BY <2>0, <2>2 DEF TypeOK, Holding, pipeclose, WakeWriters, Woken
      <3>2. writeopen' = writeopen /\ gaveup' = gaveup  BY <2>2 DEF pipeclose
      <3>3. \A q \in Proc : pc[q] = "r_asleep" => writeopen /\ (Empty \/ gaveup)
        BY <2>0 DEF WakeInv, Holding
      <3> QED  BY <1>0, <3>1, <3>2, <3>3, RingKept DEF WakeInv
    <2> QED  BY <2>1, <2>2 DEF pipeclose
  <1> QED  BY <1>1, <1>2, <1>3, <1>4, <1>5

----------------------------------------------------------------------------
(* Putting a byte in raises Count by one, taking one lowers it by one.     *)
LEMMA CountMoves ==
    ASSUME NEW r \in 0 .. UINT - 1, NEW w \in 0 .. UINT - 1
    PROVE  /\ (w - r) % UINT < PIPESIZE => (Inc(w) - r) % UINT = ((w - r) % UINT) + 1
           /\ (w - r) % UINT > 0 => (w - Inc(r)) % UINT = ((w - r) % UINT) - 1
  <1>0. PIPESIZE \in Nat \ {0} /\ UINT \in Nat \ {0} /\ PIPESIZE < UINT
    BY UintFacts
  <1>1. (w - r) % UINT = IF r <= w THEN w - r ELSE w - r + UINT  BY CountFacts
  <1>2. Inc(w) = (IF w + 1 < UINT THEN w + 1 ELSE 0) /\ Inc(w) \in 0 .. UINT - 1
    BY IncFacts
  <1>3. Inc(r) = (IF r + 1 < UINT THEN r + 1 ELSE 0) /\ Inc(r) \in 0 .. UINT - 1
    BY IncFacts
  <1>4. (Inc(w) - r) % UINT = IF r <= Inc(w) THEN Inc(w) - r ELSE Inc(w) - r + UINT
    BY <1>2, CountFacts
  <1>5. (w - Inc(r)) % UINT = IF Inc(r) <= w THEN w - Inc(r) ELSE w - Inc(r) + UINT
    BY <1>3, CountFacts
  <1> QED  BY <1>0, <1>1, <1>2, <1>3, <1>4, <1>5, Z3

(* pipewrite() puts one byte in.                                           *)
LEMMA WritePutInv == ASSUME IInv, NEW p \in Proc, WritePut(p)
                     PROVE  IInv' /\ Count < PIPESIZE /\ Count' = Count + 1
  <1> USE DEF IInv
  <1>1. nread \in 0 .. UINT - 1 /\ nwrite \in 0 .. UINT - 1  BY DEF TypeOK
  <1>2. nread' = nread /\ nwrite' = Inc(nwrite) /\ ~Full  BY DEF WritePut
  <1>3. Count \in 0 .. UINT - 1 /\ (Full <=> Count = PIPESIZE)
    BY <1>1, CountFacts DEF Count, Full
  <1>4. Count < PIPESIZE  BY <1>2, <1>3, UintFacts, Z3 DEF RingInv
  <1>5. Count' = Count + 1  BY <1>1, <1>2, <1>4, CountMoves DEF Count
  <1>6. nwrite' \in 0 .. UINT - 1  BY <1>1, <1>2, IncFacts
  <1>7. TypeOK'
    <2>1. nwrite % PIPESIZE \in 0 .. PIPESIZE - 1  BY <1>1, UintFacts, DivMod
    <2>2. data' \in [0 .. PIPESIZE - 1 -> Byte]  BY <2>1 DEF TypeOK, WritePut
    <2>3. i' \in [Proc -> Nat]  BY DEF TypeOK, WritePut
    <2> QED  BY <1>6, <2>2, <2>3 DEF TypeOK, WritePut, ends
  <1>8. LockInv'  BY DEF LockInv, Holding, WritePut
  <1>9. EndsInv'  BY DEF EndsInv, BothClosed, Writing, Reading, WritePut, ends
  <1>10. \A q \in Proc : /\ pc[q] \notin {"r_copy", "w_sleep", "r_sleep"}
                         /\ pc[q] # "w_asleep"
    BY <1>2 DEF LockInv, Holding, WakeInv, WritePut
  <1>11. RingInv'
    BY <1>3, <1>4, <1>5, <1>10, UintFacts DEF RingInv, WritePut, ends
  <1>12. WakeInv'  BY <1>10 DEF WakeInv, WritePut, ends
  <1> QED  BY <1>4, <1>5, <1>7, <1>8, <1>9, <1>11, <1>12

(* piperead() takes one byte out.                                          *)
LEMMA ReadTakeInv == ASSUME IInv, NEW p \in Proc, ReadTake(p)
                     PROVE  IInv' /\ Count > 0 /\ Count' = Count - 1
  <1> USE DEF IInv
  <1>1. nread \in 0 .. UINT - 1 /\ nwrite \in 0 .. UINT - 1  BY DEF TypeOK
  <1>2. nwrite' = nwrite /\ nread' = Inc(nread) /\ ~Empty  BY DEF ReadTake
  <1>3. Count \in 0 .. UINT - 1 /\ (Empty <=> Count = 0)
    BY <1>1, CountFacts DEF Count, Empty
  <1>4. Count > 0  BY <1>2, <1>3, UintFacts, Z3
  <1>5. Count' = Count - 1  BY <1>1, <1>2, <1>4, CountMoves DEF Count
  <1>6. nread' \in 0 .. UINT - 1  BY <1>1, <1>2, IncFacts
  <1>7. nread % PIPESIZE \in 0 .. PIPESIZE - 1  BY <1>1, UintFacts, DivMod
  <1>8. TypeOK'  BY <1>6, <1>7 DEF TypeOK, Labels, ReadTake, ends
  <1>9. LockInv'  BY DEF LockInv, Holding, ReadTake
  <1>10. EndsInv'  BY DEF EndsInv, BothClosed, Writing, Reading, ReadTake, ends
  <1>11. \A q \in Proc : /\ pc[q] \notin {"w_loop", "w_sleep", "r_sleep"}
                         /\ pc[q] = "r_copy" => q = p
    BY DEF LockInv, Holding, ReadTake
  <1>12. i'[p] # 0  BY DEF TypeOK, ReadTake
  <1>13. RingInv'
    <2>1. Count' <= PIPESIZE  BY <1>3, <1>5, UintFacts, Z3 DEF RingInv
    <2>2. pc' = pc /\ eof' = eof /\ writeopen' = writeopen  BY DEF ReadTake, ends
    <2> QED  BY <1>11, <1>12, <2>1, <2>2 DEF RingInv
  <1>14. WakeInv'  BY <1>2, <1>11 DEF WakeInv, ReadTake, ends
  <1> QED  BY <1>4, <1>5, <1>8, <1>9, <1>10, <1>13, <1>14

(* Every step preserves the invariant.                                     *)
LEMMA NextInv == IInv /\ [Next]_vars => IInv'
  <1> SUFFICES ASSUME IInv, [Next]_vars PROVE IInv'  OBVIOUS
  <1>1. CASE UNCHANGED vars
    BY <1>1 DEF IInv, TypeOK, LockInv, EndsInv, RingInv, WakeInv, vars, Holding,
                Writing, Reading, Empty, Full, Count
  <1>2. CASE Next
    <2> PICK p \in Proc : pipewrite(p) \/ piperead(p) \/ fileclose(p) \/ kill(p) \/ Step(p)
      BY <1>2 DEF Next
    <2> QED
      BY pipewriteInv, pipereadInv, filecloseInv, killInv, AcquireInv, WritePutInv,
         WriteFailInv, WriteFullInv, WriteSleepInv, WriteDoneInv, ReadKilledInv,
         ReadEmptyInv, ReadSleepInv, ReadReadyInv, ReadTakeInv, ReadDoneInv,
         pipecloseInv DEF Step
  <1> QED  BY <1>1, <1>2

(* Type correctness of struct pipe and of the calls' locals, for every     *)
(* instance.                                                               *)
THEOREM TypeCorrect == Spec => []TypeOK
  <1>1. Init => IInv  BY InitInv
  <1>2. IInv /\ [Next]_vars => IInv'  BY NextInv
  <1>3. IInv => TypeOK  BY DEF IInv
  <1> QED  BY <1>1, <1>2, <1>3, PTL DEF Spec

(* No wakeup is lost in pipewrite() and piperead(), for every instance.    *)
THEOREM PipeSleepersSafe == Spec => []SleepersHaveReason
  <1>1. IInv => SleepersHaveReason  BY InvImplies
  <1> QED  BY <1>1, InitInv, NextInv, PTL DEF Spec

(* pipeclose() frees the pipe only when no process can reach it, for every *)
(* instance.                                                               *)
THEOREM PipeFreedUnused == Spec => []FreedIsUnused
  <1>1. IInv => FreedIsUnused  BY InvImplies
  <1> QED  BY <1>1, InitInv, NextInv, PTL DEF Spec

----------------------------------------------------------------------------
(* The refinement: Unread is the queue of the stream.                      *)

(* Unread is a sequence of Count bytes, and its k-th byte is in the slot   *)
(* k - 1 places after nread; the slot of nwrite is Count places after it.  *)
UnreadOK ==
    /\ Count \in Nat
    /\ Unread \in Seq(Byte) /\ Len(Unread) = Count
    /\ \A k \in 1 .. Count : Unread[k] = data[(nread + k - 1) % PIPESIZE]
    /\ nwrite % PIPESIZE = (nread + Count) % PIPESIZE

(* UnreadOK holds of every well-typed ring.                                *)
LEMMA UnreadFacts == TypeOK => UnreadOK
  <1> SUFFICES ASSUME TypeOK PROVE UnreadOK  OBVIOUS
  <1>0. PIPESIZE \in Nat \ {0} /\ UINT \in Nat \ {0}  BY UintFacts
  <1>1. nread \in 0 .. UINT - 1 /\ nwrite \in 0 .. UINT - 1
        /\ data \in [0 .. PIPESIZE - 1 -> Byte]
    BY DEF TypeOK
  <1>2. Count \in 0 .. UINT - 1
        /\ Count = IF nread <= nwrite THEN nwrite - nread ELSE nwrite - nread + UINT
    BY <1>1, CountFacts DEF Count
  <1>3. Count \in Nat  BY <1>0, <1>2, Z3
  <1>4. ASSUME NEW k \in 1 .. Count
        PROVE  /\ ((nread + k - 1) % UINT) % PIPESIZE = (nread + k - 1) % PIPESIZE
               /\ (nread + k - 1) % PIPESIZE \in 0 .. PIPESIZE - 1
    <2>1. nread + k - 1 \in Int  BY <1>0, <1>1, <1>3, Z3
    <2> QED  BY <1>0, <2>1, UintFacts, DivMod
  <1>5. Unread = [k \in 1 .. Count |-> data[(nread + k - 1) % PIPESIZE]]
    BY <1>4 DEF Unread
  <1>6. ASSUME NEW k \in 1 .. Count PROVE data[(nread + k - 1) % PIPESIZE] \in Byte
    BY <1>1, <1>4
  <1> HIDE DEF Count
  <1>7. Unread \in Seq(Byte) /\ Len(Unread) = Count  BY <1>3, <1>5, <1>6
  <1>8. nwrite = (nread + Count) % UINT
    <2>1. CASE nread <= nwrite
      <3>1. nread + Count = nwrite  BY <1>0, <1>1, <1>2, <2>1, Z3
      <3> QED  BY <1>0, <1>1, <3>1, ModSmall
    <2>2. CASE ~(nread <= nwrite)
      <3> DEFINE x == nread + Count
      <3>1. x = nwrite + UINT  BY <1>0, <1>1, <1>2, <2>2, Z3
      <3>2. x \in Int /\ UINT <= x /\ x < UINT + UINT  BY <1>0, <1>1, <3>1, Z3
      <3>3. x - UINT = nwrite  BY <1>0, <1>1, <3>1, Z3
      <3> HIDE DEF x
      <3>4. x % UINT = x - UINT  BY <1>0, <3>2, ModAbove
      <3> QED  BY <3>3, <3>4 DEF x
    <2> QED  BY <2>1, <2>2
  <1>9. nwrite % PIPESIZE = (nread + Count) % PIPESIZE
    <2>1. nread + Count \in Int  BY <1>0, <1>1, <1>3, Z3
    <2>2. ((nread + Count) % UINT) % PIPESIZE = (nread + Count) % PIPESIZE
      BY <2>1, UintFacts
    <2> QED  BY <1>8, <2>2
  <1> QED  BY <1>3, <1>5, <1>7, <1>9 DEF UnreadOK

(* pipewrite() appends to the queue: the byte it stores overwrites none of *)
(* those waiting to be read.                                               *)
LEMMA PutRefines == ASSUME IInv, NEW p \in Proc, WritePut(p) PROVE Stream!Put
  <1> USE DEF IInv
  <1>0. PIPESIZE \in Nat \ {0}  BY UintFacts
  <1>1. IInv' /\ Count < PIPESIZE /\ Count' = Count + 1  BY WritePutInv
  <1>2. PICK b \in Byte : data' = [data EXCEPT ![nwrite % PIPESIZE] = b]
    BY DEF WritePut
  <1>3. /\ Count \in Nat /\ Unread \in Seq(Byte) /\ Len(Unread) = Count
        /\ \A k \in 1 .. Count : Unread[k] = data[(nread + k - 1) % PIPESIZE]
        /\ nwrite % PIPESIZE = (nread + Count) % PIPESIZE
    BY UnreadFacts DEF UnreadOK
  <1>4. /\ Unread' \in Seq(Byte) /\ Len(Unread') = Count + 1
        /\ \A k \in 1 .. Count + 1 : Unread'[k] = data'[(nread + k - 1) % PIPESIZE]
    <2>1. TypeOK'  BY <1>1
    <2>2. nread' = nread  BY DEF WritePut
    <2>3. /\ Unread' \in Seq(Byte) /\ Len(Unread') = Count'
          /\ \A k \in 1 .. Count' : Unread'[k] = data'[(nread' + k - 1) % PIPESIZE]
      <3>1. UnreadOK'  BY <2>1, UnreadFacts, PTL
      <3> QED  BY <3>1 DEF UnreadOK
    <2> QED  BY <1>1, <2>2, <2>3
  <1>5. nread \in Nat /\ data \in [0 .. PIPESIZE - 1 -> Byte]  BY UintFacts DEF TypeOK
  <1>6. ASSUME NEW k \in 1 .. Count PROVE Unread'[k] = Unread[k]
    <2> DEFINE x == nread + k - 1
               d == Count - k + 1
    <2>1. x \in Int /\ d \in 1 .. PIPESIZE - 1 /\ x + d = nread + Count
      BY <1>0, <1>1, <1>3, <1>5, Z3
    <2>2. (x + d) % PIPESIZE # x % PIPESIZE  BY <1>0, <2>1, ModDistinct
    <2>3. nwrite % PIPESIZE # x % PIPESIZE  BY <1>3, <2>1, <2>2
    <2>4. x % PIPESIZE \in 0 .. PIPESIZE - 1  BY <1>0, <2>1, DivMod
    <2>5. data'[x % PIPESIZE] = data[x % PIPESIZE]  BY <1>2, <1>5, <2>3, <2>4
    <2>6. k \in 1 .. Count + 1  BY <1>3, Z3
    <2> QED  BY <1>3, <1>4, <2>5, <2>6
  <1>7. Unread'[Count + 1] = b
    <2>1. Count + 1 \in 1 .. Count + 1 /\ nread + (Count + 1) - 1 = nread + Count
      BY <1>3, <1>5, Z3
    <2>2. (nread + Count) % PIPESIZE \in 0 .. PIPESIZE - 1
      <3>1. nread + Count \in Int  BY <1>3, <1>5
      <3> QED  BY <1>0, <3>1, DivMod
    <2>3. data'[(nread + Count) % PIPESIZE] = b  BY <1>2, <1>3, <1>5, <2>2
    <2> QED  BY <1>4, <2>1, <2>3
  <1>8. Unread' = Append(Unread, b)
    <2> DEFINE a == Append(Unread, b)
    <2>1. a \in Seq(Byte) /\ Len(a) = Count + 1  BY <1>2, <1>3
    <2>2. \A k \in 1 .. Count + 1 : Unread'[k] = a[k]  BY <1>3, <1>6, <1>7
    <2> HIDE DEF a
    <2>3. Unread' = a  BY <1>4, <2>1, <2>2
    <2> QED  BY <2>3 DEF a
  <1>9. ~eof
    BY DEF WritePut, RingInv, EndsInv, Writing
  <1>10. out' = out /\ eof' = eof  BY DEF WritePut
  <1> QED  BY <1>1, <1>3, <1>8, <1>9, <1>10 DEF Stream!Put

(* piperead() takes the head of the queue.                                 *)
LEMMA TakeRefines == ASSUME IInv, NEW p \in Proc, ReadTake(p) PROVE Stream!Take
  <1> USE DEF IInv
  <1>0. PIPESIZE \in Nat \ {0} /\ UINT \in Nat \ {0} /\ PIPESIZE < UINT  BY UintFacts
  <1>1. IInv' /\ Count > 0 /\ Count' = Count - 1  BY ReadTakeInv
  <1>2. /\ Count \in Nat /\ Unread \in Seq(Byte) /\ Len(Unread) = Count
        /\ \A k \in 1 .. Count : Unread[k] = data[(nread + k - 1) % PIPESIZE]
    BY UnreadFacts DEF UnreadOK
  <1>3. /\ Unread' \in Seq(Byte) /\ Len(Unread') = Count - 1
        /\ \A k \in 1 .. Count - 1 : Unread'[k] = data[(nread' + k - 1) % PIPESIZE]
    <2>1. TypeOK'  BY <1>1
    <2>2. data' = data  BY DEF ReadTake
    <2>3. /\ Unread' \in Seq(Byte) /\ Len(Unread') = Count'
          /\ \A k \in 1 .. Count' : Unread'[k] = data'[(nread' + k - 1) % PIPESIZE]
      <3>1. UnreadOK'  BY <2>1, UnreadFacts, PTL
      <3> QED  BY <3>1 DEF UnreadOK
    <2> QED  BY <1>1, <2>2, <2>3
  <1>4. nread \in 0 .. UINT - 1  BY DEF TypeOK
  <1>5. Head(Unread) = data[nread % PIPESIZE]
    <2>1. 1 \in 1 .. Count /\ nread + 1 - 1 = nread  BY <1>0, <1>1, <1>2, <1>4, Z3
    <2>2. Head(Unread) = Unread[1]  BY <1>1, <1>2
    <2> QED  BY <1>2, <2>1, <2>2
  <1>6. ASSUME NEW k \in 1 .. Count - 1
        PROVE  (nread' + k - 1) % PIPESIZE = (nread + (k + 1) - 1) % PIPESIZE
    <2>1. nread' = IF nread + 1 < UINT THEN nread + 1 ELSE 0
      BY <1>4, IncFacts DEF ReadTake
    <2>2. CASE nread + 1 < UINT
      <3>1. nread' + k - 1 = nread + (k + 1) - 1  BY <1>2, <1>4, <2>1, <2>2, Z3
      <3> QED  BY <3>1
    <2>3. CASE ~(nread + 1 < UINT)
      <3> DEFINE x == nread + k
      <3>1. nread + 1 = UINT /\ nread' = 0  BY <1>0, <1>4, <2>1, <2>3, Z3
      <3>2. k - 1 < PIPESIZE  BY <1>0, <1>1, <1>2, Z3 DEF RingInv
      <3>3. x \in Int /\ UINT <= x /\ x < UINT + UINT /\ x - UINT = k - 1
        BY <1>0, <1>2, <1>4, <3>1, <3>2, Z3
      <3>4. nread' + k - 1 = k - 1 /\ nread + (k + 1) - 1 = x
        BY <1>2, <1>4, <3>1, Z3
      <3> HIDE DEF x
      <3>5. x % UINT = k - 1  BY <1>0, <3>3, ModAbove
      <3>6. (x % UINT) % PIPESIZE = x % PIPESIZE  BY <3>3, UintFacts
      <3> QED  BY <3>4, <3>5, <3>6
    <2> QED  BY <2>2, <2>3
  <1>7. Unread' = Tail(Unread)
    <2> DEFINE t == Tail(Unread)
    <2>1. t \in Seq(Byte) /\ Len(t) = Count - 1 /\ \A k \in 1 .. Count - 1 : t[k] = Unread[k + 1]
      BY <1>1, <1>2
    <2>2. \A k \in 1 .. Count - 1 : k + 1 \in 1 .. Count  BY <1>2, Z3
    <2>3. \A k \in 1 .. Count - 1 : Unread'[k] = t[k]
      BY <1>2, <1>3, <1>6, <2>1, <2>2
    <2> HIDE DEF t
    <2>4. Unread' = t  BY <1>3, <2>1, <2>3
    <2> QED  BY <2>4 DEF t
  <1>8. out' = data[nread % PIPESIZE] /\ eof' = eof  BY DEF ReadTake
  <1> QED  BY <1>1, <1>2, <1>5, <1>7, <1>8 DEF Stream!Take

(* A read that delivers nothing because the write end is closed reports    *)
(* end of file, and does so on an empty pipe.                              *)
LEMMA DoneRefines == ASSUME IInv, NEW p \in Proc, ReadDone(p)
                     PROVE  [Stream!Next]_<<Unread, out, eof>>
  <1>1. Unread' = Unread /\ out' = out  BY RingKept DEF ReadDone
  <1>2. CASE i[p] = 0 /\ n[p] > 0
    <2>1. Empty  BY <1>2 DEF ReadDone, IInv, TypeOK
    <2>2. eof' = TRUE  BY <1>2 DEF ReadDone
    <2>3. nread \in 0 .. UINT - 1 /\ nwrite \in 0 .. UINT - 1  BY DEF IInv, TypeOK
    <2>4. Count = 0  BY <2>1, <2>3, CountFacts DEF Empty, Count
    <2>5. Unread \in Seq(Byte) /\ Len(Unread) = 0
      BY <2>4, UnreadFacts DEF IInv, UnreadOK
    <2>6. Unread = << >>  BY <2>5
    <2> QED  BY <1>1, <2>2, <2>6 DEF Stream!Next, Stream!EndOfFile
  <1>3. CASE ~(i[p] = 0 /\ n[p] > 0)
    <2>1. eof' = eof  BY <1>3 DEF ReadDone, IInv, TypeOK
    <2> QED  BY <1>1, <2>1
  <1> QED  BY <1>2, <1>3

(* pipe.c implements a bounded byte stream: for every ring size, counter   *)
(* width that is a larger multiple of it, and number of processes, what    *)
(* readers get is what writers put, in order, and nothing is put after a   *)
(* reader was told end of file.                                            *)
THEOREM PipeRefinesStream == Spec => ImplementsStream
  <1>1. Init => IInv  BY InitInv
  <1>2. IInv /\ [Next]_vars => IInv'  BY NextInv
  <1>3. Init => Stream!Init
    <2> SUFFICES ASSUME Init PROVE Stream!Init  OBVIOUS
    <2>1. TypeOK  BY InitInv DEF IInv
    <2>2. nread = 0 /\ nwrite = 0  BY DEF Init
    <2>3. Count = 0
      <3>1. (0 - 0) % UINT = 0  BY UintFacts, CountFacts, Z3
      <3> QED  BY <2>2, <3>1 DEF Count
    <2>4. Unread \in Seq(Byte) /\ Len(Unread) = 0
      BY <2>1, <2>3, UnreadFacts DEF UnreadOK
    <2>5. Unread = << >>  BY <2>4
    <2> QED  BY <2>5 DEF Init, Stream!Init
  <1>4. IInv /\ [Next]_vars => [Stream!Next]_(Stream!streamVars)
    <2> SUFFICES ASSUME IInv, [Next]_vars
                 PROVE  [Stream!Next]_<<Unread, out, eof>>
      BY DEF Stream!streamVars
    <2>1. CASE UNCHANGED vars
      BY <2>1, RingKept DEF vars, ring
    <2>2. ASSUME NEW p \in Proc, WritePut(p) PROVE Stream!Next
      BY <2>2, PutRefines DEF Stream!Next
    <2>3. ASSUME NEW p \in Proc, ReadTake(p) PROVE Stream!Next
      BY <2>3, TakeRefines DEF Stream!Next
    <2>4. ASSUME NEW p \in Proc,
                 pipewrite(p) \/ piperead(p) \/ fileclose(p) \/ kill(p) \/ Acquire(p)
                 \/ WriteFail(p) \/ WriteFull(p) \/ WriteSleep(p) \/ WriteDone(p)
                 \/ ReadKilled(p) \/ ReadEmpty(p) \/ ReadSleep(p) \/ ReadReady(p)
                 \/ pipeclose(p)
          PROVE  UNCHANGED <<Unread, out, eof>>
      <3>1. UNCHANGED ring /\ out' = out /\ eof' = eof
        BY <2>4 DEF pipewrite, piperead, Call, fileclose, kill, Acquire, WriteFail,
             WriteFull, WriteSleep, WriteDone, ReadKilled, ReadEmpty, ReadSleep,
             ReadReady, pipeclose, ring
      <3> QED  BY <3>1, RingKept
    <2> QED  BY <2>1, <2>2, <2>3, <2>4, DoneRefines DEF Next, Step
  <1> QED  BY <1>1, <1>2, <1>3, <1>4, PTL DEF Spec, ImplementsStream, Stream!Spec
=============================================================================
