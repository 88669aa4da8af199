----------------------------- MODULE LogProofs -----------------------------
(***************************************************************************)
(* Proofs about Log.tla, for every size of the log and every set of        *)
(* blocks, values and processes.                                           *)
(*                                                                         *)
(* IInv strengthens the invariants the runs check until they are           *)
(* inductive: CountInv ties outstanding and committing to where processes  *)
(* are, BusyInv ties a busy buffer to the call that modifies it, LogInv    *)
(* says what is on disk and in the cache at each stage of a commit and of  *)
(* a recovery.                                                             *)
(***************************************************************************)
EXTENDS Log, FiniteSetTheorems, TLAPS

InOp(p) == pc[p] \in {"op", "check", "append"}
Commits(p) == pc[p] \in {"write_log", "install", "done"}
Active == {p \in Proc : InOp(p)}
Running == mode \notin {"boot", "replay"}
Distinct(s) == \A j, k \in 1 .. Len(s) : s[j] = s[k] => j = k

(* outstanding counts the calls in progress.  One process commits, while   *)
(* no call is in progress; otherwise the log holds something only as long  *)
(* as some call is.                                                        *)
CountInv ==
    /\ IsFiniteSet(Active) /\ outstanding = Cardinality(Active)
    /\ committing => Active = {}
    /\ \A p \in Proc : Commits(p) => committing
    /\ \A p, q \in Proc : Commits(p) /\ Commits(q) => p = q
    /\ ~Running => ~committing /\ \A p \in Proc : pc[p] = "idle"
    /\ Running /\ ~committing /\ Active = {} => lh = <<>>
    /\ SleepersHaveReason

(* A busy buffer is the one its holder is about to log.                    *)
BusyInv ==
    /\ \A b \in Block : busy[b] # NoProc =>
         pc[busy[b]] \in {"check", "append"} /\ b \in wrote[busy[b]]
    /\ \A b, c \in Block : busy[b] # NoProc /\ busy[b] = busy[c] => b = c

(* The blocks of the log that have been copied home.                       *)
Installed == \A k \in 1 .. Len(lh) : k < tail => home[lh[k]] = slot[k]

(* The header on disk is empty but during an installation.  Before, the    *)
(* log's blocks are pinned; from the header's write on, they are what the  *)
(* buffers hold; a buffer that is neither logged nor busy is as on disk.   *)
LogInv ==
    /\ Distinct(lh) /\ Len(lh) <= NLOG - 1
    /\ Distinct(head) /\ Len(head) <= NLOG - 1
    /\ tail >= 1
    /\ ~Running => buf = home
    /\ mode = "replay" => lh = head /\ Installed
    /\ Running /\ head # <<>> => \E p \in Proc : pc[p] = "install"
    /\ Running /\ head = <<>> => Blocks(lh) \subseteq dirty
    /\ Running => \A b \in Block :
         busy[b] = NoProc /\ b \notin Blocks(lh) => buf[b] = home[b]
    /\ \A p \in Proc :
         /\ pc[p] = "write_log" =>
              \A k \in 1 .. Len(lh) : k < tail => slot[k] = buf[lh[k]]
         /\ pc[p] = "install" =>
              /\ head = lh /\ Installed
              /\ \A k \in 1 .. Len(lh) : slot[k] = buf[lh[k]]
              /\ \A k \in 1 .. Len(lh) : k >= tail => lh[k] \in dirty
         /\ pc[p] = "done" => lh = <<>>

IInv == TypeOK /\ CountInv /\ BusyInv /\ LogInv

----------------------------------------------------------------------------
(* The invariant implies what the runs check.                              *)
LEMMA InvImplies == IInv => LoggedArePinned /\ OutstandingCounts
  <1>1. ASSUME IInv PROVE LoggedArePinned
    BY <1>1, Zenon DEF IInv, LogInv, LoggedArePinned, Running
  <1>2. ASSUME IInv PROVE OutstandingCounts
    BY <1>2, Zenon DEF IInv, CountInv, OutstandingCounts, Active, InOp
  <1> QED  BY <1>1, <1>2, Zenon

(* What a state with no process in a call looks like.                      *)
LEMMA NoneActive == ASSUME \A p \in Proc : pc[p] = "idle"
                    PROVE  /\ Active = {} /\ IsFiniteSet(Active) /\ Cardinality(Active) = 0
                           /\ \A p \in Proc : ~Commits(p) /\ pc[p] # "asleep"
  <1>1. Active = {}  BY Zenon DEF Active, InOp
  <1>2. \A p \in Proc : ~Commits(p) /\ pc[p] # "asleep"  BY Zenon DEF Commits
  <1> QED  BY <1>1, <1>2, FS_EmptySet, Zenon

LEMMA EmptyLog == Blocks(<<>>) = {} /\ Distinct(<<>>) /\ Len(<<>>) = 0 /\ <<>> \in Seq(Block)
  BY DEF Blocks, Distinct

LEMMA InitInv == Init => IInv
  <1> SUFFICES ASSUME Init PROVE IInv  BY Zenon
  <1> USE LogAssumption
  <1>1. TypeOK  BY EmptyLog, Zenon DEF Init, TypeOK, Data, Slot
  <1>2. CountInv
    <2>1. \A p \in Proc : pc[p] = "idle"  BY Zenon DEF Init
    <2> QED  BY <2>1, NoneActive, Zenon DEF Init, CountInv, Running, SleepersHaveReason
  <1>3. BusyInv  BY Zenon DEF Init, BusyInv
  <1>4. LogInv
    BY EmptyLog DEF Init, LogInv, Running
  <1> QED  BY <1>1, <1>2, <1>3, <1>4, Zenon DEF IInv

LEMMA begin_opInv == ASSUME IInv, NEW p \in Proc, begin_op(p) PROVE IInv'
  <1> USE LogAssumption
  <1>0. pc[p] \in {"idle", "begin"} /\ mode = "run" /\ ~committing /\ pc' = [pc EXCEPT ![p] = "op"]
    BY Zenon DEF begin_op, At, Room, Goto
  <1>1. Active' = Active \cup {p} /\ p \notin Active
    BY <1>0 DEF Active, InOp, IInv, TypeOK
  <1>2. IsFiniteSet(Active') /\ Cardinality(Active') = Cardinality(Active) + 1
    BY <1>1, FS_AddElement, Zenon DEF IInv, CountInv
  <1>3. TypeOK'  BY <1>0 DEF begin_op, IInv, TypeOK, disk, cache
  <1>4. CountInv'
    BY <1>0, <1>1, <1>2, <1>3 DEF begin_op, IInv, CountInv, Commits, Running, TypeOK, SleepersHaveReason, disk, cache
  <1>5. BusyInv'
    BY <1>0, Zenon DEF begin_op, IInv, BusyInv, TypeOK, disk, cache
  <1>6. LogInv'
    BY <1>0, Zenon DEF begin_op, IInv, LogInv, Running, Installed, TypeOK, disk, cache
  <1> QED  BY <1>3, <1>4, <1>5, <1>6, Zenon DEF IInv

(* BeginSleep: a call that does not fit goes to sleep only when another is *)
(* in progress or a commit is.                                             *)
LEMMA BeginSleepInv == ASSUME IInv, NEW p \in Proc, BeginSleep(p) PROVE IInv'
  <1> USE LogAssumption
  <1>0. pc[p] \in {"idle", "begin"} /\ mode = "run" /\ pc' = [pc EXCEPT ![p] = "asleep"]
    BY Zenon DEF BeginSleep, At, Goto
  <1>1. Active' = Active  BY <1>0, Zenon DEF Active, InOp, IInv, TypeOK
  <1>2. committing \/ outstanding > 0
    <2> SUFFICES ASSUME ~committing, outstanding = 0 PROVE FALSE
      BY DEF IInv, TypeOK
    <2>1. Active = {}  BY FS_EmptySet, Zenon DEF IInv, CountInv
    <2>2. lh = <<>>  BY <1>0, <2>1, Zenon DEF IInv, CountInv, Running
    <2> QED  BY <2>2 DEF BeginSleep, Room
  <1>3. TypeOK'  BY <1>0, Zenon DEF BeginSleep, IInv, TypeOK, disk, cache, log
  <1>4. CountInv'
    BY <1>0, <1>1, <1>2, Zenon DEF BeginSleep, IInv, CountInv, Commits, Running, TypeOK,
       SleepersHaveReason, disk, cache, log
  <1>5. BusyInv'
    BY <1>0, Zenon DEF BeginSleep, IInv, BusyInv, TypeOK, disk, cache, log
  <1>6. LogInv'
    BY <1>0, Zenon DEF BeginSleep, IInv, LogInv, Running, Installed, TypeOK, disk, cache, log
  <1> QED  BY <1>3, <1>4, <1>5, <1>6, Zenon DEF IInv

(* A step of a call that leaves the calls in progress what they are.       *)
LEMMA CallGoesOn ==
    ASSUME IInv, NEW p \in Proc, pc[p] \in {"op", "check", "append"},
           NEW l \in {"op", "check", "append"},
           pc' = [pc EXCEPT ![p] = l], Running, Running', UNCHANGED <<outstanding, committing>>
    PROVE  /\ CountInv' /\ Active # {} /\ Active' = Active
           /\ ~committing /\ outstanding > 0 /\ head = <<>>
           /\ \A q \in Proc : ~Commits(q) /\ ~Commits(q)'
  <1>1. Active' = Active /\ p \in Active  BY Zenon DEF Active, InOp, IInv, TypeOK
  <1>2. ~committing /\ \A q \in Proc : ~Commits(q)  BY <1>1, Zenon DEF IInv, CountInv
  <1>3. \A q \in Proc : ~Commits(q)'  BY <1>2, Zenon DEF Commits, IInv, TypeOK
  <1>4. outstanding > 0  BY <1>1, FS_EmptySet DEF IInv, CountInv, TypeOK
  <1>5. CountInv'
    BY <1>1, <1>2, <1>3, <1>4, Zenon DEF IInv, CountInv, SleepersHaveReason
  <1>6. head = <<>>  BY <1>2, Zenon DEF IInv, LogInv, Commits
  <1> QED  BY <1>1, <1>2, <1>3, <1>4, <1>5, <1>6, Zenon

LEMMA ModifyInv == ASSUME IInv, NEW p \in Proc, Modify(p) PROVE IInv'
  <1> USE LogAssumption
  <1>0. pc[p] = "op" /\ Running /\ Running' /\ pc' = [pc EXCEPT ![p] = "check"]
    BY Zenon DEF Modify, At, Goto, Running
  <1>1. PICK b \in Block, v \in Value :
          /\ busy[b] = NoProc
          /\ busy' = [busy EXCEPT ![b] = p] /\ buf' = [buf EXCEPT ![b] = v]
          /\ wrote' = [wrote EXCEPT ![p] = @ \cup {b}]
    BY Zenon DEF Modify
  <1>2. CountInv' /\ \A q \in Proc : ~Commits(q)'
    BY <1>0, CallGoesOn, Zenon DEF Modify, log
  <1>3. TypeOK'  BY <1>0, <1>1 DEF Modify, IInv, TypeOK, Data, disk, log
  <1>4. BusyInv'
    BY <1>0, <1>1 DEF Modify, IInv, BusyInv, TypeOK, disk, log
  <1>5. LogInv'
    BY <1>0, <1>1, <1>2, CallGoesOn DEF Modify, IInv, LogInv, Running, Commits, TypeOK, disk, log
  <1> QED  BY <1>2, <1>3, <1>4, <1>5, Zenon DEF IInv

LEMMA LogPanicInv == ASSUME IInv, NEW p \in Proc, LogPanic(p) \/ LogOverrun(p) PROVE IInv'
  <1>0. mode = "run" /\ mode' \in {"panic", "overrun"}
        /\ UNCHANGED <<disk, cache, log, pc, wrote, tail>>
    BY Zenon DEF LogPanic, LogOverrun, At
  <1>1. TypeOK'  BY <1>0, Zenon DEF IInv, TypeOK, disk, cache, log
  <1>2. CountInv'
    BY <1>0, Zenon DEF IInv, CountInv, Active, InOp, Commits, Running, SleepersHaveReason, log
  <1>3. BusyInv'  BY <1>0, Zenon DEF IInv, BusyInv, cache
  <1>4. LogInv'
    BY <1>0 DEF IInv, LogInv, Running, Installed, Distinct, Blocks, disk, cache, log
  <1> QED  BY <1>1, <1>2, <1>3, <1>4, Zenon DEF IInv

LEMMA LogCheckInv == ASSUME IInv, NEW p \in Proc, LogCheck(p) PROVE IInv'
  <1>0. pc[p] = "check" /\ Running /\ Running' /\ pc' = [pc EXCEPT ![p] = "append"]
        /\ UNCHANGED <<disk, cache, log, wrote, tail, mode>>
    BY Zenon DEF LogCheck, At, Goto, Running
  <1>1. TypeOK'  BY <1>0, Zenon DEF IInv, TypeOK, disk, cache, log
  <1>2. CountInv' /\ \A q \in Proc : ~Commits(q)'  BY <1>0, CallGoesOn, Zenon DEF log
  <1>3. BusyInv'  BY <1>0, Zenon DEF IInv, BusyInv, TypeOK, cache
  <1>4. LogInv'
    BY <1>0, <1>2, CallGoesOn
       DEF IInv, LogInv, Running, Commits, Distinct, Blocks, disk, cache, log
  <1> QED  BY <1>1, <1>2, <1>3, <1>4, Zenon DEF IInv

(* log_write()'s absorption: the log gains the block, once.                *)
LEMMA AbsorbFacts ==
    ASSUME TypeOK, Distinct(lh), NEW b \in Block
    PROVE  /\ Absorb(b) \in Seq(Block) /\ Distinct(Absorb(b))
           /\ Blocks(Absorb(b)) = Blocks(lh) \cup {b}
           /\ Len(Absorb(b)) = IF b \in Blocks(lh) THEN Len(lh) ELSE Len(lh) + 1
  <1>0. lh \in Seq(Block)  BY Zenon DEF TypeOK
  <1>1. CASE b \in Blocks(lh)
    BY <1>0, <1>1, Zenon DEF Absorb
  <1>2. CASE b \notin Blocks(lh)
    <2>1. Absorb(b) = Append(lh, b)  BY <1>2, Zenon DEF Absorb
    <2>2. /\ Append(lh, b) \in Seq(Block) /\ Len(Append(lh, b)) = Len(lh) + 1
          /\ Append(lh, b)[Len(lh) + 1] = b
          /\ \A k \in 1 .. Len(lh) : Append(lh, b)[k] = lh[k]
      BY <1>0
    <2>3. Blocks(Append(lh, b)) = Blocks(lh) \cup {b}
      <3>1. ASSUME NEW x \in Blocks(Append(lh, b)) PROVE x \in Blocks(lh) \cup {b}
        <4>1. PICK k \in 1 .. Len(lh) + 1 : x = Append(lh, b)[k]  BY <2>2, Zenon DEF Blocks
        <4> QED  BY <1>0, <2>2, <4>1 DEF Blocks
      <3>2. ASSUME NEW x \in Blocks(lh) \cup {b} PROVE x \in Blocks(Append(lh, b))
        <4>1. CASE x = b
          <5>1. Len(lh) + 1 \in 1 .. Len(Append(lh, b))  BY <1>0, <2>2
          <5> QED  BY <4>1, <2>2, <5>1, Zenon DEF Blocks
        <4>2. CASE x \in Blocks(lh)
          <5>1. PICK k \in 1 .. Len(lh) : x = lh[k]  BY <4>2, Zenon DEF Blocks
          <5>2. k \in 1 .. Len(Append(lh, b))  BY <1>0, <2>2
          <5> QED  BY <5>1, <5>2, <2>2, Zenon DEF Blocks
        <4> QED  BY <3>2, <4>1, <4>2, Zenon
      <3> QED  BY <3>1, <3>2, Zenon
    <2>4. Distinct(Append(lh, b))
      <3> SUFFICES ASSUME NEW j \in 1 .. Len(lh) + 1, NEW k \in 1 .. Len(lh) + 1,
                          Append(lh, b)[j] = Append(lh, b)[k]
                   PROVE  j = k
        BY <2>2, Zenon DEF Distinct
      <3>1. \A i \in 1 .. Len(lh) : lh[i] # b  BY <1>2, Zenon DEF Blocks
      <3> QED  BY <1>0, <2>2, <3>1 DEF Distinct
    <2> QED  BY <1>2, <2>1, <2>2, <2>3, <2>4, Zenon
  <1> QED  BY <1>1, <1>2, Zenon

LEMMA LogAppendInv == ASSUME IInv, NEW p \in Proc, LogAppend(p) PROVE IInv'
  <1> USE LogAssumption
  <1>0. pc[p] = "append" /\ Running /\ Running' /\ pc' = [pc EXCEPT ![p] = "op"]
    BY Zenon DEF LogAppend, At, Goto, Running
  <1>1. PICK b \in Block :
          /\ busy[b] = p /\ busy' = [busy EXCEPT ![b] = NoProc]
          /\ lh' = Absorb(b) /\ Len(lh') <= NLOG - 1
          /\ dirty' = dirty \cup {b}
    BY Zenon DEF LogAppend, Pin
  <1>2. CountInv' /\ head = <<>> /\ \A q \in Proc : ~Commits(q)'
    BY <1>0, CallGoesOn, Zenon DEF LogAppend
  <1>3. lh' \in Seq(Block) /\ Distinct(lh') /\ Blocks(lh') = Blocks(lh) \cup {b}
    BY <1>1, AbsorbFacts, Zenon DEF IInv, LogInv
  <1>4. TypeOK'  BY <1>0, <1>1, <1>3, Zenon DEF LogAppend, IInv, TypeOK, disk
  <1>5. BusyInv'
    BY <1>0, <1>1 DEF LogAppend, IInv, BusyInv, TypeOK
  <1>6. LogInv'
    BY <1>0, <1>1, <1>2, <1>3
       DEF LogAppend, IInv, LogInv, Running, Commits, Distinct, TypeOK, disk
  <1> QED  BY <1>2, <1>4, <1>5, <1>6, Zenon DEF IInv

(* end_op(): the last call starts the commit, with no buffer busy.         *)
LEMMA end_opInv == ASSUME IInv, NEW p \in Proc, end_op(p) PROVE IInv'
  <1> USE LogAssumption
  <1>0. pc[p] = "op" /\ mode = "run" /\ p \in Active /\ ~committing
    BY Zenon DEF end_op, At, Active, InOp, IInv, CountInv
  <1>1. mode' = mode /\ outstanding' = outstanding - 1
        /\ wrote' = [wrote EXCEPT ![p] = {}] /\ UNCHANGED <<disk, cache, lh>>
    BY <1>0, Zenon DEF end_op, EndOp, Ended
  <1>2. \A q \in Proc : ~Commits(q)  BY <1>0, Zenon DEF IInv, CountInv
  <1>3. head = <<>>  BY <1>0, <1>2, Zenon DEF IInv, LogInv, Commits, Running
  <1>4. /\ IsFiniteSet(Active \ {p})
        /\ Cardinality(Active \ {p}) = outstanding - 1 /\ outstanding - 1 \in Nat
    <2>1. IsFiniteSet(Active) /\ outstanding = Cardinality(Active)  BY Zenon DEF IInv, CountInv
    <2>2. IsFiniteSet(Active \ {p}) /\ Cardinality(Active \ {p}) = Cardinality(Active) - 1
      BY <1>0, <2>1, FS_RemoveElement, Zenon
    <2>3. Cardinality(Active \ {p}) \in Nat  BY <2>2, FS_CardinalityType, Zenon
    <2> QED  BY <2>1, <2>2, <2>3, Zenon
  <1>5. TypeOK' /\ CountInv' /\ BusyInv' /\ LogInv'
    <2>1. CASE outstanding' = 0
      <3>1. committing' = TRUE /\ tail' = 1
            /\ pc' = [pc EXCEPT ![p] = IF lh = <<>> THEN "done" ELSE "write_log"]
        BY <2>1, Zenon DEF end_op, EndOp, Goto
      <3>2. Active' = Active \ {p}  BY <1>0, <3>1, Zenon DEF Active, InOp, IInv, TypeOK
      <3>3. Active' = {}  BY <1>1, <1>4, <2>1, <3>2, FS_EmptySet, Zenon
      <3>4. TypeOK'  BY <1>1, <1>4, <3>1, Zenon DEF IInv, TypeOK, disk, cache
      <3>5. CountInv'
        BY <1>0, <1>1, <1>2, <1>4, <3>1, <3>2, <3>3, Zenon
           DEF IInv, CountInv, Commits, Running, SleepersHaveReason, TypeOK
      <3>6. BusyInv'
        BY <1>0, <1>1, <3>1, Zenon DEF IInv, BusyInv, TypeOK, cache
      <3>7. LogInv'
        BY <1>0, <1>1, <1>2, <1>3, <3>1
           DEF IInv, LogInv, Running, Commits, Distinct, Blocks, TypeOK, disk, cache
      <3> QED  BY <3>4, <3>5, <3>6, <3>7, Zenon
    <2>2. CASE outstanding' # 0
      <3>1. UNCHANGED <<committing, tail>>
            /\ pc' = [q \in Proc |-> IF q = p THEN "idle"
                        ELSE IF pc[q] = "asleep" THEN "begin" ELSE pc[q]]
        BY <2>2, Zenon DEF end_op, EndOp, WakeAndGoto
      <3>2. Active' = Active \ {p}  BY <1>0, <3>1, Zenon DEF Active, InOp, IInv, TypeOK
      <3>3. Active' # {}  BY <1>1, <1>4, <2>2, <3>2, FS_EmptySet, Zenon
      <3>4. TypeOK'  BY <1>1, <1>4, <3>1, Zenon DEF IInv, TypeOK, disk, cache
      <3>5. CountInv'
        BY <1>0, <1>1, <1>2, <1>4, <3>1, <3>2, <3>3, Zenon
           DEF IInv, CountInv, Commits, Running, SleepersHaveReason, TypeOK
      <3>6. BusyInv'
        BY <1>0, <1>1, <3>1, Zenon DEF IInv, BusyInv, TypeOK, cache
      <3>7. LogInv'
        BY <1>0, <1>1, <1>2, <1>3, <3>1
           DEF IInv, LogInv, Running, Commits, Distinct, Blocks, TypeOK, disk, cache
      <3> QED  BY <3>4, <3>5, <3>6, <3>7, Zenon
    <2> QED  BY <2>1, <2>2, Zenon
  <1> QED  BY <1>5, Zenon DEF IInv

----------------------------------------------------------------------------
(* The commit: while a process commits, no call is in progress and no      *)
(* buffer is busy.                                                         *)
LEMMA Committer ==
    ASSUME IInv, NEW p \in Proc, Commits(p)
    PROVE  /\ committing /\ Active = {} /\ outstanding = 0 /\ Running
           /\ \A q \in Proc : Commits(q) => q = p
           /\ \A b \in Block : busy[b] = NoProc
  <1>1. committing /\ Active = {} /\ \A q \in Proc : Commits(q) => q = p
    BY Zenon DEF IInv, CountInv
  <1>2. outstanding = 0  BY <1>1, FS_EmptySet, Zenon DEF IInv, CountInv
  <1>3. Running  BY Zenon DEF IInv, CountInv, Commits
  <1>4. ASSUME NEW b \in Block, busy[b] # NoProc PROVE FALSE
    <2>1. busy[b] \in Proc /\ pc[busy[b]] \in {"check", "append"}
      BY <1>4, Zenon DEF IInv, BusyInv, TypeOK
    <2> QED  BY <1>1, <2>1, Zenon DEF Active, InOp
  <1> QED  BY <1>1, <1>2, <1>3, <1>4, Zenon

(* A step of the committer that keeps committing.                          *)
LEMMA CommitGoesOn ==
    ASSUME IInv, NEW p \in Proc, Commits(p), mode' = mode,
           NEW l \in {"write_log", "install", "done"}, pc' = [pc EXCEPT ![p] = l],
           UNCHANGED <<outstanding, committing>>
    PROVE  CountInv' /\ \A q \in Proc : q # p => pc'[q] = pc[q] /\ ~Commits(q)'
  <1>1. /\ committing /\ Active = {} /\ outstanding = 0 /\ Running
        /\ \A q \in Proc : Commits(q) => q = p
    BY Committer, Zenon
  <1>2. Active' = Active  BY <1>1, Zenon DEF Active, InOp, IInv, TypeOK
  <1>3. \A q \in Proc : q # p => pc'[q] = pc[q] /\ ~Commits(q)'
    BY <1>1, Zenon DEF IInv, TypeOK, Commits
  <1>4. CountInv'
    BY <1>1, <1>2, <1>3, Zenon DEF IInv, CountInv, SleepersHaveReason, Running
  <1> QED  BY <1>3, <1>4, Zenon

LEMMA write_logInv == ASSUME IInv, NEW p \in Proc, write_log(p) PROVE IInv'
  <1> USE LogAssumption
  <1>0. /\ pc[p] = "write_log" /\ mode = "run" /\ Commits(p) /\ tail <= Len(lh)
        /\ slot' = [slot EXCEPT ![tail] = buf[lh[tail]]] /\ tail' = tail + 1
        /\ UNCHANGED <<home, head, cache, log, pc, wrote, mode>>
    BY Zenon DEF write_log, At, Commits
  <1>1. pc' = [pc EXCEPT ![p] = "write_log"]  BY <1>0, Zenon DEF IInv, TypeOK
  <1>2. CountInv' /\ \A q \in Proc : Commits(q) => q = p
    BY <1>0, <1>1, CommitGoesOn, Committer, Zenon DEF log
  <1>3. tail \in 1 .. Len(lh) /\ tail \in Slot /\ lh[tail] \in Block
    BY <1>0 DEF IInv, TypeOK, LogInv, Slot
  <1>4. TypeOK'  BY <1>0, <1>3 DEF IInv, TypeOK, cache, log
  <1>5. BusyInv'  BY <1>0, Zenon DEF IInv, BusyInv, cache
  <1>6. LogInv'
    <2>1. \A k \in 1 .. Len(lh) : k < tail' => slot'[k] = buf[lh[k]]
      <3> SUFFICES ASSUME NEW k \in 1 .. Len(lh), k < tail + 1 PROVE slot'[k] = buf[lh[k]]
        BY <1>0, Zenon
      <3>1. CASE k = tail  BY <1>0, <1>3, <3>1, Zenon DEF IInv, TypeOK
      <3>2. CASE k < tail  BY <1>0, <1>3, <3>2 DEF IInv, TypeOK, LogInv
      <3> QED  BY <1>3, <3>1, <3>2
    <2>2. \A q \in Proc : pc[q] \notin {"install", "done"}  BY <1>0, <1>2, Zenon DEF Commits
    <2> QED
      BY <1>0, <1>3, <2>1, <2>2 DEF IInv, LogInv, TypeOK, Running, Distinct, Blocks, cache, log
  <1> QED  BY <1>2, <1>4, <1>5, <1>6, Zenon DEF IInv

LEMMA write_headInv == ASSUME IInv, NEW p \in Proc, write_head(p) PROVE IInv'
  <1> USE LogAssumption
  <1>0. /\ pc[p] = "write_log" /\ mode = "run" /\ Commits(p) /\ tail > Len(lh)
        /\ head' = lh /\ tail' = 1 /\ pc' = [pc EXCEPT ![p] = "install"]
        /\ UNCHANGED <<home, slot, cache, log, wrote, mode>>
    BY Zenon DEF write_head, At, Commits, Goto
  <1>1. CountInv' /\ \A q \in Proc : q # p => pc'[q] = pc[q] /\ ~Commits(q)'
    BY <1>0, CommitGoesOn, Zenon DEF log
  <1>2. TypeOK'  BY <1>0, Zenon DEF IInv, TypeOK, cache, log
  <1>3. BusyInv'
    BY <1>0, Committer, Zenon DEF BusyInv, cache
  <1>4. head = <<>>
    <2>1. \A q \in Proc : pc[q] # "install"  BY <1>0, Committer, Zenon DEF Commits
    <2> QED  BY <1>0, <2>1, Zenon DEF IInv, LogInv, Running
  <1>5. \A k \in 1 .. Len(lh) : slot[k] = buf[lh[k]] /\ lh[k] \in dirty
    BY <1>0, <1>4 DEF IInv, LogInv, TypeOK, Running, Blocks
  <1>6. LogInv'
    BY <1>0, <1>1, <1>5
       DEF IInv, LogInv, TypeOK, Running, Commits, Distinct, Blocks, Installed, cache, log
  <1> QED  BY <1>1, <1>2, <1>3, <1>6, Zenon DEF IInv

(* InstallBlock copies the log's block number tail to its home: the blocks *)
(* up to it are home, the others are as they were.                         *)
LEMMA InstallFacts ==
    ASSUME IInv, InstallBlock, UNCHANGED <<slot, lh>>, head = lh, Installed
    PROVE  /\ tail \in 1 .. Len(lh) /\ tail \in Slot /\ lh[tail] \in Block
           /\ home' \in [Block -> Data] /\ buf' \in [Block -> Data]
           /\ dirty' \in SUBSET Block /\ tail' \in Nat /\ tail' >= 1
           /\ Installed'
           /\ \A b \in Block : b # lh[tail] => home'[b] = home[b] /\ buf'[b] = buf[b]
           /\ home'[lh[tail]] = slot[tail] /\ buf'[lh[tail]] = slot[tail]
  <1> USE LogAssumption
  <1>0. /\ tail <= Len(lh)
        /\ home' = [home EXCEPT ![lh[tail]] = slot[tail]]
        /\ buf' = [buf EXCEPT ![lh[tail]] = slot[tail]]
        /\ dirty' = dirty \ {lh[tail]} /\ tail' = tail + 1
    BY Zenon DEF InstallBlock
  <1>1. tail \in 1 .. Len(lh) /\ tail \in Slot /\ lh[tail] \in Block
    BY <1>0 DEF IInv, TypeOK, LogInv, Slot
  <1>2. /\ home' \in [Block -> Data] /\ buf' \in [Block -> Data]
        /\ \A b \in Block : b # lh[tail] => home'[b] = home[b] /\ buf'[b] = buf[b]
        /\ home'[lh[tail]] = slot[tail] /\ buf'[lh[tail]] = slot[tail]
    BY <1>0, <1>1, Zenon DEF IInv, TypeOK
  <1>3. dirty' \in SUBSET Block /\ tail' \in Nat /\ tail' >= 1
    BY <1>0, <1>1 DEF IInv, TypeOK
  <1>4. ASSUME NEW k \in 1 .. Len(lh), k < tail + 1 PROVE home'[lh[k]] = slot[k]
    <2>1. CASE k = tail  BY <1>2, <2>1, Zenon
    <2>2. CASE k # tail
      <3>1. k < tail /\ lh[k] # lh[tail] /\ lh[k] \in Block
        BY <1>1, <1>4, <2>2 DEF IInv, LogInv, Distinct, TypeOK
      <3> QED  BY <1>2, <3>1, Zenon DEF Installed
    <2> QED  BY <2>1, <2>2, Zenon
  <1>5. Installed'  BY <1>0, <1>4, Zenon DEF Installed
  <1> QED  BY <1>1, <1>2, <1>3, <1>5, Zenon

LEMMA install_transInv == ASSUME IInv, NEW p \in Proc, install_trans(p) PROVE IInv'
  <1> USE LogAssumption
  <1>0. /\ pc[p] = "install" /\ mode = "run" /\ Commits(p) /\ InstallBlock
        /\ UNCHANGED <<slot, head, busy, log, pc, wrote, mode>>
    BY Zenon DEF install_trans, At, Commits
  <1>1. pc' = [pc EXCEPT ![p] = "install"]  BY <1>0, Zenon DEF IInv, TypeOK
  <1>2. CountInv' /\ \A q \in Proc : Commits(q) => q = p
    BY <1>0, <1>1, CommitGoesOn, Committer, Zenon DEF log
  <1>3. /\ head = lh /\ Installed
        /\ \A k \in 1 .. Len(lh) : slot[k] = buf[lh[k]]
        /\ \A k \in 1 .. Len(lh) : k >= tail => lh[k] \in dirty
    BY <1>0, Zenon DEF IInv, LogInv
  <1>4. /\ tail \in 1 .. Len(lh) /\ lh[tail] \in Block
        /\ home' \in [Block -> Data] /\ buf' \in [Block -> Data]
        /\ dirty' \in SUBSET Block /\ tail' \in Nat /\ tail' >= 1
        /\ Installed'
        /\ \A b \in Block : b # lh[tail] => home'[b] = home[b] /\ buf'[b] = buf[b]
        /\ home'[lh[tail]] = slot[tail] /\ buf'[lh[tail]] = slot[tail]
    BY <1>0, <1>3, InstallFacts, Zenon DEF log
  <1>5. buf' = buf  BY <1>3, <1>4 DEF IInv, TypeOK
  <1>6. TypeOK'  BY <1>0, <1>4, Zenon DEF IInv, TypeOK, log
  <1>7. BusyInv'  BY <1>0, Zenon DEF IInv, BusyInv
  <1>8. LogInv'
    <2>1. tail' = tail + 1 /\ dirty' = dirty \ {lh[tail]} /\ lh' = lh
      BY <1>0, Zenon DEF InstallBlock, log
    <2>2. ASSUME NEW k \in 1 .. Len(lh), k >= tail + 1 PROVE lh[k] \in dirty'
      BY <1>3, <1>4, <2>1, <2>2 DEF IInv, LogInv, Distinct, TypeOK
    <2>3. \A b \in Block : b \notin Blocks(lh) => b # lh[tail]  BY <1>4, Zenon DEF Blocks
    <2>4. \A q \in Proc : pc[q] \notin {"write_log", "done"}  BY <1>0, <1>2, Zenon DEF Commits
    <2>5. head # <<>>  BY <1>3, <1>4 DEF IInv, TypeOK
    <2>6. UNCHANGED <<slot, head, busy, lh, pc, mode>>  BY <1>0, <2>1, Zenon
    <2>7. Running /\ Running'  BY <1>0, <2>6, Zenon DEF Running
    <2>8. /\ Distinct(lh') /\ Len(lh') <= NLOG - 1 /\ Distinct(head') /\ Len(head') <= NLOG - 1
          /\ tail' >= 1
      BY <1>4, <2>6 DEF IInv, LogInv, Distinct
    <2>9. \A b \in Block : busy'[b] = NoProc /\ b \notin Blocks(lh') => buf'[b] = home'[b]
      <3> SUFFICES ASSUME NEW b \in Block, busy[b] = NoProc, b \notin Blocks(lh)
                   PROVE  buf'[b] = home'[b]
        BY <2>6, Zenon DEF Blocks
      <3>1. buf[b] = home[b]  BY <2>7, Zenon DEF IInv, LogInv
      <3> QED  BY <1>4, <2>3, <3>1, Zenon
    <2>10. ASSUME NEW q \in Proc PROVE
             /\ pc'[q] = "write_log" =>
                  \A k \in 1 .. Len(lh') : k < tail' => slot'[k] = buf'[lh'[k]]
             /\ pc'[q] = "install" =>
                  /\ head' = lh' /\ Installed'
                  /\ \A k \in 1 .. Len(lh') : slot'[k] = buf'[lh'[k]]
                  /\ \A k \in 1 .. Len(lh') : k >= tail' => lh'[k] \in dirty'
             /\ pc'[q] = "done" => lh' = <<>>
      BY <1>3, <1>4, <1>5, <2>1, <2>2, <2>4, <2>6, Zenon
    <2>11. mode' # "replay" /\ \E q \in Proc : pc'[q] = "install"  BY <1>0, <2>6, Zenon
    <2> QED  BY <2>5, <2>6, <2>7, <2>8, <2>9, <2>10, <2>11, Zenon DEF LogInv
  <1> QED  BY <1>2, <1>6, <1>7, <1>8, Zenon DEF IInv

(* When the header is erased every block of the log is home.               *)
LEMMA AllInstalled ==
    ASSUME IInv, head = lh, Installed, tail > Len(lh)
    PROVE  \A k \in 1 .. Len(lh) : home[lh[k]] = slot[k]
  BY DEF Installed, IInv, TypeOK

LEMMA EraseLogInv == ASSUME IInv, NEW p \in Proc, EraseLog(p) PROVE IInv'
  <1> USE LogAssumption
  <1>0. /\ pc[p] = "install" /\ mode = "run" /\ Commits(p)
        /\ tail > Len(lh) /\ lh' = <<>> /\ head' = <<>> /\ tail' = 1
        /\ pc' = [pc EXCEPT ![p] = "done"]
        /\ UNCHANGED <<home, slot, cache, outstanding, committing, wrote, mode>>
    BY Zenon DEF EraseLog, At, Commits, ClearLog, Goto
  <1>1. CountInv' /\ \A q \in Proc : q # p => pc'[q] = pc[q] /\ ~Commits(q)'
    BY <1>0, CommitGoesOn, Zenon
  <1>2. TypeOK'  BY <1>0, EmptyLog, Zenon DEF IInv, TypeOK, cache
  <1>3. BusyInv'  BY <1>0, Committer, Zenon DEF BusyInv, cache
  <1>4. \A b \in Block : buf[b] = home[b]
    <2>1. /\ head = lh /\ Installed
          /\ \A k \in 1 .. Len(lh) : slot[k] = buf[lh[k]]
      BY <1>0, Zenon DEF IInv, LogInv
    <2>2. \A b \in Blocks(lh) : buf[b] = home[b]  BY <1>0, <2>1, AllInstalled DEF Blocks
    <2>3. \A b \in Block : busy[b] = NoProc /\ Running  BY <1>0, Committer, Zenon
    <2> QED  BY <2>2, <2>3, Zenon DEF IInv, LogInv
  <1>5. LogInv'
    BY <1>0, <1>1, <1>4, EmptyLog
       DEF IInv, LogInv, TypeOK, Running, Commits, cache
  <1> QED  BY <1>1, <1>2, <1>3, <1>5, Zenon DEF IInv

LEMMA CommitDoneInv == ASSUME IInv, NEW p \in Proc, CommitDone(p) PROVE IInv'
  <1> USE LogAssumption
  <1>0. /\ pc[p] = "done" /\ mode = "run" /\ Commits(p) /\ committing' = FALSE
        /\ pc' = [q \in Proc |-> IF q = p THEN "idle"
                    ELSE IF pc[q] = "asleep" THEN "begin" ELSE pc[q]]
        /\ UNCHANGED <<disk, cache, lh, outstanding, wrote, tail, mode>>
    BY Zenon DEF CommitDone, At, Commits, WakeAndGoto
  <1>1. /\ committing /\ Active = {} /\ outstanding = 0 /\ Running /\ lh = <<>>
        /\ \A q \in Proc : Commits(q) => q = p
        /\ \A b \in Block : busy[b] = NoProc
    BY <1>0, Committer, Zenon DEF IInv, LogInv
  <1>2. TypeOK'  BY <1>0, Zenon DEF IInv, TypeOK, disk, cache
  <1>3. Active' = {} /\ \A q \in Proc : ~Commits(q)' /\ pc'[q] # "asleep"
    BY <1>0, <1>1, Zenon DEF Active, InOp, Commits, IInv, TypeOK
  <1>4. CountInv'
    BY <1>0, <1>1, <1>3, FS_EmptySet, Zenon DEF CountInv, SleepersHaveReason, Running
  <1>5. BusyInv'  BY <1>0, <1>1, Zenon DEF BusyInv, cache
  <1>6. head = <<>>  BY <1>0, <1>1, Zenon DEF IInv, LogInv, Commits
  <1>7. LogInv'
    BY <1>0, <1>1, <1>3, <1>6, EmptyLog, Zenon
       DEF IInv, LogInv, Running, Commits, disk, cache
  <1> QED  BY <1>2, <1>4, <1>5, <1>7, Zenon DEF IInv

----------------------------------------------------------------------------
(* Recovery, before any process runs.                                      *)
LEMMA read_headInv == ASSUME IInv, read_head PROVE IInv'
  <1> USE LogAssumption
  <1>0. /\ mode = "boot" /\ mode' = "replay" /\ lh' = head /\ tail' = 1
        /\ UNCHANGED <<disk, cache, outstanding, committing, pc, wrote>>
    BY Zenon DEF read_head
  <1>1. \A p \in Proc : pc[p] = "idle"  BY <1>0, Zenon DEF IInv, CountInv, Running
  <1>2. TypeOK'  BY <1>0, Zenon DEF IInv, TypeOK, disk, cache
  <1>3. CountInv'
    BY <1>0, <1>1, Zenon DEF IInv, CountInv, Active, InOp, Commits, Running, SleepersHaveReason
  <1>4. BusyInv'  BY <1>0, Zenon DEF IInv, BusyInv, cache
  <1>5. LogInv'
    BY <1>0, <1>1 DEF IInv, LogInv, TypeOK, Running, Distinct, Installed, disk, cache
  <1> QED  BY <1>2, <1>3, <1>4, <1>5, Zenon DEF IInv

LEMMA ReplayInv == ASSUME IInv, Replay PROVE IInv'
  <1> USE LogAssumption
  <1>0. /\ mode = "replay" /\ InstallBlock
        /\ UNCHANGED <<slot, head, busy, log, pc, wrote, mode>>
    BY Zenon DEF Replay
  <1>1. \A p \in Proc : pc[p] = "idle"  BY <1>0, Zenon DEF IInv, CountInv, Running
  <1>2. lh = head /\ Installed /\ buf = home  BY <1>0, Zenon DEF IInv, LogInv, Running
  <1>3. /\ home' \in [Block -> Data] /\ buf' \in [Block -> Data]
        /\ dirty' \in SUBSET Block /\ tail' \in Nat /\ tail' >= 1
        /\ Installed' /\ lh[tail] \in Block
        /\ \A b \in Block : b # lh[tail] => home'[b] = home[b] /\ buf'[b] = buf[b]
        /\ home'[lh[tail]] = slot[tail] /\ buf'[lh[tail]] = slot[tail]
    BY <1>0, <1>2, InstallFacts, Zenon DEF log
  <1>4. buf' = home'  BY <1>2, <1>3
  <1>5. TypeOK'  BY <1>0, <1>3, Zenon DEF IInv, TypeOK, log
  <1>6. CountInv'
    BY <1>0, <1>1, Zenon DEF IInv, CountInv, Active, InOp, Commits, Running, SleepersHaveReason, log
  <1>7. BusyInv'  BY <1>0, Zenon DEF IInv, BusyInv
  <1>8. LogInv'
    BY <1>0, <1>1, <1>2, <1>3, <1>4 DEF IInv, LogInv, Running, Distinct, Blocks, log
  <1> QED  BY <1>5, <1>6, <1>7, <1>8, Zenon DEF IInv

LEMMA recover_from_logInv == ASSUME IInv, recover_from_log PROVE IInv'
  <1> USE LogAssumption
  <1>0. /\ mode = "replay" /\ mode' = "run"
        /\ tail > Len(lh) /\ lh' = <<>> /\ head' = <<>> /\ tail' = 1
        /\ UNCHANGED <<home, slot, cache, outstanding, committing, pc, wrote>>
    BY Zenon DEF recover_from_log, ClearLog
  <1>1. (\A p \in Proc : pc[p] = "idle") /\ buf = home
    BY <1>0, Zenon DEF IInv, CountInv, LogInv, Running
  <1>2. TypeOK'  BY <1>0, EmptyLog, Zenon DEF IInv, TypeOK, cache
  <1>3. CountInv'
    BY <1>0, <1>1, NoneActive, Zenon
       DEF IInv, CountInv, Active, InOp, Commits, Running, SleepersHaveReason
  <1>4. BusyInv'  BY <1>0, Zenon DEF IInv, BusyInv, cache
  <1>5. LogInv'
    BY <1>0, <1>1, EmptyLog DEF IInv, LogInv, Running, cache
  <1> QED  BY <1>2, <1>3, <1>4, <1>5, Zenon DEF IInv

(* A clean buffer holds what is on disk, so that bget() loses nothing when *)
(* it recycles it.                                                         *)
LEMMA CleanBuffers ==
    ASSUME IInv, mode = "run", NEW b \in Block, Evictable(b)
    PROVE  buf[b] = home[b]
  <1>0. busy[b] = NoProc /\ b \notin dirty  BY Zenon DEF Evictable
  <1>1. CASE b \notin Blocks(lh)  BY <1>0, <1>1, Zenon DEF IInv, LogInv, Running
  <1>2. CASE b \in Blocks(lh)
    <2>1. head # <<>>  BY <1>0, <1>2, Zenon DEF IInv, LogInv, Running
    <2>2. PICK p \in Proc : pc[p] = "install"  BY <2>1, Zenon DEF IInv, LogInv, Running
    <2>3. PICK k \in 1 .. Len(lh) : lh[k] = b  BY <1>2, Zenon DEF Blocks
    <2>4. k < tail  BY <1>0, <2>2, <2>3 DEF IInv, LogInv, TypeOK
    <2> QED  BY <2>2, <2>3, <2>4, Zenon DEF IInv, LogInv, Installed
  <1> QED  BY <1>1, <1>2, Zenon

LEMMA bgetInv == ASSUME IInv, NEW b \in Block, bget(b) PROVE IInv'
  <1>0. mode = "run" /\ Evictable(b) /\ buf' = [buf EXCEPT ![b] = home[b]]
        /\ UNCHANGED <<disk, dirty, busy, log, pc, wrote, tail, mode>>
    BY Zenon DEF bget
  <1>1. buf' = buf  BY <1>0, CleanBuffers, Zenon DEF IInv, TypeOK
  <1>2. TypeOK'  BY <1>0, <1>1, Zenon DEF IInv, TypeOK, disk, log
  <1>3. CountInv'
    BY <1>0, Zenon DEF IInv, CountInv, Active, InOp, Commits, Running, SleepersHaveReason, log
  <1>4. BusyInv'  BY <1>0, Zenon DEF IInv, BusyInv
  <1>5. LogInv'
    BY <1>0, <1>1 DEF IInv, LogInv, Running, Distinct, Blocks, Installed, disk, log
  <1> QED  BY <1>2, <1>3, <1>4, <1>5, Zenon DEF IInv

LEMMA CrashInv == ASSUME IInv, Crash PROVE IInv'
  <1> USE LogAssumption
  <1>0. /\ head' = head /\ buf' = home' /\ dirty' = {} /\ busy' = [b \in Block |-> NoProc]
        /\ lh' = <<>> /\ outstanding' = 0 /\ committing' = FALSE
        /\ pc' = [p \in Proc |-> "idle"] /\ wrote' = [p \in Proc |-> {}]
        /\ tail' = 1 /\ mode' = "boot"
    BY Zenon DEF Crash
  <1>1. home' \in [Block -> Data] /\ slot' \in [Slot -> Data]
    BY Zenon DEF Crash, IInv, TypeOK, Data
  <1>2. TypeOK'  BY <1>0, <1>1, EmptyLog, Zenon DEF IInv, TypeOK
  <1>3. CountInv'
    <2>1. \A p \in Proc : pc'[p] = "idle"  BY <1>0, Zenon
    <2>2. Active' = {} /\ \A p \in Proc : ~Commits(p)'  BY <2>1, Zenon DEF Active, InOp, Commits
    <2> QED  BY <1>0, <2>1, <2>2, FS_EmptySet, Zenon DEF CountInv, Running, SleepersHaveReason
  <1>4. BusyInv'  BY <1>0, Zenon DEF BusyInv
  <1>5. LogInv'
    BY <1>0, EmptyLog DEF IInv, LogInv, Running, Distinct
  <1> QED  BY <1>2, <1>3, <1>4, <1>5, Zenon DEF IInv

LEMMA NextInv == IInv /\ [Next]_vars => IInv'
  <1> SUFFICES ASSUME IInv, [Next]_vars PROVE IInv'  BY Zenon
  <1>1. CASE UNCHANGED vars
    BY <1>1 DEF vars, disk, cache, log, IInv, TypeOK, CountInv, BusyInv, LogInv, Active, InOp,
       Commits, Running, Distinct, Installed, Blocks, SleepersHaveReason
  <1>2. ASSUME NEW p \in Proc, Step(p) PROVE IInv'
    BY <1>2, begin_opInv, BeginSleepInv, ModifyInv, LogPanicInv, LogCheckInv, LogAppendInv,
       end_opInv, write_logInv, write_headInv, install_transInv, EraseLogInv, CommitDoneInv, Zenon
       DEF Step
  <1> QED
    BY <1>1, <1>2, read_headInv, ReplayInv, recover_from_logInv, bgetInv, CrashInv, Zenon DEF Next

----------------------------------------------------------------------------
(* log.c keeps the types of its fields and of the disk's blocks.           *)
THEOREM LogTypeCorrect == Spec => []TypeOK
  <1>1. IInv => TypeOK  BY Zenon DEF IInv
  <1> QED  BY <1>1, InitInv, NextInv, PTL DEF Spec

(* No lost wakeup in begin_op()/end_op(), for any number of processes and  *)
(* any size of the log.                                                    *)
THEOREM LogSleepersSafe == Spec => []SleepersHaveReason
  <1>1. IInv => SleepersHaveReason  BY Zenon DEF IInv, CountInv
  <1> QED  BY <1>1, InitInv, NextInv, PTL DEF Spec

(* log_write() pins every logged block until commit() has written it to    *)
(* the log.                                                                *)
THEOREM LogPins == Spec => []LoggedArePinned
  BY InvImplies, InitInv, NextInv, PTL DEF Spec

(* log.outstanding is the number of calls that are executing.              *)
THEOREM LogOutstanding == Spec => []OutstandingCounts
  BY InvImplies, InitInv, NextInv, PTL DEF Spec

----------------------------------------------------------------------------
(* The refinement.  Recovered, as a function of the disk.                  *)
After(h, s, hd) ==
    [b \in Block |-> IF b \in Blocks(hd)
                     THEN s[CHOOSE k \in 1 .. Len(hd) : hd[k] = b]
                     ELSE h[b]]

LEMMA AfterFacts ==
    ASSUME NEW h, NEW s, NEW hd \in Seq(Block), Distinct(hd)
    PROVE  /\ \A b \in Block : b \notin Blocks(hd) => After(h, s, hd)[b] = h[b]
           /\ \A k \in 1 .. Len(hd) : After(h, s, hd)[hd[k]] = s[k]
  <1>1. \A b \in Block : b \notin Blocks(hd) => After(h, s, hd)[b] = h[b]
    BY Zenon DEF After
  <1>2. ASSUME NEW k \in 1 .. Len(hd) PROVE After(h, s, hd)[hd[k]] = s[k]
    <2>1. hd[k] \in Blocks(hd) /\ hd[k] \in Block  BY DEF Blocks
    <2>2. (CHOOSE j \in 1 .. Len(hd) : hd[j] = hd[k]) = k  BY Zenon DEF Distinct
    <2> QED  BY <2>1, <2>2, Zenon DEF After
  <1> QED  BY <1>1, <1>2, Zenon

(* Disks that agree on the blocks of the log and elsewhere recover alike.  *)
LEMMA SameRecovery ==
    ASSUME NEW h1, NEW s1, NEW h2, NEW s2, NEW hd \in Seq(Block), Distinct(hd),
           \A b \in Block : b \notin Blocks(hd) => h1[b] = h2[b],
           \A k \in 1 .. Len(hd) : s1[k] = s2[k]
    PROVE  After(h1, s1, hd) = After(h2, s2, hd)
  <1> SUFFICES ASSUME NEW b \in Block
               PROVE  After(h1, s1, hd)[b] = After(h2, s2, hd)[b]
    BY Zenon DEF After
  <1>1. CASE b \notin Blocks(hd)  BY <1>1, AfterFacts
  <1>2. CASE b \in Blocks(hd)
    <2>1. PICK k \in 1 .. Len(hd) : hd[k] = b  BY <1>2, Zenon DEF Blocks
    <2>2. After(h1, s1, hd)[hd[k]] = s1[k] /\ After(h2, s2, hd)[hd[k]] = s2[k]
      BY AfterFacts
    <2> QED  BY <2>1, <2>2, Zenon
  <1> QED  BY <1>1, <1>2, Zenon

(* A disk with f on it, and perhaps in the log, recovers to f.             *)
LEMMA RecoversTo ==
    ASSUME NEW h, NEW s, NEW hd \in Seq(Block), Distinct(hd), NEW f \in [Block -> Data],
           \A b \in Block : b \notin Blocks(hd) => h[b] = f[b],
           \A k \in 1 .. Len(hd) : s[k] = f[hd[k]]
    PROVE  After(h, s, hd) = f
  <1> SUFFICES ASSUME NEW b \in Block PROVE After(h, s, hd)[b] = f[b]
    BY Zenon DEF After
  <1>1. CASE b \notin Blocks(hd)  BY <1>1, AfterFacts
  <1>2. CASE b \in Blocks(hd)
    <2>1. PICK k \in 1 .. Len(hd) : hd[k] = b  BY <1>2, Zenon DEF Blocks
    <2>2. After(h, s, hd)[hd[k]] = s[k]  BY AfterFacts
    <2> QED  BY <2>1, <2>2, Zenon
  <1> QED  BY <1>1, <1>2, Zenon

LEMMA RecoveredIs == Recovered = After(home, slot, head)
  BY Zenon DEF Recovered, After

(* What the file system calls see.                                         *)
Current == IF mode \in {"boot", "replay"} THEN Recovered ELSE buf

(* Steps that leave the disk alone, and what calls see of it.              *)
LEMMA StutterRefines ==
    ASSUME UNCHANGED <<disk, buf, outstanding>>, Running' = Running
    PROVE  UNCHANGED <<Recovered, Current, outstanding>>
  <1>1. Recovered' = Recovered  BY DEF Recovered, disk
  <1> QED  BY <1>1, Zenon DEF Current, Running

(* Modify() is the promise's Write.                                        *)
LEMMA ModifyRefines == ASSUME IInv, NEW p \in Proc, Modify(p) PROVE Promise!Write
  <1>1. PICK b \in Block, v \in Value : buf' = [buf EXCEPT ![b] = v]  BY Zenon DEF Modify
  <1>2. outstanding > 0 /\ Running /\ Running' /\ outstanding' = outstanding
    BY CallGoesOn, Zenon DEF Modify, At, Goto, Running, log
  <1>3. Recovered' = Recovered  BY DEF Modify, Recovered, disk
  <1>4. Current = buf /\ Current' = buf'  BY <1>2, Zenon DEF Current, Running
  <1>5. buf'[b] \in Value /\ buf' = [buf EXCEPT ![b] = buf'[b]]
    BY <1>1, Zenon DEF IInv, TypeOK
  <1> QED  BY <1>2, <1>3, <1>4, <1>5, Zenon DEF Promise!Write, Current

(* The write of the header is the commit: no call is half done.            *)
LEMMA write_headRefines == ASSUME IInv, NEW p \in Proc, write_head(p) PROVE Promise!Commit
  <1>0. /\ pc[p] = "write_log" /\ mode = "run" /\ Commits(p) /\ tail > Len(lh)
        /\ head' = lh
        /\ UNCHANGED <<home, slot, cache, log, mode>>
    BY Zenon DEF write_head, At, Commits
  <1>1. outstanding = 0 /\ Running /\ \A b \in Block : busy[b] = NoProc
    BY <1>0, Committer, Zenon
  <1>2. \A k \in 1 .. Len(lh) : slot[k] = buf[lh[k]]  BY <1>0 DEF IInv, LogInv, TypeOK
  <1>3. \A b \in Block : b \notin Blocks(lh) => home[b] = buf[b]
    BY <1>1, Zenon DEF IInv, LogInv
  <1>4. After(home, slot, lh) = buf
    <2>1. lh \in Seq(Block) /\ Distinct(lh) /\ buf \in [Block -> Data]
      BY Zenon DEF IInv, TypeOK, LogInv
    <2> QED  BY <1>2, <1>3, <2>1, RecoversTo
  <1>5. Recovered' = buf
    <2>1. Recovered' = After(home', slot', head')  BY Zenon DEF Recovered, After
    <2> QED  BY <1>0, <1>4, <2>1, Zenon
  <1>6. Current = buf /\ Current' = buf  BY <1>0, Zenon DEF Current, cache
  <1> QED  BY <1>0, <1>1, <1>5, <1>6, Zenon DEF Promise!Commit, Current, log

(* Installing a block, in a commit or in a recovery, does not change what  *)
(* the disk recovers to.                                                   *)
LEMMA InstallRefines ==
    ASSUME IInv, InstallBlock, UNCHANGED <<slot, lh, head>>, head = lh, Installed
    PROVE  Recovered' = Recovered
  <1>1. lh[tail] \in Blocks(head)
    BY InstallFacts, Zenon DEF Blocks
  <1>2. \A b \in Block : b \notin Blocks(head) => home'[b] = home[b]
    BY <1>1, InstallFacts, Zenon
  <1>3. After(home', slot', head) = After(home, slot, head)
    BY <1>2, SameRecovery DEF IInv, TypeOK, LogInv
  <1> QED  BY <1>3, RecoveredIs, Zenon DEF Recovered, After

(* Erasing the header of an installed log does not either.                 *)
LEMMA EraseRefines ==
    ASSUME IInv, ClearLog, UNCHANGED <<home, slot>>, head = lh, Installed
    PROVE  Recovered' = Recovered /\ Recovered = home
  <1>0. tail > Len(lh) /\ head' = <<>>  BY Zenon DEF ClearLog
  <1>1. \A k \in 1 .. Len(lh) : home[lh[k]] = slot[k]  BY <1>0, AllInstalled, Zenon
  <1>2. head \in Seq(Block) /\ Distinct(head) /\ home \in [Block -> Data]
    BY Zenon DEF IInv, TypeOK, LogInv
  <1>3. After(home, slot, head) = home
    <2>1. \A k \in 1 .. Len(head) : slot[k] = home[head[k]]  BY <1>1, Zenon
    <2>2. \A b \in Block : b \notin Blocks(head) => home[b] = home[b]  BY Zenon
    <2> QED  BY <1>2, <2>1, <2>2, RecoversTo, SMTT(60)
  <1>4. After(home, slot, <<>>) = home
    <2>1. After(home, slot, <<>>) = [b \in Block |-> home[b]]  BY EmptyLog, Zenon DEF After
    <2> QED  BY <1>2, <2>1, Zenon
  <1>5. Recovered = After(home, slot, head) /\ Recovered' = After(home', slot', head')
    BY Zenon DEF Recovered, After
  <1> QED  BY <1>0, <1>3, <1>4, <1>5, Zenon

(* A crash, even in the middle of a disk write, takes the disk back to     *)
(* what was committed.                                                     *)
LEMMA CrashRefines == ASSUME IInv, Crash PROVE Promise!Crash
  <1>0. mode' = "boot" /\ outstanding' = 0 /\ head' = head  BY Zenon DEF Crash
  <1>1. Recovered' = Recovered
    <2>1. CASE UNCHANGED <<home, slot>>  BY <1>0, <2>1 DEF Recovered
    <2>2. CASE WritingLog /\ slot' = [slot EXCEPT ![tail] = Torn] /\ home' = home
      <3>1. PICK p \in Proc : pc[p] = "write_log" /\ Running
        BY <2>2, Zenon DEF WritingLog, At, Running
      <3>2. \A q \in Proc : pc[q] # "install"  BY <3>1, Committer, Zenon DEF Commits
      <3>3. head = <<>>  BY <3>1, <3>2, Zenon DEF IInv, LogInv
      <3> QED  BY <1>0, <2>2, <3>3, EmptyLog, Zenon DEF Recovered
    <2>3. CASE Installing /\ home' = [home EXCEPT ![lh[tail]] = Torn] /\ slot' = slot
      <3>1. tail <= Len(lh) /\ head = lh  BY <2>3, Zenon DEF Installing, At, IInv, LogInv
      <3>2. lh[tail] \in Blocks(head)  BY <3>1 DEF Blocks, IInv, LogInv, TypeOK
      <3>3. \A b \in Block : b \notin Blocks(head) => home'[b] = home[b]
        BY <2>3, <3>2, Zenon DEF IInv, TypeOK
      <3>4. After(home', slot', head) = After(home, slot, head)
        <4>1. head \in Seq(Block) /\ Distinct(head)  BY Zenon DEF IInv, TypeOK, LogInv
        <4>2. \A k \in 1 .. Len(head) : slot'[k] = slot[k]  BY <2>3, Zenon
        <4> QED  BY <3>3, <4>1, <4>2, SameRecovery
      <3> QED  BY <1>0, <3>4, Zenon DEF Recovered, After
    <2> QED  BY <2>1, <2>2, <2>3, Zenon DEF Crash
  <1>2. Current' = Recovered'  BY <1>0, Zenon DEF Current
  <1> QED  BY <1>0, <1>1, <1>2, Zenon DEF Promise!Crash, Current

(* log.c implements an atomic disk: whatever the interleaving of calls and *)
(* wherever the machine stops, what comes back is the disk at a moment     *)
(* when no call was half done, with every finished commit.                 *)
THEOREM LogRefinesAtomicDisk == Spec => ImplementsAtomicDisk
  <1>1. Init => Promise!DiskInit
    <2> SUFFICES ASSUME Init PROVE Promise!DiskInit  BY Zenon
    <2>1. Recovered = [b \in Block |-> home[b]]  BY EmptyLog, Zenon DEF Init, Recovered
    <2>2. Recovered = home /\ Current = Recovered /\ outstanding = 0
      BY <2>1, Zenon DEF Init, Current
    <2> QED  BY <2>2, Zenon DEF Init, Promise!DiskInit, Current
  <1>2. IInv /\ [Next]_vars => [Promise!DiskNext]_(Promise!diskVars)
    <2> SUFFICES ASSUME IInv, [Next]_vars
                 PROVE  Promise!DiskNext \/ UNCHANGED <<Recovered, Current, outstanding>>
      BY Zenon DEF Promise!diskVars, Current
    <2>1. CASE UNCHANGED vars
      BY <2>1, StutterRefines, Zenon DEF vars, disk, cache, log, Running
    <2>2. ASSUME NEW p \in Proc, begin_op(p) PROVE Promise!Begin
      <3>1. UNCHANGED <<Recovered, Current>>
        BY <2>2 DEF begin_op, Recovered, Current, disk, cache
      <3> QED  BY <2>2, <3>1, Zenon DEF begin_op, Promise!Begin, Current
    <2>3. ASSUME NEW p \in Proc, end_op(p) PROVE Promise!End
      <3>1. p \in Active /\ ~committing /\ mode = "run"
        BY <2>3, Zenon DEF end_op, At, Active, InOp, IInv, CountInv
      <3>2. outstanding > 0
        <4>1. outstanding # 0  BY <3>1, FS_EmptySet, Zenon DEF IInv, CountInv
        <4> QED  BY <4>1 DEF IInv, TypeOK
      <3>3. UNCHANGED <<Recovered, Current>>
        BY <2>3, <3>1 DEF end_op, EndOp, Recovered, Current, disk, cache
      <3> QED  BY <2>3, <3>2, <3>3, Zenon DEF end_op, EndOp, Ended, Promise!End, Current
    <2>4. ASSUME NEW p \in Proc, BeginSleep(p) \/ LogPanic(p) \/ LogCheck(p) \/ LogAppend(p)
                                 \/ LogOverrun(p) \/ CommitDone(p)
          PROVE  UNCHANGED <<Recovered, Current, outstanding>>
      <3>1. UNCHANGED <<disk, buf, outstanding>> /\ Running' = Running
        BY <2>4, Zenon DEF BeginSleep, LogPanic, LogCheck, LogAppend, LogOverrun, CommitDone, At,
             Running, disk, cache, log
      <3> QED  BY <3>1, StutterRefines, Zenon
    <2>5. ASSUME NEW p \in Proc, write_log(p)
          PROVE  UNCHANGED <<Recovered, Current, outstanding>>
      <3>1. pc[p] = "write_log" /\ Commits(p) /\ Running
        BY <2>5, Zenon DEF write_log, At, Commits, Running
      <3>2. \A q \in Proc : pc[q] # "install"  BY <3>1, Committer, Zenon DEF Commits
      <3>3. head = <<>>  BY <3>1, <3>2, Zenon DEF IInv, LogInv
      <3> QED
        BY <2>5, <3>1, <3>3, EmptyLog, Zenon DEF write_log, Recovered, Current, Running, cache, log
    <2>6. ASSUME NEW p \in Proc, install_trans(p)
          PROVE  UNCHANGED <<Recovered, Current, outstanding>>
      <3>1. /\ pc[p] = "install" /\ mode = "run" /\ InstallBlock
            /\ UNCHANGED <<slot, head, busy, log, mode>>
        BY <2>6, Zenon DEF install_trans, At
      <3>2. head = lh /\ Installed /\ \A k \in 1 .. Len(lh) : slot[k] = buf[lh[k]]
        BY <3>1, Zenon DEF IInv, LogInv
      <3>3. Recovered' = Recovered  BY <3>1, <3>2, InstallRefines, Zenon DEF log
      <3>4. buf' = buf
        <4>1. tail \in 1 .. Len(lh) /\ buf' = [buf EXCEPT ![lh[tail]] = slot[tail]]
          BY <3>1, <3>2, InstallFacts, Zenon DEF InstallBlock, log
        <4> QED  BY <3>2, <4>1, Zenon DEF IInv, TypeOK
      <3> QED  BY <3>1, <3>3, <3>4, Zenon DEF Current, log
    <2>7. ASSUME NEW p \in Proc, EraseLog(p)
          PROVE  UNCHANGED <<Recovered, Current, outstanding>>
      <3>1. /\ pc[p] = "install" /\ mode = "run" /\ ClearLog
            /\ UNCHANGED <<home, slot, cache, outstanding, mode>>
        BY <2>7, Zenon DEF EraseLog, At
      <3>2. head = lh /\ Installed  BY <3>1, Zenon DEF IInv, LogInv
      <3> QED  BY <3>1, <3>2, EraseRefines, Zenon DEF Current, cache
    <2>8. ASSUME NEW p \in Proc, Step(p)
          PROVE  Promise!DiskNext \/ UNCHANGED <<Recovered, Current, outstanding>>
      BY <2>2, <2>3, <2>4, <2>5, <2>6, <2>7, <2>8, ModifyRefines, write_headRefines, Zenon
         DEF Step, Promise!DiskNext
    <2>9. CASE read_head
      BY <2>9, StutterRefines, Zenon DEF read_head, Running, cache
    <2>10. CASE Replay
      <3>1. /\ mode = "replay" /\ mode' = mode /\ InstallBlock
            /\ UNCHANGED <<slot, head, busy, log, mode>>
        BY <2>10, Zenon DEF Replay
      <3>2. head = lh /\ Installed  BY <3>1, Zenon DEF IInv, LogInv
      <3>3. Recovered' = Recovered  BY <3>1, <3>2, InstallRefines, Zenon DEF log
      <3> QED  BY <3>1, <3>3, Zenon DEF Current, log
    <2>11. CASE recover_from_log
      <3>1. /\ mode = "replay" /\ mode' = "run" /\ ClearLog
            /\ UNCHANGED <<home, slot, cache, outstanding>>
        BY <2>11, Zenon DEF recover_from_log
      <3>2. head = lh /\ Installed /\ buf = home  BY <3>1, Zenon DEF IInv, LogInv, Running
      <3> QED  BY <3>1, <3>2, EraseRefines, Zenon DEF Current, cache
    <2>12. ASSUME NEW b \in Block, bget(b)
           PROVE  UNCHANGED <<Recovered, Current, outstanding>>
      <3>1. mode = "run" /\ Evictable(b) /\ buf' = [buf EXCEPT ![b] = home[b]]
            /\ UNCHANGED <<disk, log, mode>>
        BY <2>12, Zenon DEF bget
      <3>2. buf' = buf  BY <3>1, CleanBuffers, Zenon DEF IInv, TypeOK
      <3> QED  BY <3>1, <3>2, StutterRefines, Zenon DEF Running, log
    <2>13. CASE Crash  BY <2>13, CrashRefines, Zenon DEF Promise!DiskNext
    <2> QED  BY <2>1, <2>8, <2>9, <2>10, <2>11, <2>12, <2>13, Zenon DEF Next
  <1> QED
    BY <1>1, <1>2, InitInv, NextInv, PTL DEF Spec, ImplementsAtomicDisk, Promise!DiskSpec

----------------------------------------------------------------------------
(* The log's size.  The log is one that mkfs makes, nlog = LOGSIZE, with   *)
(* the header in it (or one block longer), and it is larger than what one  *)
(* call reserves.                                                          *)
MkfsLog == LOGSIZE <= NLOG /\ MAXOPBLOCKS \in 1 .. LOGSIZE - 1

(* No call in progress has modified as many blocks as begin_op() counts    *)
(* for it.  Nothing makes calls do so: OpBlocks is any number.  As many    *)
(* would be too many: log_write() wants room even for a block that the log *)
(* already has, so that calls which fill the log panic when they log one   *)
(* again.                                                                  *)
Frugal == \A p \in Proc : Cardinality(wrote[p]) < MAXOPBLOCKS

(* The most a frugal call modifies.                                        *)
Share == MAXOPBLOCKS - 1

(* The blocks frugal calls in progress can still add, one by one.          *)
LeftOf(A, w, bs) == {x \in A \X (1 .. Share) : x[2] > Cardinality(w[x[1]] \cap bs)}

Left == LeftOf(Active, wrote, Blocks(lh))

(* log_write()'s checks pass at n blocks.                                  *)
Fits(n) == n < LOGSIZE /\ n < NLOG - 1

WroteInv == \A p \in Proc : IsFiniteSet(wrote[p])
ShareInv == Running => IsFiniteSet(Left) /\ Fits(Len(lh) + Cardinality(Left))

SizeInv == WroteInv /\ ShareInv /\ LogFits

LEMMA LeftShrinks ==
    ASSUME NEW A, NEW B \in SUBSET A, NEW w, NEW v, NEW bs, NEW cs,
           \A q \in B : w[q] \cap bs \subseteq v[q] \cap cs /\ IsFiniteSet(v[q])
    PROVE  LeftOf(B, v, cs) \subseteq LeftOf(A, w, bs)
  <1> SUFFICES ASSUME NEW x \in LeftOf(B, v, cs) PROVE x \in LeftOf(A, w, bs)  BY Zenon
  <1>1. x \in B \X (1 .. Share) /\ x[2] > Cardinality(v[x[1]] \cap cs)  BY Zenon DEF LeftOf
  <1>2. x[1] \in B /\ x[2] \in Int  BY <1>1
  <1> DEFINE S == w[x[1]] \cap bs
             T == v[x[1]] \cap cs
  <1>3. S \subseteq T /\ IsFiniteSet(v[x[1]])  BY <1>2, Zenon
  <1>4. IsFiniteSet(T)
    <2>1. T \subseteq v[x[1]]  BY Zenon
    <2> QED  BY <1>3, <2>1, FS_Subset, Zenon
  <1>5. Cardinality(S) <= Cardinality(T) /\ IsFiniteSet(S)
    <2> HIDE DEF S, T
    <2> QED  BY <1>3, <1>4, FS_Subset, Zenon
  <1>6. Cardinality(S) \in Nat /\ Cardinality(T) \in Nat
    <2> HIDE DEF S, T
    <2> QED  BY <1>4, <1>5, FS_CardinalityType, Zenon
  <1>7. x[2] > Cardinality(T)  BY <1>1, Zenon
  <1>8. x[2] > Cardinality(S)
    <2> HIDE DEF S, T
    <2> QED  BY <1>2, <1>5, <1>6, <1>7
  <1> QED  BY <1>1, <1>8, Zenon DEF LeftOf

(* A step that adds no call and no block to the log.                       *)
LEMMA ShareKept ==
    ASSUME LogAssumption, IInv, SizeInv, WroteInv', Running, lh' = lh,
           Active' \subseteq Active, \A q \in Active' : wrote[q] \subseteq wrote'[q]
    PROVE  ShareInv'
  <1>1. Left' \subseteq Left
    <2>1. \A q \in Active' : wrote[q] \cap Blocks(lh) \subseteq wrote'[q] \cap Blocks(lh)
                             /\ IsFiniteSet(wrote'[q])
      BY Zenon DEF WroteInv, Active
    <2>2. LeftOf(Active', wrote', Blocks(lh)) \subseteq LeftOf(Active, wrote, Blocks(lh))
      <3> DEFINE A == Active
                 B == Active'
      <3>1. B \in SUBSET A  BY Zenon
      <3>2. \A q \in B : wrote[q] \cap Blocks(lh) \subseteq wrote'[q] \cap Blocks(lh)
                         /\ IsFiniteSet(wrote'[q])
        BY <2>1, Zenon
      <3> HIDE DEF A, B
      <3>3. LeftOf(B, wrote', Blocks(lh)) \subseteq LeftOf(A, wrote, Blocks(lh))
        BY <3>1, <3>2, LeftShrinks, Zenon
      <3> QED  BY <3>3, Zenon DEF A, B
    <2>3. Left' = LeftOf(Active', wrote', Blocks(lh))  BY DEF Left, LeftOf, Blocks
    <2> QED  BY <2>2, <2>3, Zenon DEF Left
  <1>2. IsFiniteSet(Left) /\ Fits(Len(lh) + Cardinality(Left))  BY Zenon DEF SizeInv, ShareInv
  <1>3. IsFiniteSet(Left') /\ Cardinality(Left') <= Cardinality(Left)
    BY <1>1, <1>2, FS_Subset, Zenon
  <1>4. Cardinality(Left) \in Nat /\ Cardinality(Left') \in Nat
    BY <1>2, <1>3, FS_CardinalityType, Zenon
  <1>5. Fits(Len(lh) + Cardinality(Left'))
    <2>1. Len(lh) \in Nat  BY DEF IInv, TypeOK
    <2> QED  BY <1>2, <1>3, <1>4, <2>1 DEF Fits, LogAssumption
  <1> QED  BY <1>3, <1>5, Zenon DEF ShareInv, Fits

(* What begin_op()'s Room leaves to the calls it lets in: n blocks are in  *)
(* the log, the calls of A are in progress, the new one included.          *)
LEMMA Admitted ==
    ASSUME LogAssumption, MkfsLog, NEW A, IsFiniteSet(A), NEW k \in Nat,
           Cardinality(A) = k + 1, NEW n \in Nat, n + (k + 1) * MAXOPBLOCKS <= LOGSIZE,
           k = 0 => n = 0, NEW w, NEW bs
    PROVE  IsFiniteSet(LeftOf(A, w, bs)) /\ Fits(n + Cardinality(LeftOf(A, w, bs)))
  <1> DEFINE R == A \X (1 .. Share)
             L == LeftOf(A, w, bs)
  <1> USE LogAssumption DEF LogAssumption
  <1>1. IsFiniteSet(1 .. Share) /\ Cardinality(1 .. Share) = Share
    <2>1. Share \in Nat /\ 1 \in Int /\ Share \in Int  BY DEF Share, MkfsLog
    <2>2. /\ IsFiniteSet(1 .. Share)
          /\ Cardinality(1 .. Share) = IF 1 > Share THEN 0 ELSE Share - 1 + 1
      BY <2>1, FS_Interval, Zenon
    <2>3. (IF 1 > Share THEN 0 ELSE Share - 1 + 1) = Share  BY <2>1
    <2> QED  BY <2>2, <2>3, Zenon
  <1>2. IsFiniteSet(R) /\ Cardinality(R) = (k + 1) * Share
    <2> DEFINE B == 1 .. Share
    <2>1. IsFiniteSet(B) /\ Cardinality(B) = Share  BY <1>1, Zenon
    <2> HIDE DEF B
    <2>2. IsFiniteSet(A \X B) /\ Cardinality(A \X B) = Cardinality(A) * Cardinality(B)
      BY <2>1, FS_Product, Zenon
    <2> QED  BY <2>1, <2>2, Zenon DEF B
  <1>3. L \subseteq R  BY Zenon DEF LeftOf
  <1> HIDE DEF R, L
  <1>4. IsFiniteSet(L) /\ Cardinality(L) <= (k + 1) * Share  BY <1>2, <1>3, FS_Subset, Zenon
  <1>5. Cardinality(L) \in Nat  BY <1>4, FS_CardinalityType, Zenon
  <1>6. Fits(n + Cardinality(L))
    <2>1. Share \in Nat /\ MAXOPBLOCKS = Share + 1  BY DEF Share, MkfsLog
    <2>2. (k + 1) * MAXOPBLOCKS = (k + 1) * Share + (k + 1)  BY <2>1
    <2>3. (k + 1) * Share \in Int  BY <2>1
    <2>4. n + Cardinality(L) <= LOGSIZE - (k + 1)  BY <1>4, <1>5, <2>2, <2>3
    <2>5. CASE k = 0
      <3>1. n + Cardinality(L) <= Share  BY <1>4, <1>5, <2>1, <2>5
      <3> QED  BY <1>5, <2>1, <3>1 DEF MkfsLog, Fits
    <2>6. CASE k >= 1  BY <1>5, <2>4, <2>6 DEF MkfsLog, Fits
    <2> QED  BY <2>5, <2>6
  <1> QED  BY <1>4, <1>6, Zenon DEF L

LEMMA begin_opSize == ASSUME MkfsLog, IInv, SizeInv, NEW p \in Proc, begin_op(p) PROVE SizeInv'
  <1> USE LogAssumption
  <1>0. /\ mode = "run" /\ mode' = mode /\ ~committing /\ UNCHANGED <<lh, wrote>>
        /\ Len(lh) + (outstanding + 1) * MAXOPBLOCKS <= LOGSIZE
        /\ outstanding' = outstanding + 1
    BY Zenon DEF begin_op, At, Room
  <1>1. IsFiniteSet(Active') /\ Cardinality(Active') = outstanding + 1 /\ outstanding \in Nat
    BY <1>0, begin_opInv, Zenon DEF IInv, CountInv, TypeOK
  <1>2. outstanding = 0 => Len(lh) = 0
    <2>1. outstanding = 0 => Active = {}  BY FS_EmptySet, Zenon DEF IInv, CountInv
    <2> QED  BY <1>0, <2>1, Zenon DEF IInv, CountInv, Running
  <1>3. Len(lh) \in Nat  BY DEF IInv, TypeOK
  <1>4. /\ IsFiniteSet(LeftOf(Active', wrote, Blocks(lh)))
        /\ Fits(Len(lh) + Cardinality(LeftOf(Active', wrote, Blocks(lh))))
    <2> DEFINE A == Active'
    <2>1. IsFiniteSet(A) /\ Cardinality(A) = outstanding + 1  BY <1>1, Zenon
    <2> HIDE DEF A
    <2>2. /\ IsFiniteSet(LeftOf(A, wrote, Blocks(lh)))
          /\ Fits(Len(lh) + Cardinality(LeftOf(A, wrote, Blocks(lh))))
      BY <1>0, <1>1, <1>2, <1>3, <2>1, Admitted, Zenon
    <2> QED  BY <2>2, Zenon DEF A
  <1>5. Left' = LeftOf(Active', wrote, Blocks(lh))  BY <1>0 DEF Left, LeftOf, Blocks
  <1>6. ShareInv'  BY <1>0, <1>4, <1>5, Zenon DEF ShareInv, Fits
  <1> QED  BY <1>0, <1>6, Zenon DEF SizeInv, WroteInv, LogFits

LEMMA ModifySize == ASSUME IInv, SizeInv, NEW p \in Proc, Modify(p) PROVE SizeInv'
  <1> USE LogAssumption
  <1>1. PICK b \in Block : wrote' = [wrote EXCEPT ![p] = @ \cup {b}]  BY Zenon DEF Modify
  <1>2. /\ pc[p] = "op" /\ mode = "run" /\ mode' = mode /\ lh' = lh
        /\ pc' = [pc EXCEPT ![p] = "check"]
    BY Zenon DEF Modify, At, Goto, log
  <1>3. WroteInv'
    <2>1. IsFiniteSet(wrote[p])  BY Zenon DEF SizeInv, WroteInv
    <2>2. IsFiniteSet(wrote[p] \cup {b})  BY <2>1, FS_AddElement, Zenon
    <2>3. \A q \in Proc : wrote'[q] = IF q = p THEN wrote[p] \cup {b} ELSE wrote[q]
      BY <1>1, Zenon DEF IInv, TypeOK
    <2> QED  BY <2>2, <2>3, Zenon DEF SizeInv, WroteInv
  <1>4. Active' \subseteq Active  BY <1>2, Zenon DEF Active, InOp, IInv, TypeOK
  <1>5. \A q \in Active' : wrote[q] \subseteq wrote'[q]
    BY <1>1, Zenon DEF Active, IInv, TypeOK
  <1>6. ShareInv'  BY <1>2, <1>3, <1>4, <1>5, ShareKept, Zenon DEF Running
  <1> QED  BY <1>2, <1>3, <1>6, Zenon DEF SizeInv, LogFits

(* log_write() of a block the log did not have uses up one of its call's   *)
(* shares.                                                                 *)
LEMMA LogAppendSize == ASSUME MkfsLog, Frugal, IInv, SizeInv, NEW p \in Proc, LogAppend(p) PROVE SizeInv'
  <1> USE LogAssumption
  <1>1. PICK b \in Block : busy[b] = p /\ lh' = Absorb(b)
    BY Zenon DEF LogAppend
  <1>2. /\ pc[p] = "append" /\ mode = "run" /\ mode' = mode /\ wrote' = wrote
        /\ pc' = [pc EXCEPT ![p] = "op"]
    BY Zenon DEF LogAppend, At, Goto
  <1>3. Active' = Active /\ p \in Active  BY <1>2, Zenon DEF Active, InOp, IInv, TypeOK
  <1>4. WroteInv'  BY <1>2, Zenon DEF SizeInv, WroteInv
  <1>5. CASE b \in Blocks(lh)
    <2>1. lh' = lh  BY <1>1, <1>5, Zenon DEF Absorb
    <2>2. ShareInv'  BY <1>2, <1>3, <1>4, <2>1, ShareKept, Zenon DEF Running
    <2> QED  BY <1>2, <1>4, <2>2, Zenon DEF SizeInv, LogFits
  <1>6. CASE b \notin Blocks(lh)
    <2>1. Blocks(lh') = Blocks(lh) \cup {b} /\ Len(lh') = Len(lh) + 1
      BY <1>1, <1>6, AbsorbFacts, Zenon DEF IInv, LogInv
    <2>2. b \in wrote[p]
      <3>1. busy[b] # NoProc  BY <1>1, Zenon DEF LogAssumption
      <3> QED  BY <1>1, <3>1, Zenon DEF IInv, BusyInv
    <2> DEFINE S == wrote[p] \cap Blocks(lh)
               T == wrote[p] \cap (Blocks(lh) \cup {b})
               x == <<p, Cardinality(T)>>
               L == LeftOf(Active, wrote, Blocks(lh))
               M == LeftOf(Active, wrote, Blocks(lh) \cup {b})
    <2>3. IsFiniteSet(wrote[p]) /\ Cardinality(wrote[p]) < MAXOPBLOCKS
      BY Zenon DEF SizeInv, WroteInv, Frugal
    <2>4. IsFiniteSet(S) /\ IsFiniteSet(T) /\ Cardinality(T) <= Cardinality(wrote[p])
      BY <2>3, FS_Intersection, Zenon
    <2>5. T = S \cup {b} /\ b \notin S  BY <1>6, <2>2, Zenon
    <2>6. Cardinality(T) = Cardinality(S) + 1
      <3> HIDE DEF S, T
      <3>1. Cardinality(S \cup {b}) = Cardinality(S) + 1  BY <2>4, <2>5, FS_AddElement, Zenon
      <3> QED  BY <2>5, <3>1, Zenon
    <2>7. Cardinality(S) \in Nat /\ Cardinality(T) \in Nat /\ Cardinality(wrote[p]) \in Nat
      BY <2>3, <2>4, FS_CardinalityType, Zenon
    <2>8. x \in L
      <3>1. Cardinality(T) \in 1 .. Share
        <4> HIDE DEF S, T
        <4> QED  BY <2>3, <2>4, <2>6, <2>7 DEF LogAssumption, MkfsLog, Share
      <3>2. Cardinality(T) > Cardinality(S)
        <4> HIDE DEF S, T
        <4> QED  BY <2>6, <2>7
      <3>3. x \in Active \X (1 .. Share) /\ x[1] = p /\ x[2] = Cardinality(T)
        BY <1>3, <3>1, Zenon
      <3> QED  BY <3>2, <3>3, Zenon DEF LeftOf
    <2>9. x \notin M
      <3> SUFFICES ASSUME x \in M PROVE FALSE  BY Zenon
      <3>1. x[2] > Cardinality(wrote[x[1]] \cap (Blocks(lh) \cup {b}))  BY Zenon DEF LeftOf
      <3>2. x[1] = p /\ x[2] = Cardinality(T)  BY Zenon
      <3>3. Cardinality(T) > Cardinality(T)  BY <3>1, <3>2, Zenon
      <3> QED
        <4> HIDE DEF T
        <4> QED  BY <2>7, <3>3
    <2>10. M \subseteq L
      <3>1. \A q \in Active : /\ wrote[q] \cap Blocks(lh) \subseteq wrote[q] \cap (Blocks(lh) \cup {b})
                              /\ IsFiniteSet(wrote[q])
        BY Zenon DEF SizeInv, WroteInv, Active
      <3> QED  BY <3>1, LeftShrinks, Zenon
    <2>11. IsFiniteSet(L) /\ Fits(Len(lh) + Cardinality(L))
      BY <1>2, Zenon DEF SizeInv, ShareInv, Left, Running
    <2>12. IsFiniteSet(M) /\ Cardinality(M) <= Cardinality(L) - 1
      <3> HIDE DEF L, M, x
      <3>1. IsFiniteSet(L \ {x}) /\ Cardinality(L \ {x}) = Cardinality(L) - 1
        BY <2>8, <2>11, FS_RemoveElement, Zenon
      <3>2. M \subseteq L \ {x}  BY <2>9, <2>10, Zenon
      <3>3. IsFiniteSet(M) /\ Cardinality(M) <= Cardinality(L \ {x})
        BY <3>1, <3>2, FS_Subset, Zenon
      <3> QED  BY <3>1, <3>3, Zenon
    <2>13. Cardinality(L) \in Nat /\ Cardinality(M) \in Nat
      <3> HIDE DEF L, M
      <3> QED  BY <2>11, <2>12, FS_CardinalityType, Zenon
    <2>14. Fits(Len(lh) + 1 + Cardinality(M))
      <3> HIDE DEF L, M
      <3>1. Len(lh) \in Nat  BY DEF IInv, TypeOK
      <3> QED  BY <2>11, <2>12, <2>13, <3>1 DEF Fits, LogAssumption
    <2>15. Left' = M
      BY <1>2, <1>3, <2>1, Zenon DEF Left, LeftOf
    <2>16. ShareInv'  BY <2>1, <2>12, <2>14, <2>15, Zenon DEF ShareInv, Fits
    <2> QED  BY <1>2, <1>4, <2>16, Zenon DEF SizeInv, LogFits
  <1> QED  BY <1>5, <1>6, Zenon

(* log_write() finds room, whenever it looks and whenever it appends.      *)
LEMMA LogNeverPanics == ASSUME IInv, SizeInv, NEW p \in Proc PROVE ~LogPanic(p) /\ ~LogOverrun(p)
  <1> USE LogAssumption DEF LogAssumption
  <1>0. SUFFICES ASSUME LogPanic(p) \/ LogOverrun(p) PROVE FALSE  BY Zenon
  <1>1. mode = "run" /\ pc[p] \in {"check", "append"}  BY <1>0, Zenon DEF LogPanic, LogOverrun, At
  <1>2. IsFiniteSet(Left) /\ Fits(Len(lh) + Cardinality(Left))
    BY <1>1, Zenon DEF SizeInv, ShareInv, Running
  <1>3. Cardinality(Left) \in Nat /\ Len(lh) \in Nat
    BY <1>2, FS_CardinalityType DEF IInv, TypeOK
  <1>4. Fits(Len(lh))  BY <1>2, <1>3 DEF Fits
  <1>5. outstanding >= 1
    <2>1. p \in Active  BY <1>1, Zenon DEF Active, InOp
    <2> QED  BY <2>1, FS_EmptySet DEF IInv, CountInv, TypeOK
  <1>6. ~TooBig
    BY <1>3, <1>4, <1>5 DEF TooBig, Fits, IInv, TypeOK
  <1>7. PICK b \in Block : Len(Absorb(b)) > NLOG - 1
    BY <1>0, <1>6, Zenon DEF LogPanic, LogOverrun
  <1>8. Len(Absorb(b)) = IF b \in Blocks(lh) THEN Len(lh) ELSE Len(lh) + 1
    BY AbsorbFacts, Zenon DEF IInv, LogInv
  <1> QED  BY <1>3, <1>4, <1>7, <1>8 DEF Fits

(* A step after which no call is in progress and the log has not grown, or *)
(* the machine is not running.                                             *)
LEMMA QuietSize ==
    ASSUME IInv, SizeInv, \A q \in Proc : wrote'[q] = wrote[q] \/ wrote'[q] = {},
           mode' \in {"boot", "replay", "run"},
           Running' => Active' = {} /\ (lh' = <<>> \/ (Running /\ lh' = lh)), MkfsLog
    PROVE  SizeInv'
  <1> USE LogAssumption DEF LogAssumption
  <1>1. WroteInv'
    <2>1. IsFiniteSet({})  BY FS_EmptySet, Zenon
    <2> SUFFICES ASSUME NEW q \in Proc PROVE IsFiniteSet(wrote'[q])  BY Zenon DEF WroteInv
    <2>2. CASE wrote'[q] = {}  BY <2>1, <2>2, Zenon
    <2>3. CASE wrote'[q] = wrote[q]  BY <2>3, Zenon DEF SizeInv, WroteInv
    <2> QED  BY <2>2, <2>3, Zenon
  <1>2. ShareInv'
    <2> SUFFICES ASSUME Running' PROVE IsFiniteSet(Left') /\ Fits(Len(lh') + Cardinality(Left'))
      BY Zenon DEF ShareInv, Fits
    <2>1. Left' = {}  BY Zenon DEF Left, LeftOf
    <2>2. IsFiniteSet(Left') /\ Cardinality(Left') = 0  BY <2>1, FS_EmptySet, Zenon
    <2>3. CASE lh' = <<>>
      BY <2>2, <2>3 DEF Fits, MkfsLog
    <2>4. CASE Running /\ lh' = lh
      <3>1. IsFiniteSet(Left) /\ Fits(Len(lh) + Cardinality(Left))
        BY <2>4, Zenon DEF SizeInv, ShareInv
      <3>2. Cardinality(Left) \in Nat  BY <3>1, FS_CardinalityType, Zenon
      <3>3. lh \in Seq(Block)  BY Zenon DEF IInv, TypeOK
      <3>4. Len(lh) \in Nat  BY <3>3
      <3> QED  BY <2>2, <2>4, <3>1, <3>2, <3>4 DEF Fits
    <2> QED  BY <2>3, <2>4, Zenon
  <1> QED  BY <1>1, <1>2, Zenon DEF SizeInv, LogFits

LEMMA end_opSize == ASSUME IInv, SizeInv, NEW p \in Proc, end_op(p) PROVE SizeInv'
  <1>1. pc[p] = "op" /\ mode = "run" /\ p \in Active /\ ~committing
    BY Zenon DEF end_op, At, Active, InOp, IInv, CountInv
  <1>2. mode' = mode /\ lh' = lh /\ wrote' = [wrote EXCEPT ![p] = {}]
    BY <1>1, Zenon DEF end_op, EndOp
  <1>3. \A q \in Proc : wrote'[q] = IF q = p THEN {} ELSE wrote[q]
    BY <1>2, Zenon DEF IInv, TypeOK
  <1>4. Active' \subseteq Active \ {p}
    <2>1. \/ \E l \in {"done", "write_log"} : pc' = [pc EXCEPT ![p] = l]
          \/ pc' = [q \in Proc |-> IF q = p THEN "idle"
                                   ELSE IF pc[q] = "asleep" THEN "begin" ELSE pc[q]]
      BY Zenon DEF end_op, EndOp, Goto, WakeAndGoto
    <2> QED  BY <2>1, Zenon DEF Active, InOp, IInv, TypeOK
  <1>5. WroteInv'
    <2>1. IsFiniteSet({})  BY FS_EmptySet, Zenon
    <2> SUFFICES ASSUME NEW q \in Proc PROVE IsFiniteSet(wrote'[q])  BY Zenon DEF WroteInv
    <2>2. CASE q = p  BY <1>3, <2>1, <2>2, Zenon
    <2>3. CASE q # p  BY <1>3, <2>3, Zenon DEF SizeInv, WroteInv
    <2> QED  BY <2>2, <2>3, Zenon
  <1>6. \A q \in Active' : wrote[q] \subseteq wrote'[q]
    BY <1>3, <1>4, Zenon DEF Active
  <1>7. ShareInv'
    BY <1>1, <1>2, <1>4, <1>5, <1>6, ShareKept, LogAssumption, Zenon DEF Running
  <1> QED  BY <1>1, <1>2, <1>5, <1>7, Zenon DEF SizeInv, LogFits

LEMMA NextSize == ASSUME MkfsLog, Frugal, IInv, SizeInv, [Next]_vars PROVE SizeInv'
  <1> USE LogAssumption
  <1>1. ASSUME UNCHANGED <<lh, wrote, mode>>, Active' = Active PROVE SizeInv'
    <2>1. Left' = Left  BY <1>1 DEF Left, LeftOf, Blocks
    <2> QED  BY <1>1, <2>1, Zenon DEF SizeInv, WroteInv, ShareInv, Fits, Running, LogFits
  <1>2. CASE UNCHANGED vars
    BY <1>1, <1>2, Zenon DEF vars, log, Active, InOp
  <1>3. ASSUME NEW p \in Proc, BeginSleep(p) \/ LogCheck(p) PROVE SizeInv'
    <2>1. Active' = Active
      BY <1>3, Zenon DEF BeginSleep, LogCheck, At, Goto, Active, InOp, IInv, TypeOK
    <2> QED  BY <1>1, <1>3, <2>1, Zenon DEF BeginSleep, LogCheck, log
  <1>4. ASSUME NEW p \in Proc, write_log(p) \/ install_trans(p) PROVE SizeInv'
    <2>1. Active' = Active  BY <1>4, Zenon DEF write_log, install_trans, Active, InOp
    <2> QED  BY <1>1, <1>4, <2>1, Zenon DEF write_log, install_trans, log
  <1>5. ASSUME NEW p \in Proc, write_head(p) PROVE SizeInv'
    <2>1. Active' = Active
      BY <1>5, Zenon DEF write_head, At, Goto, Active, InOp, IInv, TypeOK
    <2> QED  BY <1>1, <1>5, <2>1, Zenon DEF write_head, log
  <1>6. ASSUME NEW p \in Proc, EraseLog(p) PROVE SizeInv'
    <2>1. pc[p] = "install" /\ mode = "run" /\ mode' = mode /\ wrote' = wrote /\ lh' = <<>>
          /\ pc' = [pc EXCEPT ![p] = "done"]
      BY <1>6, Zenon DEF EraseLog, At, Goto, ClearLog
    <2>2. Active = {}  BY <2>1, Committer, Zenon DEF Commits
    <2>3. Active' = {}  BY <2>1, <2>2, Zenon DEF Active, InOp, IInv, TypeOK
    <2>4. /\ \A q \in Proc : wrote'[q] = wrote[q] \/ wrote'[q] = {}
          /\ mode' \in {"boot", "replay", "run"}
      BY <2>1, Zenon
    <2>5. Running' => Active' = {} /\ (lh' = <<>> \/ (Running /\ lh' = lh))  BY <2>1, <2>3, Zenon DEF Running
    <2> QED  BY <2>4, <2>5, QuietSize, Zenon
  <1>7. ASSUME NEW p \in Proc, CommitDone(p) PROVE SizeInv'
    <2>1. Active' = Active
      BY <1>7, Zenon DEF CommitDone, At, WakeAndGoto, Active, InOp, IInv, TypeOK
    <2> QED  BY <1>1, <1>7, <2>1, Zenon DEF CommitDone
  <1>8. ASSUME NEW p \in Proc, Step(p) PROVE SizeInv'
    BY <1>3, <1>4, <1>5, <1>6, <1>7, <1>8, begin_opSize, ModifySize, LogAppendSize,
       end_opSize, LogNeverPanics, Zenon DEF Step
  <1>9. CASE read_head \/ Crash
    <2>1. mode' \in {"boot", "replay"} /\ \A q \in Proc : wrote'[q] = wrote[q] \/ wrote'[q] = {}
      BY <1>9, Zenon DEF read_head, Crash
    <2> QED  BY <2>1, QuietSize, Zenon DEF Running
  <1>10. CASE Replay
    BY <1>1, <1>10, Zenon DEF Replay, log, Active, InOp
  <1>11. CASE recover_from_log
    <2>1. /\ mode = "replay" /\ mode' = "run" /\ lh' = <<>> /\ wrote' = wrote /\ pc' = pc
      BY <1>11, Zenon DEF recover_from_log, ClearLog
    <2>2. Active' = {}  BY <2>1, Zenon DEF Active, InOp, IInv, CountInv, Running
    <2>3. /\ \A q \in Proc : wrote'[q] = wrote[q] \/ wrote'[q] = {}
          /\ mode' \in {"boot", "replay", "run"}
      BY <2>1, Zenon
    <2>4. Running' => Active' = {} /\ (lh' = <<>> \/ (Running /\ lh' = lh))  BY <2>1, <2>2, Zenon DEF Running
    <2> QED  BY <2>3, <2>4, QuietSize, Zenon
  <1>12. ASSUME NEW b \in Block, bget(b) PROVE SizeInv'
    BY <1>1, <1>12, Zenon DEF bget, log, Active, InOp
  <1> QED  BY <1>2, <1>8, <1>9, <1>10, <1>11, <1>12, Zenon DEF Next

LEMMA InitSize == Init => SizeInv
  <1> SUFFICES ASSUME Init PROVE SizeInv  BY Zenon
  <1>1. IsFiniteSet({})  BY FS_EmptySet, Zenon
  <1>2. WroteInv  BY <1>1, Zenon DEF Init, WroteInv
  <1> QED  BY <1>2, Zenon DEF Init, SizeInv, ShareInv, Running, LogFits

(* begin_op() reserves enough: as long as no call has modified as many     *)
(* blocks as are reserved for it, log_write() does not panic and does not  *)
(* overrun the log that mkfs makes, although it checks the size without    *)
(* the lock and other calls come and go; and outstanding counts the calls. *)
(* (LogCounts can only fail after a step that breaks Frugal, whatever the  *)
(* most is that a call may modify.)                                        *)
THEOREM LogNeverFull == ASSUME MkfsLog PROVE Spec /\ []Frugal => []LogCounts
  <1>1. Init => IInv /\ SizeInv  BY InitInv, InitSize, Zenon
  <1>2. Frugal /\ IInv /\ SizeInv /\ [Next]_vars => (IInv /\ SizeInv)'
    BY NextInv, NextSize, Zenon
  <1>3. IInv /\ SizeInv => LogCounts  BY InvImplies, Zenon DEF SizeInv, LogCounts
  <1> QED  BY <1>1, <1>2, <1>3, PTL DEF Spec
=============================================================================
