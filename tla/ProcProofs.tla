----------------------------- MODULE ProcProofs -----------------------------
(***************************************************************************)
(* Proofs about Proc.tla, for every number of slots and every set of CPUs. *)
(*                                                                         *)
(* IInv strengthens the invariants the run checks until they are           *)
(* inductive.  CpuInv says which locks a CPU holds, how deep its pushcli() *)
(* nesting is and what intena remembers, as a function of the code it is   *)
(* in; SlotInv what the table, the context and the saved intena of a slot  *)
(* are; InodeInv is about the inode lock; FamilyInv about fork, exit and   *)
(* wait.                                                                   *)
(***************************************************************************)
EXTENDS Proc, TLAPS

(* Where each process is, the timer trap included.                         *)
at == [p \in Slot |-> At(p)]

(* The code that holds ptable.lock, and the code that holds icache.lock.   *)
PtCode == {"forkret", "x_sched", "w_scan", "w_sched", "w_tidy", "s_release", "s_sleep",
           "s_sched", "s_tidy", "y_sched", "y_release"}
IcCode == {"i_test", "s_release", "u_wakeup"}

(* Back from swtch(): intena is still the one of whoever ran before.       *)
Resumed == {"forkret", "y_release", "s_tidy", "w_tidy"}

(* The pushcli() nesting at l.                                             *)
Depth(l) == IF l \in PtCode \cap IcCode THEN 2 ELSE IF l \in PtCode \cup IcCode THEN 1 ELSE 0

CpuInv ==
    /\ \A c \in CPU :
         /\ spc[c] # "panic" => (spc[c] = "run" <=> cproc[c] # None)
         /\ spc[c] = "idle" => ncli[c] = 0
         /\ spc[c] = "scan" => ncli[c] = 1 /\ ~intr[c] /\ ptlock = c
    /\ \A c, d \in CPU : cproc[c] = cproc[d] /\ cproc[c] # None => c = d
    /\ \A c \in CPU, p \in Slot : cproc[c] = p =>
         /\ ncli[c] = Depth(at[p])
         /\ intr[c] <=> (irq[p] = "none" /\ ncli[c] = 0)
         /\ at[p] \in PtCode => ptlock = c
         /\ at[p] \in IcCode => iclock = c
         /\ at[p] \in (PtCode \cup IcCode) \ Resumed => (intena[c] <=> irq[p] = "none")

(* What sleep(), exit() and yield() set just before sched().               *)
StateAt(l) == CASE l = "y_sched" -> "RUNNABLE"
                [] l \in {"s_sched", "w_sched"} -> "SLEEPING"
                [] l = "x_sched" -> "ZOMBIE"
                [] OTHER -> "RUNNING"

SlotInv == \A p \in Slot :
    /\ ctx[p] = "on" <=> \E c \in CPU : cproc[c] = p
    /\ irq[p] # "none" => pc[p] \notin PtCode \cup IcCode \cup {"x_dead"}
    /\ ctx[p] = "on" => state[p] = StateAt(at[p]) /\ at[p] # "x_dead"
    /\ ctx[p] = "off" =>
         \/ state[p] \in {"UNUSED", "EMBRYO"} /\ at[p] = "forkret"
         \/ state[p] = "RUNNABLE" /\ at[p] \in Resumed
         \/ state[p] = "SLEEPING" /\ at[p] \in {"s_tidy", "w_tidy"}
         \/ state[p] = "ZOMBIE" /\ at[p] = "x_dead"
    /\ state[p] = "SLEEPING" => chan[p] = IF at[p] \in {"s_sched", "s_tidy"} THEN Inode ELSE p
    /\ at[p] \in {"s_tidy", "w_tidy"} => saved[p]
    /\ at[p] = "y_release" => ~saved[p]

InodeInv ==
    /\ InodeExclusive
    /\ \A p \in Slot : pc[p] = "locked" => ibusy
    /\ \A p \in Slot :
         pc[p] \in {"s_release", "s_sleep"} \/ (state[p] = "SLEEPING" /\ chan[p] = Inode) =>
            ibusy \/ \E q \in Slot : pc[q] = "u_wakeup"

Forks(p) == pc[p] \in {"f_copy", "f_ready"}
Exits(p) == pc[p] \in {"x_acquire", "x_sched", "x_dead"}

FamilyInv ==
    /\ \A p \in Slot : Forks(p) =>
         /\ np[p] \in Slot /\ state[np[p]] = "EMBRYO"
         /\ parent[np[p]] = IF pc[p] = "f_copy" THEN None ELSE p
    /\ \A p, q \in Slot : Forks(p) /\ Forks(q) /\ np[p] = np[q] => p = q
    /\ \A p \in Slot : parent[p] # p /\ (state[p] = "UNUSED" => parent[p] = None)
    /\ parent[initproc] = None /\ ~Exits(initproc)
    /\ state[initproc] \notin {"UNUSED", "EMBRYO", "ZOMBIE"}
    /\ \A p \in Slot : Exits(p) => exitstatus[p] = pid[p]
    /\ ParentAlive /\ WaitersHaveReason /\ StatusExchanged

IInv == TypeOK /\ CpuInv /\ SlotInv /\ InodeInv /\ FamilyInv

----------------------------------------------------------------------------
LEMMA SlotFacts ==
    /\ initproc \in Slot /\ None \notin Slot /\ Inode \notin Slot /\ Inode # None
    /\ \A p \in Slot : p \in Nat /\ p + 1 \in 1 .. NPROC + 1
  BY ProcAssumption DEF ProcAssumption, Slot, initproc, None, Inode

LEMMA InitInv == Init => IInv
  <1> SUFFICES ASSUME Init PROVE IInv  BY Zenon
  <1> USE SlotFacts
  <1>0. \A p \in Slot : at[p] = "forkret" /\ pc[p] = "forkret" /\ irq[p] = "none"
    BY Zenon DEF Init, at, At
  <1>1. TypeOK
    <2>1. 1 \in 1 .. NPROC + 1 /\ 0 \in 0 .. 2 /\ 2 \in Nat /\ <<0, 0>> \in Nat \X Nat
      BY ProcAssumption DEF ProcAssumption
    <2>2. /\ state \in [Slot -> {"UNUSED", "EMBRYO", "SLEEPING", "RUNNABLE", "RUNNING", "ZOMBIE"}]
          /\ pid \in [Slot -> Nat] /\ parent \in [Slot -> Slot \cup {None}]
          /\ chan \in [Slot -> Slot \cup {None, Inode}] /\ np \in [Slot -> Slot \cup {None}]
          /\ killed \in [Slot -> BOOLEAN] /\ exitstatus \in [Slot -> Nat]
          /\ ctx \in [Slot -> {"on", "off"}] /\ saved \in [Slot -> BOOLEAN]
          /\ pc \in [Slot -> Labels]
          /\ irq \in [Slot -> {"none", "y_acquire", "y_sched", "y_release", "y_iret"}]
      BY Zenon DEF Init, Labels
    <2> QED  BY <2>1, <2>2, Zenon DEF Init, TypeOK
  <1>2. CpuInv  BY <1>0, Zenon DEF Init, CpuInv
  <1>3. SlotInv
    BY <1>0, Zenon DEF Init, SlotInv, PtCode, IcCode, Resumed
  <1>4. InodeInv  BY <1>0, Zenon DEF Init, InodeInv, InodeExclusive
  <1>5. FamilyInv
    BY <1>0, Zenon DEF Init, FamilyInv, Forks, Exits, ParentAlive, WaitersHaveReason, StatusExchanged
  <1> QED  BY <1>1, <1>2, <1>3, <1>4, <1>5, Zenon DEF IInv

----------------------------------------------------------------------------
(* Process p goes to m, in its system call or in the timer trap; the rest  *)
(* stay where they are.                                                    *)
Moves(p, m) ==
    /\ \A q \in Slot : at'[q] = IF q = p THEN m ELSE at[q]
    /\ \A q \in Slot \ {p} : pc'[q] = pc[q] /\ irq'[q] = irq[q]

IrqCode == {"y_acquire", "y_sched", "y_release", "y_iret"}

LEMMA OnFacts ==
    ASSUME TypeOK, NEW c \in CPU, NEW p \in Slot, NEW l, On(c, p, l)
    PROVE  /\ cproc[c] = p /\ spc[c] = "run" /\ at[p] = l
           /\ l \notin IrqCode => irq[p] = "none" /\ pc[p] = l
           /\ l \in IrqCode => irq[p] = l
  <1>1. cproc[c] = p /\ spc[c] = "run" /\ At(p) = l /\ at[p] = At(p)  BY Zenon DEF On, at
  <1>2. irq[p] \in IrqCode \cup {"none"} /\ pc[p] \in Labels  BY Zenon DEF TypeOK, IrqCode
  <1>3. Labels \cap IrqCode = {}  BY Zenon DEF Labels, IrqCode
  <1> QED  BY <1>1, <1>2, <1>3, Zenon DEF At

LEMMA GotoFacts ==
    ASSUME TypeOK, NEW p \in Slot, NEW m, m # "none", Goto(p, m)
    PROVE  /\ Moves(p, m)
           /\ irq[p] = "none" => pc'[p] = m /\ irq'[p] = "none" /\ irq' = irq
           /\ irq[p] # "none" => irq'[p] = m /\ pc'[p] = pc[p] /\ pc' = pc
  BY DEF Goto, Moves, at, At, TypeOK

(* p, on c, goes from l to m in its system call.                           *)
Steps(c, p, l, m) ==
    /\ cproc[c] = p /\ spc[c] = "run" /\ at[p] = l /\ pc[p] = l
    /\ irq[p] = "none" /\ Moves(p, m) /\ pc'[p] = m /\ irq'[p] = "none"
    /\ pc' \in [Slot -> Labels] /\ irq' = irq

(* A step of a system call from l to m, and one of the timer trap.         *)
LEMMA SyscallFacts ==
    ASSUME TypeOK, NEW c \in CPU, NEW p \in Slot, NEW l \in Labels, NEW m \in Labels,
           On(c, p, l), Goto(p, m)
    PROVE  Steps(c, p, l, m)
  <1>1. l \notin IrqCode /\ m # "none"  BY Zenon DEF Labels, IrqCode
  <1>2. cproc[c] = p /\ spc[c] = "run" /\ at[p] = l /\ pc[p] = l /\ irq[p] = "none"
    BY <1>1, OnFacts
  <1>3. Moves(p, m) /\ pc'[p] = m /\ irq'[p] = "none"  BY <1>1, <1>2, GotoFacts, Zenon
  <1>4. pc' \in [Slot -> Labels] /\ irq' = irq
    BY <1>2 DEF Goto, TypeOK
  <1> QED  BY <1>2, <1>3, <1>4, Zenon DEF Steps

LEMMA TrapFacts ==
    ASSUME TypeOK, NEW c \in CPU, NEW p \in Slot, NEW l \in IrqCode, NEW m \in IrqCode,
           On(c, p, l), Goto(p, m)
    PROVE  /\ cproc[c] = p /\ spc[c] = "run" /\ at[p] = l /\ irq[p] = l
           /\ Moves(p, m) /\ irq'[p] = m
           /\ irq' = [irq EXCEPT ![p] = m] /\ pc' = pc
           /\ irq' \in [Slot -> {"none", "y_acquire", "y_sched", "y_release", "y_iret"}]
  <1>1. l # "none" /\ m # "none"  BY Zenon DEF IrqCode
  <1>2. cproc[c] = p /\ spc[c] = "run" /\ at[p] = l /\ irq[p] = l  BY OnFacts
  <1>3. Moves(p, m) /\ irq'[p] = m  BY <1>1, <1>2, GotoFacts, Zenon
  <1>4. /\ irq' = [irq EXCEPT ![p] = m] /\ pc' = pc
        /\ irq' \in [Slot -> {"none", "y_acquire", "y_sched", "y_release", "y_iret"}]
    BY <1>1, <1>2 DEF Goto, TypeOK, IrqCode
  <1> QED  BY <1>2, <1>3, <1>4, Zenon

(* The registers' part of TypeOK.                                          *)
CpusOK ==
    /\ ncli \in [CPU -> 0 .. 2]
    /\ intena \in [CPU -> BOOLEAN] /\ intr \in [CPU -> BOOLEAN]

(* CPU c sets its own registers, and no other does.                        *)
Registers(c, n, ie, i) ==
    /\ \A d \in CPU \ {c} : ncli'[d] = ncli[d] /\ intena'[d] = intena[d] /\ intr'[d] = intr[d]
    /\ ncli'[c] = n /\ intena'[c] = ie /\ intr'[c] = i
    /\ CpusOK'

LEMMA SetRegisters ==
    ASSUME TypeOK, NEW c \in CPU, NEW n \in 0 .. 2, NEW ie \in BOOLEAN, NEW i \in BOOLEAN,
           ncli' = [ncli EXCEPT ![c] = n], intena' = [intena EXCEPT ![c] = ie],
           intr' = [intr EXCEPT ![c] = i]
    PROVE  Registers(c, n, ie, i)
  <1>1. CpusOK  BY Zenon DEF TypeOK, CpusOK
  <1> QED  BY <1>1, Zenon DEF Registers, CpusOK

(* The first and the second pushcli(), and the popcli() of each.           *)
LEMMA PushFirst ==
    ASSUME TypeOK, NEW c \in CPU, pushcli(c), ncli[c] = 0
    PROVE  Registers(c, 1, intr[c], FALSE)
  <1>1. /\ ncli' = [ncli EXCEPT ![c] = 1] /\ intena' = [intena EXCEPT ![c] = intr[c]]
        /\ intr' = [intr EXCEPT ![c] = FALSE]
    BY DEF pushcli
  <1>2. 1 \in 0 .. 2 /\ intr[c] \in BOOLEAN  BY DEF TypeOK
  <1> QED  BY <1>1, <1>2, SetRegisters, Zenon

LEMMA PushSecond ==
    ASSUME TypeOK, NEW c \in CPU, pushcli(c), ncli[c] = 1
    PROVE  Registers(c, 2, intena[c], FALSE)
  <1>1. CpusOK  BY Zenon DEF TypeOK, CpusOK
  <1>2. /\ ncli' = [ncli EXCEPT ![c] = 2] /\ intena' = [intena EXCEPT ![c] = intena[c]]
        /\ intr' = [intr EXCEPT ![c] = FALSE]
    BY <1>1 DEF pushcli, CpusOK
  <1>3. 2 \in 0 .. 2 /\ intena[c] \in BOOLEAN  BY <1>1 DEF CpusOK
  <1> QED  BY <1>2, <1>3, SetRegisters, Zenon

LEMMA PopSecond ==
    ASSUME TypeOK, NEW c \in CPU, NEW ie \in BOOLEAN, popcli(c, ie), ncli[c] = 2
    PROVE  Registers(c, 1, ie, intr[c])
  <1>1. CpusOK  BY Zenon DEF TypeOK, CpusOK
  <1>2. /\ ncli' = [ncli EXCEPT ![c] = 1] /\ intena' = [intena EXCEPT ![c] = ie]
        /\ intr' = [intr EXCEPT ![c] = intr[c]]
    BY <1>1 DEF popcli, CpusOK
  <1>3. 1 \in 0 .. 2 /\ intr[c] \in BOOLEAN  BY <1>1 DEF CpusOK
  <1> QED  BY <1>2, <1>3, SetRegisters, Zenon

LEMMA PopFirst ==
    ASSUME TypeOK, NEW c \in CPU, NEW ie \in BOOLEAN, popcli(c, ie), ncli[c] = 1
    PROVE  /\ ie => Registers(c, 0, ie, TRUE)
           /\ ~ie => Registers(c, 0, ie, intr[c])
  <1>1. CpusOK  BY Zenon DEF TypeOK, CpusOK
  <1>2. ncli' = [ncli EXCEPT ![c] = 0] /\ intena' = [intena EXCEPT ![c] = ie]
    BY <1>1 DEF popcli, CpusOK
  <1>3. 0 \in 0 .. 2 /\ intr[c] \in BOOLEAN  BY <1>1 DEF CpusOK
  <1>4. CASE ie
    <2>1. intr' = [intr EXCEPT ![c] = TRUE]  BY <1>4, Zenon DEF popcli
    <2> QED  BY <1>2, <1>3, <1>4, <2>1, SetRegisters, Zenon
  <1>5. CASE ~ie
    <2>1. intr' = [intr EXCEPT ![c] = intr[c]]  BY <1>1, <1>5, Zenon DEF popcli, CpusOK
    <2> QED  BY <1>2, <1>3, <1>5, <2>1, SetRegisters, Zenon
  <1> QED  BY <1>4, <1>5, Zenon

(* What CpuInv says of c when it runs p.                                   *)
Runs(c, p) ==
    /\ ncli[c] = Depth(at[p])
    /\ intr[c] <=> (irq[p] = "none" /\ ncli[c] = 0)
    /\ at[p] \in PtCode => ptlock = c
    /\ at[p] \in IcCode => iclock = c
    /\ at[p] \in (PtCode \cup IcCode) \ Resumed => (intena[c] <=> irq[p] = "none")

(* What SlotInv says of a slot's context, label, state, channel and intena. *)
SlotFits(p, cx, i, l, a, s, ch, sv) ==
    /\ i # "none" => l \notin PtCode \cup IcCode \cup {"x_dead"}
    /\ cx = "on" => s = StateAt(a) /\ a # "x_dead"
    /\ cx = "off" =>
         \/ s \in {"UNUSED", "EMBRYO"} /\ a = "forkret"
         \/ s = "RUNNABLE" /\ a \in Resumed
         \/ s = "SLEEPING" /\ a \in {"s_tidy", "w_tidy"}
         \/ s = "ZOMBIE" /\ a = "x_dead"
    /\ s = "SLEEPING" => ch = IF a \in {"s_sched", "s_tidy"} THEN Inode ELSE p
    /\ a \in {"s_tidy", "w_tidy"} => sv
    /\ a = "y_release" => ~sv

LEMMA SlotKnown ==
    ASSUME SlotInv, NEW p \in Slot
    PROVE  /\ ctx[p] = "on" <=> \E c \in CPU : cproc[c] = p
           /\ SlotFits(p, ctx[p], irq[p], pc[p], at[p], state[p], chan[p], saved[p])
  BY Zenon DEF SlotInv, SlotFits

LEMMA SlotNext ==
    ASSUME \A p \in Slot :
             /\ ctx'[p] = "on" <=> \E c \in CPU : cproc'[c] = p
             /\ SlotFits(p, ctx'[p], irq'[p], pc'[p], at'[p], state'[p], chan'[p], saved'[p])
    PROVE  SlotInv'
  BY Zenon DEF SlotInv, SlotFits, StateAt

LEMMA CpuFacts == ASSUME CpuInv, NEW c \in CPU, NEW p \in Slot, cproc[c] = p PROVE Runs(c, p)
  BY Zenon DEF CpuInv, Runs

LEMMA OneCpu ==
    ASSUME CpuInv, NEW c \in CPU, NEW d \in CPU, NEW p \in Slot, cproc[c] = p, cproc[d] = p
    PROVE  c = d
  <1>1. cproc[c] # None  BY SlotFacts, Zenon
  <1>2. \A e \in CPU : cproc[c] = cproc[e] /\ cproc[c] # None => c = e  BY Zenon DEF CpuInv
  <1> QED  BY <1>1, <1>2, Zenon

(* What a step must leave alone to keep the CPUs as they are.              *)
LEMMA SameCpus ==
    ASSUME CpuInv, UNCHANGED <<ncli, intena, intr, cproc, spc, ptlock, iclock, irq, at>>
    PROVE  CpuInv'
  BY Zenon DEF CpuInv, Depth

(* CPU c, running p, does something to its own registers and its locks.    *)
LEMMA CpuMove ==
    ASSUME TypeOK, CpuInv, NEW c \in CPU, NEW p \in Slot, NEW m, cproc[c] = p, spc[c] = "run",
           cproc' = cproc, spc' = spc, Moves(p, m),
           \A d \in CPU \ {c} : ncli'[d] = ncli[d] /\ intena'[d] = intena[d] /\ intr'[d] = intr[d],
           ptlock' = ptlock \/ ptlock \in {c, NoCpu}, iclock' = iclock \/ iclock \in {c, NoCpu},
           ncli'[c] = Depth(m), intr'[c] <=> (irq'[p] = "none" /\ Depth(m) = 0),
           m \in PtCode => ptlock' = c, m \in IcCode => iclock' = c,
           m \in (PtCode \cup IcCode) \ Resumed => (intena'[c] <=> irq'[p] = "none")
    PROVE  CpuInv'
  <1>0. NoCpu \notin CPU  BY ProcAssumption, Zenon DEF ProcAssumption
  <1>1. ASSUME NEW d \in CPU PROVE
          /\ spc'[d] # "panic" => (spc'[d] = "run" <=> cproc'[d] # None)
          /\ spc'[d] = "idle" => ncli'[d] = 0
          /\ spc'[d] = "scan" => ncli'[d] = 1 /\ ~intr'[d] /\ ptlock' = d
    <2>1. /\ spc[d] # "panic" => (spc[d] = "run" <=> cproc[d] # None)
          /\ spc[d] = "idle" => ncli[d] = 0
          /\ spc[d] = "scan" => ncli[d] = 1 /\ ~intr[d] /\ ptlock = d
      BY Zenon DEF CpuInv
    <2>2. CASE d = c  BY <2>1, <2>2, SlotFacts, Zenon
    <2>3. CASE d # c
      <3>1. ptlock = d => ptlock' = d  BY <1>0, <2>3, Zenon
      <3> QED  BY <2>1, <2>3, <3>1, Zenon
    <2> QED  BY <2>2, <2>3, Zenon
  <1>2. \A d, e \in CPU : cproc'[d] = cproc'[e] /\ cproc'[d] # None => d = e
    BY Zenon DEF CpuInv
  <1>3. ASSUME NEW d \in CPU, NEW q \in Slot, cproc'[d] = q PROVE
          /\ ncli'[d] = Depth(at'[q])
          /\ intr'[d] <=> (irq'[q] = "none" /\ ncli'[d] = 0)
          /\ at'[q] \in PtCode => ptlock' = d
          /\ at'[q] \in IcCode => iclock' = d
          /\ at'[q] \in (PtCode \cup IcCode) \ Resumed => (intena'[d] <=> irq'[q] = "none")
    <2>1. CASE d = c
      <3>1. q = p /\ at'[q] = m  BY <1>3, <2>1, Zenon DEF Moves
      <3> QED  BY <2>1, <3>1, Zenon
    <2>2. CASE d # c
      <3>1. cproc[d] = q /\ q # p  BY <1>3, <2>2, OneCpu, Zenon
      <3>2. at'[q] = at[q] /\ irq'[q] = irq[q]  BY <3>1, Zenon DEF Moves
      <3>3. Runs(d, q)  BY <3>1, CpuFacts, Zenon
      <3>4. /\ ncli'[d] = ncli[d] /\ intena'[d] = intena[d] /\ intr'[d] = intr[d]
            /\ ptlock = d => ptlock' = d
            /\ iclock = d => iclock' = d
        BY <1>0, <2>2, Zenon
      <3> QED  BY <3>2, <3>3, <3>4, Zenon DEF Runs
    <2> QED  BY <2>1, <2>2, Zenon
  <1> QED  BY <1>1, <1>2, <1>3, Zenon DEF CpuInv, Depth

(* A slot whose process is not on a CPU can be claimed, given back, made   *)
(* ready or woken by another process.                                      *)
Passive(q) ==
    \/ state'[q] = state[q]
    \/ /\ ctx[q] = "off"
       /\ \/ state[q] = "UNUSED" /\ state'[q] = "EMBRYO"
          \/ state[q] = "EMBRYO" /\ state'[q] \in {"UNUSED", "RUNNABLE"}
          \/ state[q] = "SLEEPING" /\ state'[q] = "RUNNABLE"

(* p, running, goes on to m, and the others at most change as above.       *)
LEMMA SlotMove ==
    ASSUME TypeOK, SlotInv, NEW c \in CPU, NEW p \in Slot, NEW m, cproc[c] = p,
           cproc' = cproc, ctx' = ctx, Moves(p, m), m \notin Resumed \cup {"x_dead"},
           \A q \in Slot \ {p} : Passive(q) /\ chan'[q] = chan[q] /\ saved'[q] = saved[q],
           irq'[p] # "none" => pc'[p] \notin PtCode \cup IcCode \cup {"x_dead"},
           state'[p] = StateAt(m),
           m = "s_sched" => chan'[p] = Inode, m = "w_sched" => chan'[p] = p
    PROVE  SlotInv'
  <1> SUFFICES ASSUME NEW q \in Slot PROVE
        /\ ctx'[q] = "on" <=> \E d \in CPU : cproc'[d] = q
        /\ irq'[q] # "none" => pc'[q] \notin PtCode \cup IcCode \cup {"x_dead"}
        /\ ctx'[q] = "on" => state'[q] = StateAt(at'[q]) /\ at'[q] # "x_dead"
        /\ ctx'[q] = "off" =>
             \/ state'[q] \in {"UNUSED", "EMBRYO"} /\ at'[q] = "forkret"
             \/ state'[q] = "RUNNABLE" /\ at'[q] \in Resumed
             \/ state'[q] = "SLEEPING" /\ at'[q] \in {"s_tidy", "w_tidy"}
             \/ state'[q] = "ZOMBIE" /\ at'[q] = "x_dead"
        /\ state'[q] = "SLEEPING" => chan'[q] = IF at'[q] \in {"s_sched", "s_tidy"} THEN Inode ELSE q
        /\ at'[q] \in {"s_tidy", "w_tidy"} => saved'[q]
        /\ at'[q] = "y_release" => ~saved'[q]
    BY Zenon DEF SlotInv, StateAt
  <1>1. ctx'[q] = "on" <=> \E d \in CPU : cproc'[d] = q  BY DEF SlotInv
  <1>2. CASE q = p
    <2>1. at'[q] = m /\ ctx[q] = "on"  BY <1>2, Zenon DEF Moves, SlotInv
    <2>2. state'[q] = "SLEEPING" => m \in {"s_sched", "w_sched"}  BY <1>2, Zenon DEF StateAt
    <2> QED  BY <1>1, <1>2, <2>1, <2>2, Zenon DEF Resumed
  <1>3. CASE q # p
    <2>1. at'[q] = at[q] /\ pc'[q] = pc[q] /\ irq'[q] = irq[q]  BY <1>3, Zenon DEF Moves
    <2>2. Passive(q) /\ chan'[q] = chan[q] /\ saved'[q] = saved[q]  BY <1>3, Zenon
    <2>3. CASE state'[q] = state[q]
      BY <1>1, <2>1, <2>2, <2>3 DEF SlotInv
    <2>4. CASE state'[q] # state[q]
      BY <1>1, <2>1, <2>2, <2>4 DEF SlotInv, Passive, Resumed
    <2> QED  BY <2>3, <2>4, Zenon
  <1> QED  BY <1>2, <1>3, Zenon

(* A step that does not touch the inode's flag, of a process that does not *)
(* come to hold it and is not the one that wakes the others.               *)
LEMMA InodeMove ==
    ASSUME InodeInv, NEW p \in Slot, ibusy' = ibusy,
           \A q \in Slot \ {p} : pc'[q] = pc[q],
           pc[p] = "u_wakeup" => pc'[p] = "u_wakeup",
           pc'[p] = "locked" => pc[p] = "locked",
           pc'[p] \in {"s_release", "s_sleep"} => pc[p] \in {"s_release", "s_sleep"} \/ ibusy,
           \A q \in Slot : state'[q] = "SLEEPING" /\ chan'[q] = Inode =>
             \/ state[q] = "SLEEPING" /\ chan[q] = Inode
             \/ pc[q] = "s_sleep"
    PROVE  InodeInv'
  <1>1. InodeExclusive'  BY Zenon DEF InodeInv, InodeExclusive
  <1>2. \A q \in Slot : pc'[q] = "locked" => ibusy'  BY Zenon DEF InodeInv
  <1>3. ASSUME NEW q \in Slot, \/ pc'[q] \in {"s_release", "s_sleep"}
                               \/ state'[q] = "SLEEPING" /\ chan'[q] = Inode
        PROVE  ibusy' \/ \E r \in Slot : pc'[r] = "u_wakeup"
    <2>1. ibusy \/ \E r \in Slot : pc[r] = "u_wakeup"  BY <1>3, Zenon DEF InodeInv
    <2> QED  BY <2>1, Zenon
  <1> QED  BY <1>1, <1>2, <1>3, Zenon DEF InodeInv

(* The parts of FamilyInv, one process at a time.                          *)
LEMMA ForkFacts ==
    ASSUME FamilyInv, NEW p \in Slot, Forks(p)
    PROVE  /\ np[p] \in Slot /\ state[np[p]] = "EMBRYO"
           /\ parent[np[p]] = IF pc[p] = "f_copy" THEN None ELSE p
  BY Zenon DEF FamilyInv

LEMMA OneFork ==
    ASSUME FamilyInv, NEW p \in Slot, NEW q \in Slot, Forks(p), Forks(q), np[p] = np[q]
    PROVE  p = q
  BY Zenon DEF FamilyInv

LEMMA ParentFacts ==
    ASSUME FamilyInv, NEW p \in Slot
    PROVE  parent[p] # p /\ (state[p] = "UNUSED" => parent[p] = None)
  BY Zenon DEF FamilyInv

LEMMA InitFacts ==
    ASSUME FamilyInv
    PROVE  /\ parent[initproc] = None /\ ~Exits(initproc)
           /\ state[initproc] \notin {"UNUSED", "EMBRYO", "ZOMBIE"}
           /\ ParentAlive /\ WaitersHaveReason /\ StatusExchanged
  BY Zenon DEF FamilyInv

LEMMA ExitFacts == ASSUME FamilyInv, NEW p \in Slot, Exits(p) PROVE exitstatus[p] = pid[p]
  BY Zenon DEF FamilyInv

(* No parent goes, and who is new or has a new parent has one that is      *)
(* there.                                                                  *)
LEMMA AliveMove ==
    ASSUME TypeOK, ParentAlive,
           \A r \in Slot \ {initproc} : state'[r] \notin {"UNUSED", "EMBRYO"} =>
             \/ parent'[r] = parent[r] /\ state[r] \notin {"UNUSED", "EMBRYO"}
             \/ parent'[r] # None /\ state'[parent'[r]] \notin {"UNUSED", "EMBRYO", "ZOMBIE"},
           \A r \in Slot : state[r] \notin {"UNUSED", "EMBRYO", "ZOMBIE"} =>
             state'[r] \notin {"UNUSED", "EMBRYO", "ZOMBIE"}
    PROVE  ParentAlive'
  <1> SUFFICES ASSUME NEW r \in Slot \ {initproc}, state'[r] \notin {"UNUSED", "EMBRYO"}
               PROVE  parent'[r] # None /\ state'[parent'[r]] \notin {"UNUSED", "EMBRYO", "ZOMBIE"}
    BY Zenon DEF ParentAlive
  <1>1. parent[r] \in Slot \cup {None}  BY Zenon DEF TypeOK
  <1>2. CASE parent'[r] = parent[r] /\ state[r] \notin {"UNUSED", "EMBRYO"}
    <2>1. parent[r] # None /\ state[parent[r]] \notin {"UNUSED", "EMBRYO", "ZOMBIE"}
      BY <1>2, Zenon DEF ParentAlive
    <2>2. parent[r] \in Slot  BY <1>1, <2>1, Zenon
    <2>3. state'[parent[r]] \notin {"UNUSED", "EMBRYO", "ZOMBIE"}  BY <2>1, <2>2, Zenon
    <2> QED  BY <1>2, <2>1, <2>3, Zenon
  <1> QED  BY <1>2, Zenon

(* Nobody begins to sleep in wait(), no sleeper there loses a child, and   *)
(* no child becomes a zombie.                                              *)
LEMMA ReasonMove ==
    ASSUME WaitersHaveReason,
           \A r \in Slot : state'[r] = "SLEEPING" /\ chan'[r] = r =>
             state[r] = "SLEEPING" /\ chan[r] = r /\ killed'[r] = killed[r],
           \A r, t \in Slot : parent[t] = r => parent'[t] = r,
           \A t \in Slot : state'[t] = "ZOMBIE" => state[t] = "ZOMBIE" /\ parent'[t] = parent[t]
    PROVE  WaitersHaveReason'
  <1> SUFFICES ASSUME NEW r \in Slot, state'[r] = "SLEEPING", chan'[r] = r
               PROVE  /\ Children(r)' # {} /\ ~killed'[r]
                      /\ \A t \in Children(r)' : state'[t] # "ZOMBIE"
    BY Zenon DEF WaitersHaveReason
  <1>1. state[r] = "SLEEPING" /\ chan[r] = r /\ killed'[r] = killed[r]  BY Zenon
  <1>2. Children(r) # {} /\ ~killed[r] /\ \A t \in Children(r) : state[t] # "ZOMBIE"
    BY <1>1, Zenon DEF WaitersHaveReason
  <1>3. PICK t \in Slot : parent[t] = r  BY <1>2, Zenon DEF Children
  <1>4. t \in Children(r)'  BY <1>3, Zenon DEF Children
  <1>5. ASSUME NEW u \in Children(r)', state'[u] = "ZOMBIE" PROVE FALSE
    <2>1. u \in Slot /\ parent'[u] = r  BY <1>5, Zenon DEF Children
    <2>2. u \in Children(r) /\ state[u] = "ZOMBIE"  BY <1>5, <2>1, Zenon DEF Children
    <2> QED  BY <1>2, <2>2, Zenon
  <1> QED  BY <1>1, <1>2, <1>4, <1>5, Zenon

Awake == {"SLEEPING", "RUNNABLE", "RUNNING"}

(* A step that makes and reaps no process and changes no parent, and after *)
(* which nobody sleeps in wait() without a reason.                         *)
LEMMA FamilyMove ==
    ASSUME TypeOK, FamilyInv, NEW p \in Slot, UNCHANGED <<parent, np, pid, reaped>>,
           \A q \in Slot \ {p} : pc'[q] = pc[q] /\ exitstatus'[q] = exitstatus[q],
           exitstatus'[p] \in {exitstatus[p], pid[p]},
           \/ pc'[p] = pc[p]
           \/ /\ ~Forks(p)'
              /\ Exits(p)' => Exits(p) \/ (p # initproc /\ exitstatus'[p] = pid[p]),
           \A q \in Slot : state'[q] = state[q] \/ (state[q] \in Awake /\ state'[q] \in Awake),
           \A q \in Slot : state'[q] = "SLEEPING" /\ chan'[q] = q =>
             \/ state[q] = "SLEEPING" /\ chan[q] = q /\ killed'[q] = killed[q]
             \/ Children(q) # {} /\ Zombies(q) = {} /\ ~killed'[q]
    PROVE  FamilyInv'
  <1>1. \A q \in Slot : Forks(q)' => Forks(q) /\ pc'[q] = pc[q]  BY Zenon DEF Forks
  <1>2. \A q \in Slot : Exits(q)' => Exits(q) \/ (q = p /\ p # initproc /\ exitstatus'[q] = pid[q])
    BY Zenon DEF Exits
  <1>3. ASSUME NEW q \in Slot, Forks(q)' PROVE
          /\ np'[q] \in Slot /\ state'[np'[q]] = "EMBRYO"
          /\ parent'[np'[q]] = IF pc'[q] = "f_copy" THEN None ELSE q
    <2>1. /\ np[q] \in Slot /\ state[np[q]] = "EMBRYO"
          /\ parent[np[q]] = IF pc[q] = "f_copy" THEN None ELSE q
      BY <1>1, <1>3, Zenon DEF FamilyInv
    <2> QED  BY <1>1, <1>3, <2>1, Zenon DEF Awake
  <1>4. \A q \in Slot : \A s \in {"UNUSED", "EMBRYO", "ZOMBIE"} : (state'[q] = s) = (state[q] = s)
    BY Zenon DEF Awake
  <1>5. ParentAlive'
    BY <1>4, SlotFacts DEF FamilyInv, ParentAlive, TypeOK
  <1>6. WaitersHaveReason'
    BY <1>4 DEF FamilyInv, WaitersHaveReason, Children, Zombies
  <1>7. StatusExchanged'  BY Zenon DEF FamilyInv, StatusExchanged
  <1>8. \A q, r \in Slot : Forks(q)' /\ Forks(r)' /\ np'[q] = np'[r] => q = r
    BY <1>1, Zenon DEF FamilyInv
  <1>9. /\ \A q \in Slot : parent'[q] # q /\ (state'[q] = "UNUSED" => parent'[q] = None)
        /\ parent'[initproc] = None /\ ~Exits(initproc)'
        /\ state'[initproc] \notin {"UNUSED", "EMBRYO", "ZOMBIE"}
    BY <1>2, <1>4, SlotFacts, Zenon DEF FamilyInv
  <1>10. \A q \in Slot : Exits(q)' => exitstatus'[q] = pid'[q]
    BY <1>2 DEF FamilyInv
  <1> QED  BY <1>3, <1>5, <1>6, <1>7, <1>8, <1>9, <1>10, Zenon DEF FamilyInv

(* The common case: p goes from running code to running code.              *)
LEMMA QuietMove ==
    ASSUME IInv, NEW c \in CPU, NEW p \in Slot, NEW m, cproc[c] = p, Moves(p, m),
           UNCHANGED <<state, pid, parent, killed, exitstatus, ibusy, cproc, ctx, np, reaped>>,
           \A q \in Slot \ {p} : chan'[q] = chan[q] /\ saved'[q] = saved[q],
           m \notin Resumed \cup {"x_dead"}, StateAt(m) = "RUNNING", StateAt(at[p]) = "RUNNING",
           irq'[p] # "none" => pc'[p] \notin PtCode \cup IcCode \cup {"x_dead"},
           \/ pc'[p] = pc[p]
           \/ /\ pc[p] # "u_wakeup"
              /\ pc'[p] \notin {"locked", "f_copy", "f_ready", "x_acquire", "x_sched", "x_dead"}
              /\ pc'[p] \in {"s_release", "s_sleep"} => pc[p] \in {"s_release", "s_sleep"} \/ ibusy
    PROVE  SlotInv' /\ InodeInv' /\ FamilyInv'
  <1>1. state[p] = "RUNNING"  BY Zenon DEF IInv, SlotInv
  <1>2. m \notin {"s_sched", "w_sched"}  BY Zenon DEF StateAt
  <1>3. \A q \in Slot \ {p} : Passive(q) /\ chan'[q] = chan[q] /\ saved'[q] = saved[q]
    BY Zenon DEF Passive
  <1>4. SlotInv'  BY <1>1, <1>2, <1>3, SlotMove, Zenon DEF IInv
  <1>5. \A q \in Slot \ {p} : pc'[q] = pc[q]  BY Zenon DEF Moves
  <1>6. \A q \in Slot : state'[q] = "SLEEPING" => state[q] = "SLEEPING" /\ chan'[q] = chan[q]
    BY <1>1, Zenon
  <1>7. InodeInv'  BY <1>5, <1>6, InodeMove, Zenon DEF IInv
  <1>8. pc'[p] = pc[p] \/ (~Forks(p)' /\ ~Exits(p)')  BY Zenon DEF Forks, Exits
  <1>9. FamilyInv'  BY <1>5, <1>6, <1>8, FamilyMove, Zenon DEF IInv
  <1> QED  BY <1>4, <1>7, <1>9, Zenon

(* acquire() of ptable.lock or of icache.lock, with no lock held.          *)
LEMMA PushMove ==
    ASSUME TypeOK, CpuInv, NEW c \in CPU, NEW p \in Slot, NEW m, cproc[c] = p, spc[c] = "run",
           UNCHANGED <<cproc, spc>>, Moves(p, m), pushcli(c),
           irq'[p] = "none" <=> irq[p] = "none",
           Depth(at[p]) = 0, Depth(m) = 1,
           m \in PtCode => ptlock = NoCpu /\ ptlock' = c /\ iclock' = iclock,
           m \in IcCode => iclock = NoCpu /\ iclock' = c /\ ptlock' = ptlock
    PROVE  CpuInv' /\ CpusOK'
  <1>1. ncli[c] = 0 /\ (intr[c] <=> irq[p] = "none")
    <2>1. Runs(c, p)  BY CpuFacts, Zenon
    <2> QED  BY <2>1, Zenon DEF Runs
  <1>2. /\ \A d \in CPU \ {c} : ncli'[d] = ncli[d] /\ intena'[d] = intena[d] /\ intr'[d] = intr[d]
        /\ ncli'[c] = 1 /\ intena'[c] = intr[c] /\ intr'[c] = FALSE /\ CpusOK'
    <2>1. Registers(c, 1, intr[c], FALSE)  BY <1>1, PushFirst, Zenon
    <2> QED  BY <2>1, Zenon DEF Registers
  <1>3. m \in PtCode \cup IcCode  BY DEF Depth
  <1>4. /\ ptlock' = ptlock \/ ptlock \in {c, NoCpu}
        /\ iclock' = iclock \/ iclock \in {c, NoCpu}
        /\ m \in PtCode => ptlock' = c
        /\ m \in IcCode => iclock' = c
    BY <1>3, Zenon
  <1>5. /\ ncli'[c] = Depth(m) /\ (intr'[c] <=> (irq'[p] = "none" /\ Depth(m) = 0))
        /\ m \in (PtCode \cup IcCode) \ Resumed => (intena'[c] <=> irq'[p] = "none")
    BY <1>1, <1>2
  <1> QED  BY <1>2, <1>4, <1>5, CpuMove, Zenon

(* release() of the only lock held, in a system call.                      *)
LEMMA PopMove ==
    ASSUME TypeOK, CpuInv, NEW c \in CPU, NEW p \in Slot, NEW m, cproc[c] = p, spc[c] = "run",
           UNCHANGED <<cproc, spc>>, Moves(p, m), popcli(c, intena[c]),
           irq[p] = "none", irq'[p] = "none",
           Depth(at[p]) = 1, at[p] \notin Resumed, Depth(m) = 0,
           ptlock' = ptlock \/ at[p] \in PtCode, iclock' = iclock \/ at[p] \in IcCode
    PROVE  CpuInv' /\ CpusOK'
  <1>1. ncli[c] = 1 /\ intena[c] /\ (at[p] \in PtCode => ptlock = c)
        /\ (at[p] \in IcCode => iclock = c)
    <2>1. Runs(c, p)  BY CpuFacts, Zenon
    <2>2. at[p] \in PtCode \cup IcCode  BY DEF Depth
    <2> QED  BY <2>1, <2>2, Zenon DEF Runs
  <1>2. /\ \A d \in CPU \ {c} : ncli'[d] = ncli[d] /\ intena'[d] = intena[d] /\ intr'[d] = intr[d]
        /\ ncli'[c] = 0 /\ intena'[c] = intena[c] /\ intr'[c] = TRUE /\ CpusOK'
    <2>1. intena[c] \in BOOLEAN  BY Zenon DEF TypeOK
    <2>2. Registers(c, 0, intena[c], TRUE)  BY <1>1, <2>1, PopFirst, Zenon
    <2> QED  BY <2>2, Zenon DEF Registers
  <1>3. m \notin PtCode \cup IcCode  BY DEF Depth
  <1>4. /\ ptlock' = ptlock \/ ptlock \in {c, NoCpu}
        /\ iclock' = iclock \/ iclock \in {c, NoCpu}
    BY <1>1, Zenon
  <1>5. /\ ncli'[c] = Depth(m) /\ (intr'[c] <=> (irq'[p] = "none" /\ Depth(m) = 0))
    BY <1>2, Zenon
  <1> QED  BY <1>2, <1>3, <1>4, <1>5, CpuMove, Zenon

(* No lock is taken or released.                                           *)
LEMMA StayMove ==
    ASSUME TypeOK, CpuInv, NEW c \in CPU, NEW p \in Slot, NEW m, cproc[c] = p, spc[c] = "run",
           UNCHANGED <<cproc, spc, cpus, ptlock, iclock>>, Moves(p, m),
           irq'[p] = "none" <=> irq[p] = "none", at[p] \notin Resumed,
           m \in PtCode <=> at[p] \in PtCode, m \in IcCode <=> at[p] \in IcCode
    PROVE  CpuInv' /\ CpusOK'
  <1>1. UNCHANGED <<ncli, intena, intr>>  BY Zenon DEF cpus
  <1>2. Depth(m) = Depth(at[p])  BY Zenon DEF Depth
  <1>3. /\ ncli[c] = Depth(at[p])
        /\ intr[c] <=> (irq[p] = "none" /\ ncli[c] = 0)
        /\ at[p] \in PtCode => ptlock = c
        /\ at[p] \in IcCode => iclock = c
        /\ at[p] \in (PtCode \cup IcCode) \ Resumed => (intena[c] <=> irq[p] = "none")
    BY DEF CpuInv
  <1>4. /\ m \in (PtCode \cup IcCode) \ Resumed => (intena'[c] <=> irq'[p] = "none")
        /\ intr'[c] <=> (irq'[p] = "none" /\ Depth(m) = 0)
        /\ ncli'[c] = Depth(m)
    BY <1>1, <1>2, <1>3, Zenon
  <1>5. CpusOK'  BY <1>1, Zenon DEF CpusOK, TypeOK
  <1> QED  BY <1>1, <1>3, <1>4, <1>5, CpuMove, Zenon

----------------------------------------------------------------------------
LEMMA waitInv == ASSUME IInv, NEW c \in CPU, NEW p \in Slot, wait(c, p) PROVE IInv'
  <1>0. /\ TypeOK /\ On(c, p, "user") /\ Goto(p, "w_acquire")
        /\ UNCHANGED <<table, nextpid, ptlock, inode, cpus, switch, np, obs>>
    BY Zenon DEF wait, MayCall, IInv
  <1>1. "user" \in Labels /\ "w_acquire" \in Labels  BY Zenon DEF Labels
  <1>2. /\ cproc[c] = p /\ spc[c] = "run" /\ at[p] = "user" /\ pc[p] = "user"
        /\ irq[p] = "none" /\ Moves(p, "w_acquire") /\ pc'[p] = "w_acquire" /\ irq'[p] = "none"
        /\ pc' \in [Slot -> Labels] /\ irq' = irq
    <2>1. Steps(c, p, "user", "w_acquire")  BY <1>0, <1>1, SyscallFacts, Zenon
    <2> QED  BY <2>1, Zenon DEF Steps
  <1>3. CpuInv' /\ CpusOK'
    <2>1. /\ at[p] \notin Resumed
          /\ "w_acquire" \in PtCode <=> at[p] \in PtCode
          /\ "w_acquire" \in IcCode <=> at[p] \in IcCode
      BY <1>2, Zenon DEF PtCode, IcCode, Resumed
    <2> QED  BY <1>0, <1>2, <2>1, StayMove, Zenon DEF IInv, inode, switch
  <1>4. TypeOK'  BY <1>0, <1>2, <1>3, ProcAssumption, Zenon
    DEF TypeOK, CpusOK, ProcAssumption, table, inode, switch, obs
  <1>5. SlotInv' /\ InodeInv' /\ FamilyInv'
    <2>1. /\ "w_acquire" \notin Resumed \cup {"x_dead"}
          /\ StateAt("w_acquire") = "RUNNING" /\ StateAt(at[p]) = "RUNNING"
      BY <1>2, Zenon DEF Resumed, StateAt
    <2> QED  BY <1>0, <1>2, <2>1, QuietMove, Zenon DEF table, inode, switch, obs
  <1> QED  BY <1>3, <1>4, <1>5, Zenon DEF IInv

LEMMA ilockInv == ASSUME IInv, NEW c \in CPU, NEW p \in Slot, ilock(c, p) PROVE IInv'
  <1>0. /\ TypeOK /\ On(c, p, "user") /\ Goto(p, "i_acquire")
        /\ UNCHANGED <<table, nextpid, ptlock, inode, cpus, switch, np, obs>>
    BY Zenon DEF ilock, MayCall, IInv
  <1>1. "user" \in Labels /\ "i_acquire" \in Labels  BY Zenon DEF Labels
  <1>2. /\ cproc[c] = p /\ spc[c] = "run" /\ at[p] = "user" /\ pc[p] = "user"
        /\ irq[p] = "none" /\ Moves(p, "i_acquire") /\ pc'[p] = "i_acquire" /\ irq'[p] = "none"
        /\ pc' \in [Slot -> Labels] /\ irq' = irq
    <2>1. Steps(c, p, "user", "i_acquire")  BY <1>0, <1>1, SyscallFacts, Zenon
    <2> QED  BY <2>1, Zenon DEF Steps
  <1>3. CpuInv' /\ CpusOK'
    <2>1. /\ at[p] \notin Resumed
          /\ "i_acquire" \in PtCode <=> at[p] \in PtCode
          /\ "i_acquire" \in IcCode <=> at[p] \in IcCode
      BY <1>2, Zenon DEF PtCode, IcCode, Resumed
    <2> QED  BY <1>0, <1>2, <2>1, StayMove, Zenon DEF IInv, inode, switch
  <1>4. TypeOK'  BY <1>0, <1>2, <1>3, ProcAssumption, Zenon
    DEF TypeOK, CpusOK, ProcAssumption, table, inode, switch, obs
  <1>5. SlotInv' /\ InodeInv' /\ FamilyInv'
    <2>1. /\ "i_acquire" \notin Resumed \cup {"x_dead"}
          /\ StateAt("i_acquire") = "RUNNING" /\ StateAt(at[p]) = "RUNNING"
      BY <1>2, Zenon DEF Resumed, StateAt
    <2> QED  BY <1>0, <1>2, <2>1, QuietMove, Zenon DEF table, inode, switch, obs
  <1> QED  BY <1>3, <1>4, <1>5, Zenon DEF IInv

LEMMA WaitAcquireInv == ASSUME IInv, NEW c \in CPU, NEW p \in Slot, WaitAcquire(c, p) PROVE IInv'
  <1>0. /\ TypeOK /\ On(c, p, "w_acquire") /\ Goto(p, "w_scan")
        /\ pushcli(c) /\ ptlock = NoCpu /\ ptlock' = c
        /\ UNCHANGED <<table, nextpid, inode, switch, np, obs>>
    BY Zenon DEF WaitAcquire, AcquirePtlock, IInv
  <1>1. "w_acquire" \in Labels /\ "w_scan" \in Labels  BY Zenon DEF Labels
  <1>2. /\ cproc[c] = p /\ spc[c] = "run" /\ at[p] = "w_acquire" /\ pc[p] = "w_acquire"
        /\ irq[p] = "none" /\ Moves(p, "w_scan") /\ pc'[p] = "w_scan" /\ irq'[p] = "none"
        /\ pc' \in [Slot -> Labels] /\ irq' = irq
    <2>1. Steps(c, p, "w_acquire", "w_scan")  BY <1>0, <1>1, SyscallFacts, Zenon
    <2> QED  BY <2>1, Zenon DEF Steps
  <1>3. CpuInv' /\ CpusOK'
    <2>1. Depth(at[p]) = 0 /\ Depth("w_scan") = 1 /\ "w_scan" \notin IcCode
      BY <1>2, Zenon DEF PtCode, IcCode, Depth
    <2> QED  BY <1>0, <1>2, <2>1, PushMove, Zenon DEF IInv, inode, switch
  <1>4. TypeOK'  BY <1>0, <1>2, <1>3, ProcAssumption, Zenon
    DEF TypeOK, CpusOK, ProcAssumption, table, inode, switch, obs
  <1>5. SlotInv' /\ InodeInv' /\ FamilyInv'
    <2>1. /\ "w_scan" \notin Resumed \cup {"x_dead"}
          /\ StateAt("w_scan") = "RUNNING" /\ StateAt(at[p]) = "RUNNING"
      BY <1>2, Zenon DEF Resumed, StateAt
    <2> QED  BY <1>0, <1>2, <2>1, QuietMove, Zenon DEF table, inode, switch, obs
  <1> QED  BY <1>3, <1>4, <1>5, Zenon DEF IInv

LEMMA IlockAcquireInv == ASSUME IInv, NEW c \in CPU, NEW p \in Slot, IlockAcquire(c, p) PROVE IInv'
  <1>0. /\ TypeOK /\ On(c, p, "i_acquire") /\ Goto(p, "i_test")
        /\ pushcli(c) /\ iclock = NoCpu /\ iclock' = c
        /\ UNCHANGED <<table, nextpid, ptlock, ibusy, switch, np, obs>>
    BY Zenon DEF IlockAcquire, IInv
  <1>1. "i_acquire" \in Labels /\ "i_test" \in Labels  BY Zenon DEF Labels
  <1>2. /\ cproc[c] = p /\ spc[c] = "run" /\ at[p] = "i_acquire" /\ pc[p] = "i_acquire"
        /\ irq[p] = "none" /\ Moves(p, "i_test") /\ pc'[p] = "i_test" /\ irq'[p] = "none"
        /\ pc' \in [Slot -> Labels] /\ irq' = irq
    <2>1. Steps(c, p, "i_acquire", "i_test")  BY <1>0, <1>1, SyscallFacts, Zenon
    <2> QED  BY <2>1, Zenon DEF Steps
  <1>3. CpuInv' /\ CpusOK'
    <2>1. Depth(at[p]) = 0 /\ Depth("i_test") = 1 /\ "i_test" \notin PtCode
      BY <1>2, Zenon DEF PtCode, IcCode, Depth
    <2> QED  BY <1>0, <1>2, <2>1, PushMove, Zenon DEF IInv, inode, switch
  <1>4. TypeOK'  BY <1>0, <1>2, <1>3, ProcAssumption, Zenon
    DEF TypeOK, CpusOK, ProcAssumption, table, inode, switch, obs
  <1>5. SlotInv' /\ InodeInv' /\ FamilyInv'
    <2>1. /\ "i_test" \notin Resumed \cup {"x_dead"}
          /\ StateAt("i_test") = "RUNNING" /\ StateAt(at[p]) = "RUNNING"
      BY <1>2, Zenon DEF Resumed, StateAt
    <2> QED  BY <1>0, <1>2, <2>1, QuietMove, Zenon DEF table, inode, switch, obs
  <1> QED  BY <1>3, <1>4, <1>5, Zenon DEF IInv

LEMMA WaitFailInv == ASSUME IInv, NEW c \in CPU, NEW p \in Slot, WaitFail(c, p) PROVE IInv'
  <1>0. /\ TypeOK /\ On(c, p, "w_scan") /\ Goto(p, "user")
        /\ ptlock' = NoCpu /\ popcli(c, intena[c])
        /\ UNCHANGED <<table, nextpid, inode, switch, np, obs>>
    BY Zenon DEF WaitFail, IInv
  <1>1. "w_scan" \in Labels /\ "user" \in Labels  BY Zenon DEF Labels
  <1>2. /\ cproc[c] = p /\ spc[c] = "run" /\ at[p] = "w_scan" /\ pc[p] = "w_scan"
        /\ irq[p] = "none" /\ Moves(p, "user") /\ pc'[p] = "user" /\ irq'[p] = "none"
        /\ pc' \in [Slot -> Labels] /\ irq' = irq
    <2>1. Steps(c, p, "w_scan", "user")  BY <1>0, <1>1, SyscallFacts, Zenon
    <2> QED  BY <2>1, Zenon DEF Steps
  <1>3. CpuInv' /\ CpusOK'
    <2>1. Depth(at[p]) = 1 /\ at[p] \notin Resumed /\ Depth("user") = 0 /\ at[p] \in PtCode
      BY <1>2, Zenon DEF PtCode, IcCode, Depth, Resumed
    <2> QED  BY <1>0, <1>2, <2>1, PopMove, Zenon DEF IInv, inode, switch
  <1>4. TypeOK'  BY <1>0, <1>2, <1>3, ProcAssumption, Zenon
    DEF TypeOK, CpusOK, ProcAssumption, table, inode, switch, obs
  <1>5. SlotInv' /\ InodeInv' /\ FamilyInv'
    <2>1. /\ "user" \notin Resumed \cup {"x_dead"}
          /\ StateAt("user") = "RUNNING" /\ StateAt(at[p]) = "RUNNING"
      BY <1>2, Zenon DEF Resumed, StateAt
    <2> QED  BY <1>0, <1>2, <2>1, QuietMove, Zenon DEF table, inode, switch, obs
  <1> QED  BY <1>3, <1>4, <1>5, Zenon DEF IInv

LEMMA SleepAcquireInv == ASSUME IInv, NEW c \in CPU, NEW p \in Slot, SleepAcquire(c, p) PROVE IInv'
  <1>0. /\ TypeOK /\ On(c, p, "i_test") /\ Goto(p, "s_release")
        /\ ibusy /\ pushcli(c) /\ ptlock = NoCpu /\ ptlock' = c
        /\ UNCHANGED <<table, nextpid, inode, switch, np, obs>>
    BY Zenon DEF SleepAcquire, AcquirePtlock, IInv
  <1>1. "i_test" \in Labels /\ "s_release" \in Labels  BY Zenon DEF Labels
  <1>2. /\ cproc[c] = p /\ spc[c] = "run" /\ at[p] = "i_test" /\ pc[p] = "i_test"
        /\ irq[p] = "none" /\ Moves(p, "s_release") /\ pc'[p] = "s_release" /\ irq'[p] = "none"
        /\ pc' \in [Slot -> Labels] /\ irq' = irq
    <2>1. Steps(c, p, "i_test", "s_release")  BY <1>0, <1>1, SyscallFacts, Zenon
    <2> QED  BY <2>1, Zenon DEF Steps
  <1>3. CpuInv' /\ CpusOK'
    <2>1. Depth("s_release") = 2
      BY <1>2, Zenon DEF PtCode, IcCode, Depth
    <2>2. ncli[c] = 1 /\ iclock = c /\ intena[c]
      <3>1. Runs(c, p)  BY <1>2, CpuFacts, Zenon DEF IInv
      <3> QED  BY <1>2, <3>1, Zenon DEF Runs, PtCode, IcCode, Depth, Resumed
    <2>3. /\ \A d \in CPU \ {c} : ncli'[d] = ncli[d] /\ intena'[d] = intena[d] /\ intr'[d] = intr[d]
          /\ ncli'[c] = 2 /\ intena'[c] = intena[c] /\ intr'[c] = FALSE /\ CpusOK'
      <3>1. Registers(c, 2, intena[c], FALSE)  BY <1>0, <2>2, PushSecond, Zenon
      <3> QED  BY <3>1, Zenon DEF Registers
    <2>4. Depth("s_release") # 0  BY <2>1
    <2>5. /\ ncli'[c] = Depth("s_release") /\ (intr'[c] <=> (irq'[p] = "none" /\ Depth("s_release") = 0))
          /\ "s_release" \in PtCode => ptlock' = c
          /\ "s_release" \in IcCode => iclock' = c
          /\ "s_release" \in (PtCode \cup IcCode) \ Resumed => (intena'[c] <=> irq'[p] = "none")
      BY <1>0, <1>2, <2>1, <2>2, <2>3, <2>4, Zenon DEF inode
    <2>6. /\ ptlock' = ptlock \/ ptlock \in {c, NoCpu}
          /\ iclock' = iclock \/ iclock \in {c, NoCpu}
          /\ UNCHANGED <<cproc, spc>>
      BY <1>0, <2>2, Zenon DEF inode, switch
    <2> QED  BY <1>0, <1>2, <2>3, <2>4, <2>5, <2>6, CpuMove, Zenon DEF IInv
  <1>4. TypeOK'  BY <1>0, <1>2, <1>3, ProcAssumption, Zenon
    DEF TypeOK, CpusOK, ProcAssumption, table, inode, switch, obs
  <1>5. SlotInv' /\ InodeInv' /\ FamilyInv'
    <2>1. /\ "s_release" \notin Resumed \cup {"x_dead"}
          /\ StateAt("s_release") = "RUNNING" /\ StateAt(at[p]) = "RUNNING"
      BY <1>2, Zenon DEF Resumed, StateAt
    <2> QED  BY <1>0, <1>2, <2>1, QuietMove, Zenon DEF table, inode, switch, obs
  <1> QED  BY <1>3, <1>4, <1>5, Zenon DEF IInv

LEMMA SleepReleaseInv == ASSUME IInv, NEW c \in CPU, NEW p \in Slot, SleepRelease(c, p) PROVE IInv'
  <1>0. /\ TypeOK /\ On(c, p, "s_release") /\ Goto(p, "s_sleep")
        /\ iclock' = NoCpu /\ popcli(c, intena[c])
        /\ UNCHANGED <<table, nextpid, ptlock, ibusy, switch, np, obs>>
    BY Zenon DEF SleepRelease, IInv
  <1>1. "s_release" \in Labels /\ "s_sleep" \in Labels  BY Zenon DEF Labels
  <1>2. /\ cproc[c] = p /\ spc[c] = "run" /\ at[p] = "s_release" /\ pc[p] = "s_release"
        /\ irq[p] = "none" /\ Moves(p, "s_sleep") /\ pc'[p] = "s_sleep" /\ irq'[p] = "none"
        /\ pc' \in [Slot -> Labels] /\ irq' = irq
    <2>1. Steps(c, p, "s_release", "s_sleep")  BY <1>0, <1>1, SyscallFacts, Zenon
    <2> QED  BY <2>1, Zenon DEF Steps
  <1>3. CpuInv' /\ CpusOK'
    <2>1. Depth("s_sleep") = 1 /\ "s_sleep" \notin IcCode
      BY <1>2, Zenon DEF PtCode, IcCode, Depth
    <2>2. ncli[c] = 2 /\ iclock = c /\ ptlock = c /\ intena[c] /\ ~intr[c]
      <3>1. Runs(c, p)  BY <1>2, CpuFacts, Zenon DEF IInv
      <3>2. ncli[c] = 2  BY <1>2, <3>1, Zenon DEF Runs, PtCode, IcCode, Depth
      <3>3. ncli[c] # 0  BY <3>2
      <3> QED  BY <1>2, <3>1, <3>2, <3>3, Zenon DEF Runs, PtCode, IcCode, Resumed
    <2>3. /\ \A d \in CPU \ {c} : ncli'[d] = ncli[d] /\ intena'[d] = intena[d] /\ intr'[d] = intr[d]
          /\ ncli'[c] = 1 /\ intena'[c] = intena[c] /\ intr'[c] = intr[c] /\ CpusOK'
      <3>1. intena[c] \in BOOLEAN  BY <1>0, Zenon DEF TypeOK
      <3>2. Registers(c, 1, intena[c], intr[c])  BY <1>0, <2>2, <3>1, PopSecond, Zenon
      <3> QED  BY <3>2, Zenon DEF Registers
    <2>4. Depth("s_sleep") # 0  BY <2>1
    <2>5. /\ ncli'[c] = Depth("s_sleep") /\ (intr'[c] <=> (irq'[p] = "none" /\ Depth("s_sleep") = 0))
          /\ "s_sleep" \in PtCode => ptlock' = c
          /\ "s_sleep" \in IcCode => iclock' = c
          /\ "s_sleep" \in (PtCode \cup IcCode) \ Resumed => (intena'[c] <=> irq'[p] = "none")
      BY <1>0, <1>2, <2>1, <2>2, <2>3, <2>4, Zenon DEF inode
    <2>6. /\ ptlock' = ptlock \/ ptlock \in {c, NoCpu}
          /\ iclock' = iclock \/ iclock \in {c, NoCpu}
          /\ UNCHANGED <<cproc, spc>>
      BY <1>0, <2>2, Zenon DEF inode, switch
    <2> QED  BY <1>0, <1>2, <2>3, <2>4, <2>5, <2>6, CpuMove, Zenon DEF IInv
  <1>4. TypeOK'  BY <1>0, <1>2, <1>3, ProcAssumption, Zenon
    DEF TypeOK, CpusOK, ProcAssumption, table, inode, switch, obs
  <1>5. SlotInv' /\ InodeInv' /\ FamilyInv'
    <2>1. /\ "s_sleep" \notin Resumed \cup {"x_dead"}
          /\ StateAt("s_sleep") = "RUNNING" /\ StateAt(at[p]) = "RUNNING"
      BY <1>2, Zenon DEF Resumed, StateAt
    <2> QED  BY <1>0, <1>2, <2>1, QuietMove, Zenon DEF table, inode, switch, obs
  <1> QED  BY <1>3, <1>4, <1>5, Zenon DEF IInv

LEMMA SleepTidyInv == ASSUME IInv, NEW c \in CPU, NEW p \in Slot, SleepTidy(c, p) PROVE IInv'
  <1>0. /\ TypeOK /\ On(c, p, "s_tidy") /\ Goto(p, "i_acquire")
        /\ ptlock' = NoCpu /\ popcli(c, saved[p])
        /\ chan' = [chan EXCEPT ![p] = None] /\ saved' = [saved EXCEPT ![p] = FALSE]
        /\ UNCHANGED <<state, pid, parent, killed, exitstatus, nextpid, inode, cproc, spc, nxt, ctx, np, obs>>
    BY Zenon DEF SleepTidy, AfterSleep, ReleaseAfterSched, RestoreIntena, IInv
  <1>1. "s_tidy" \in Labels /\ "i_acquire" \in Labels  BY Zenon DEF Labels
  <1>2. /\ cproc[c] = p /\ spc[c] = "run" /\ at[p] = "s_tidy" /\ pc[p] = "s_tidy"
        /\ irq[p] = "none" /\ Moves(p, "i_acquire") /\ pc'[p] = "i_acquire" /\ irq'[p] = "none"
        /\ pc' \in [Slot -> Labels] /\ irq' = irq
    <2>1. Steps(c, p, "s_tidy", "i_acquire")  BY <1>0, <1>1, SyscallFacts, Zenon
    <2> QED  BY <2>1, Zenon DEF Steps
  <1>3. CpuInv' /\ CpusOK'
    <2>1. Depth("i_acquire") = 0 /\ "i_acquire" \notin PtCode \cup IcCode
      BY <1>2, Zenon DEF PtCode, IcCode, Depth
    <2>2. ncli[c] = 1 /\ ptlock = c /\ saved[p]
      <3>1. Runs(c, p)  BY <1>2, CpuFacts, Zenon DEF IInv
      <3>2. saved[p]  BY <1>2, Zenon DEF IInv, SlotInv
      <3> QED  BY <1>2, <3>1, <3>2, Zenon DEF Runs, PtCode, IcCode, Depth
    <2>3. /\ \A d \in CPU \ {c} : ncli'[d] = ncli[d] /\ intena'[d] = intena[d] /\ intr'[d] = intr[d]
          /\ ncli'[c] = 0 /\ intr'[c] = TRUE /\ CpusOK'
      <3>1. saved[p] \in BOOLEAN  BY <1>0, Zenon DEF TypeOK
      <3>2. Registers(c, 0, saved[p], TRUE)  BY <1>0, <2>2, <3>1, PopFirst, Zenon
      <3> QED  BY <3>2, Zenon DEF Registers
    <2>4. CpusOK'  BY <2>3, Zenon
    <2>5. /\ ncli'[c] = Depth("i_acquire") /\ (intr'[c] <=> (irq'[p] = "none" /\ Depth("i_acquire") = 0))
          /\ "i_acquire" \in PtCode => ptlock' = c
          /\ "i_acquire" \in IcCode => iclock' = c
          /\ "i_acquire" \in (PtCode \cup IcCode) \ Resumed => (intena'[c] <=> irq'[p] = "none")
      BY <1>0, <1>2, <2>1, <2>2, <2>3, Zenon DEF inode
    <2>6. /\ ptlock' = ptlock \/ ptlock \in {c, NoCpu}
          /\ iclock' = iclock \/ iclock \in {c, NoCpu}
          /\ UNCHANGED <<cproc, spc>>
      BY <1>0, <2>2, Zenon DEF inode, switch
    <2> QED  BY <1>0, <1>2, <2>3, <2>4, <2>5, <2>6, CpuMove, Zenon DEF IInv
  <1>4. TypeOK'  BY <1>0, <1>2, <1>3, ProcAssumption, Zenon
    DEF TypeOK, CpusOK, ProcAssumption, table, inode, switch, obs
  <1>5. SlotInv' /\ InodeInv' /\ FamilyInv'
    <2>1. /\ "i_acquire" \notin Resumed \cup {"x_dead"}
          /\ StateAt("i_acquire") = "RUNNING" /\ StateAt(at[p]) = "RUNNING"
      BY <1>2, Zenon DEF Resumed, StateAt
    <2>2. \A q \in Slot \ {p} : chan'[q] = chan[q] /\ saved'[q] = saved[q]
      BY <1>0, Zenon DEF TypeOK
    <2>3. UNCHANGED <<state, pid, parent, killed, exitstatus, ibusy, cproc, ctx, np, reaped>>
      BY <1>0, Zenon DEF inode, obs
    <2> QED  BY <1>2, <2>1, <2>2, <2>3, QuietMove, Zenon
  <1> QED  BY <1>3, <1>4, <1>5, Zenon DEF IInv

LEMMA WaitTidyInv == ASSUME IInv, NEW c \in CPU, NEW p \in Slot, WaitTidy(c, p) PROVE IInv'
  <1>0. /\ TypeOK /\ On(c, p, "w_tidy") /\ Goto(p, "w_scan")
        /\ intena' = [intena EXCEPT ![c] = saved[p]]
        /\ chan' = [chan EXCEPT ![p] = None] /\ saved' = [saved EXCEPT ![p] = FALSE]
        /\ UNCHANGED <<state, pid, parent, killed, exitstatus, nextpid, ptlock, inode, ncli, intr, cproc, spc,
                       nxt, ctx, np, obs>>
    BY Zenon DEF WaitTidy, RestoreIntena, IInv
  <1>1. "w_tidy" \in Labels /\ "w_scan" \in Labels  BY Zenon DEF Labels
  <1>2. /\ cproc[c] = p /\ spc[c] = "run" /\ at[p] = "w_tidy" /\ pc[p] = "w_tidy"
        /\ irq[p] = "none" /\ Moves(p, "w_scan") /\ pc'[p] = "w_scan" /\ irq'[p] = "none"
        /\ pc' \in [Slot -> Labels] /\ irq' = irq
    <2>1. Steps(c, p, "w_tidy", "w_scan")  BY <1>0, <1>1, SyscallFacts, Zenon
    <2> QED  BY <2>1, Zenon DEF Steps
  <1>3. CpuInv' /\ CpusOK'
    <2>1. Depth("w_scan") = 1 /\ "w_scan" \notin IcCode
      BY <1>2, Zenon DEF PtCode, IcCode, Depth
    <2>2. ncli[c] = 1 /\ ptlock = c /\ saved[p] /\ ~intr[c]
      <3>1. Runs(c, p)  BY <1>2, CpuFacts, Zenon DEF IInv
      <3>2. saved[p]  BY <1>2, Zenon DEF IInv, SlotInv
      <3>3. ncli[c] = 1 /\ ptlock = c  BY <1>2, <3>1, Zenon DEF Runs, PtCode, IcCode, Depth
      <3>4. ncli[c] # 0  BY <3>3
      <3> QED  BY <3>1, <3>2, <3>3, <3>4, Zenon DEF Runs
    <2>3. /\ \A d \in CPU \ {c} : ncli'[d] = ncli[d] /\ intena'[d] = intena[d] /\ intr'[d] = intr[d]
          /\ ncli'[c] = 1 /\ intena'[c] = saved[p] /\ intr'[c] = intr[c]
      BY <1>0, <2>2, Zenon DEF TypeOK
    <2>4. CpusOK'  BY <1>0, <2>2, Zenon DEF TypeOK, CpusOK
    <2>5. /\ ncli'[c] = Depth("w_scan") /\ (intr'[c] <=> (irq'[p] = "none" /\ Depth("w_scan") = 0))
          /\ "w_scan" \in PtCode => ptlock' = c
          /\ "w_scan" \in IcCode => iclock' = c
          /\ "w_scan" \in (PtCode \cup IcCode) \ Resumed => (intena'[c] <=> irq'[p] = "none")
      <3>1. Depth("w_scan") # 0  BY <2>1
      <3> QED  BY <1>0, <1>2, <2>1, <2>2, <2>3, <3>1, Zenon DEF inode
    <2>6. /\ ptlock' = ptlock \/ ptlock \in {c, NoCpu}
          /\ iclock' = iclock \/ iclock \in {c, NoCpu}
          /\ UNCHANGED <<cproc, spc>>
      BY <1>0, <2>2, Zenon DEF inode, switch
    <2> QED  BY <1>0, <1>2, <2>3, <2>4, <2>5, <2>6, CpuMove, Zenon DEF IInv
  <1>4. TypeOK'  BY <1>0, <1>2, <1>3, ProcAssumption, Zenon
    DEF TypeOK, CpusOK, ProcAssumption, table, inode, switch, obs
  <1>5. SlotInv' /\ InodeInv' /\ FamilyInv'
    <2>1. /\ "w_scan" \notin Resumed \cup {"x_dead"}
          /\ StateAt("w_scan") = "RUNNING" /\ StateAt(at[p]) = "RUNNING"
      BY <1>2, Zenon DEF Resumed, StateAt
    <2>2. \A q \in Slot \ {p} : chan'[q] = chan[q] /\ saved'[q] = saved[q]
      BY <1>0, Zenon DEF TypeOK
    <2>3. UNCHANGED <<state, pid, parent, killed, exitstatus, ibusy, cproc, ctx, np, reaped>>
      BY <1>0, Zenon DEF inode, obs
    <2> QED  BY <1>2, <2>1, <2>2, <2>3, QuietMove, Zenon
  <1> QED  BY <1>3, <1>4, <1>5, Zenon DEF IInv

LEMMA forkretInv == ASSUME IInv, NEW c \in CPU, NEW p \in Slot, forkret(c, p) PROVE IInv'
  <1>0. /\ TypeOK /\ On(c, p, "forkret") /\ Goto(p, "user")
        /\ ptlock' = NoCpu
        /\ ncli' = [ncli EXCEPT ![c] = @ - 1] /\ intr' = [intr EXCEPT ![c] = TRUE]
        /\ UNCHANGED <<table, nextpid, inode, intena, switch, np, obs>>
    BY Zenon DEF forkret, IInv
  <1>1. "forkret" \in Labels /\ "user" \in Labels  BY Zenon DEF Labels
  <1>2. /\ cproc[c] = p /\ spc[c] = "run" /\ at[p] = "forkret" /\ pc[p] = "forkret"
        /\ irq[p] = "none" /\ Moves(p, "user") /\ pc'[p] = "user" /\ irq'[p] = "none"
        /\ pc' \in [Slot -> Labels] /\ irq' = irq
    <2>1. Steps(c, p, "forkret", "user")  BY <1>0, <1>1, SyscallFacts, Zenon
    <2> QED  BY <2>1, Zenon DEF Steps
  <1>3. CpuInv' /\ CpusOK'
    <2>1. Depth("user") = 0 /\ "user" \notin PtCode \cup IcCode
      BY <1>2, Zenon DEF PtCode, IcCode, Depth
    <2>2. ncli[c] = 1 /\ ptlock = c
      <3>1. Runs(c, p)  BY <1>2, CpuFacts, Zenon DEF IInv
      <3> QED  BY <1>2, <3>1, Zenon DEF Runs, PtCode, IcCode, Depth
    <2>3. /\ \A d \in CPU \ {c} : ncli'[d] = ncli[d] /\ intena'[d] = intena[d] /\ intr'[d] = intr[d]
          /\ ncli'[c] = 0 /\ intr'[c] = TRUE /\ CpusOK'
      <3>1. CpusOK  BY <1>0, Zenon DEF CpusOK, TypeOK
      <3>2. ncli' = [ncli EXCEPT ![c] = 0] /\ 0 \in 0 .. 2  BY <1>0, <2>2, <3>1 DEF CpusOK
      <3>3. intena' = [intena EXCEPT ![c] = intena[c]] /\ intena[c] \in BOOLEAN
        BY <1>0, <3>1, Zenon DEF CpusOK
      <3>4. TypeOK /\ intr' = [intr EXCEPT ![c] = TRUE]  BY <1>0, Zenon
      <3>5. Registers(c, 0, intena[c], TRUE)  BY <3>2, <3>3, <3>4, SetRegisters, Zenon
      <3> QED  BY <3>5, Zenon DEF Registers
    <2>4. CpusOK'  BY <2>3, Zenon
    <2>5. /\ ncli'[c] = Depth("user") /\ (intr'[c] <=> (irq'[p] = "none" /\ Depth("user") = 0))
          /\ "user" \in PtCode => ptlock' = c
          /\ "user" \in IcCode => iclock' = c
          /\ "user" \in (PtCode \cup IcCode) \ Resumed => (intena'[c] <=> irq'[p] = "none")
      BY <1>0, <1>2, <2>1, <2>2, <2>3, Zenon DEF inode
    <2>6. /\ ptlock' = ptlock \/ ptlock \in {c, NoCpu}
          /\ iclock' = iclock \/ iclock \in {c, NoCpu}
          /\ UNCHANGED <<cproc, spc>>
      BY <1>0, <2>2, Zenon DEF inode, switch
    <2> QED  BY <1>0, <1>2, <2>3, <2>4, <2>5, <2>6, CpuMove, Zenon DEF IInv
  <1>4. TypeOK'  BY <1>0, <1>2, <1>3, ProcAssumption, Zenon
    DEF TypeOK, CpusOK, ProcAssumption, table, inode, switch, obs
  <1>5. SlotInv' /\ InodeInv' /\ FamilyInv'
    <2>1. /\ "user" \notin Resumed \cup {"x_dead"}
          /\ StateAt("user") = "RUNNING" /\ StateAt(at[p]) = "RUNNING"
      BY <1>2, Zenon DEF Resumed, StateAt
    <2> QED  BY <1>0, <1>2, <2>1, QuietMove, Zenon DEF table, inode, switch, obs
  <1> QED  BY <1>3, <1>4, <1>5, Zenon DEF IInv

----------------------------------------------------------------------------
(* The timer: only where interrupts are on, that is where no lock is held. *)
LEMMA TimerInv == ASSUME IInv, NEW c \in CPU, NEW p \in Slot, Timer(c, p) PROVE IInv'
  <1>0. /\ TypeOK /\ cproc[c] = p /\ spc[c] = "run" /\ intr[c] /\ irq[p] = "none"
        /\ irq' = [irq EXCEPT ![p] = "y_acquire"] /\ intr' = [intr EXCEPT ![c] = FALSE]
        /\ UNCHANGED <<table, nextpid, ptlock, inode, ncli, intena, switch, pc, np, obs>>
    BY Zenon DEF Timer, IInv
  <1>1. at[p] = pc[p]  BY <1>0, Zenon DEF at, At
  <1>2. Moves(p, "y_acquire") /\ irq'[p] = "y_acquire" /\ pc'[p] = pc[p]
    <2>1. \A q \in Slot : irq'[q] = IF q = p THEN "y_acquire" ELSE irq[q]  BY <1>0, Zenon DEF TypeOK
    <2>2. pc' = pc /\ irq'[p] = "y_acquire"  BY <1>0, <2>1, Zenon
    <2>3. At(p)' = "y_acquire" /\ \A q \in Slot \ {p} : At(q)' = At(q)  BY <2>1, <2>2, Zenon DEF At
    <2> QED  BY <2>1, <2>2, <2>3, Zenon DEF Moves, at
  <1>3. /\ ncli[c] = 0 /\ Depth(at[p]) = 0 /\ at[p] \notin PtCode \cup IcCode
        /\ at[p] # "x_dead"
    <2>1. Runs(c, p)  BY <1>0, CpuFacts, Zenon DEF IInv
    <2>2. ncli[c] = 0 /\ Depth(at[p]) = 0  BY <1>0, <2>1, Zenon DEF Runs
    <2>3. at[p] \notin PtCode \cup IcCode  BY <2>2 DEF Depth
    <2> QED  BY <1>0, <2>2, <2>3, Zenon DEF IInv, SlotInv
  <1>4. Depth("y_acquire") = 0 /\ "y_acquire" \notin PtCode \cup IcCode
    BY Zenon DEF Depth, PtCode, IcCode
  <1>5. CpuInv'
    <2>1. /\ \A d \in CPU \ {c} : ncli'[d] = ncli[d] /\ intena'[d] = intena[d] /\ intr'[d] = intr[d]
          /\ ncli'[c] = 0 /\ intr'[c] = FALSE
      <3>1. intr \in [CPU -> BOOLEAN] /\ UNCHANGED <<ncli, intena>>  BY <1>0, Zenon DEF TypeOK
      <3> QED  BY <1>0, <1>3, <3>1, Zenon
    <2>2. UNCHANGED <<cproc, spc, ptlock, iclock>>  BY <1>0, Zenon DEF switch, inode
    <2>3. intr'[c] <=> (irq'[p] = "none" /\ Depth("y_acquire") = 0)  BY <1>2, <2>1, Zenon
    <2> QED  BY <1>0, <1>2, <1>4, <2>1, <2>2, <2>3, CpuMove, Zenon DEF IInv
  <1>6. TypeOK'  BY <1>0, Zenon DEF TypeOK, table, inode, switch, obs
  <1>7. SlotInv' /\ InodeInv' /\ FamilyInv'
    <2>1. /\ "y_acquire" \notin Resumed \cup {"x_dead"} /\ StateAt("y_acquire") = "RUNNING"
          /\ StateAt(at[p]) = "RUNNING"
      BY <1>3, Zenon DEF Resumed, StateAt, PtCode
    <2> QED  BY <1>0, <1>1, <1>2, <1>3, <2>1, QuietMove, Zenon DEF table, inode, switch, obs
  <1> QED  BY <1>5, <1>6, <1>7, Zenon DEF IInv

LEMMA YieldReturnInv == ASSUME IInv, NEW c \in CPU, NEW p \in Slot, YieldReturn(c, p) PROVE IInv'
  <1>0. /\ TypeOK /\ On(c, p, "y_release") /\ Goto(p, "y_iret")
        /\ ptlock' = NoCpu /\ popcli(c, saved[p]) /\ saved' = [saved EXCEPT ![p] = FALSE]
        /\ UNCHANGED <<table, nextpid, inode, cproc, spc, nxt, ctx, np, obs>>
    BY Zenon DEF YieldReturn, ReleaseAfterSched, RestoreIntena, IInv
  <1>1. "y_release" \in IrqCode /\ "y_iret" \in IrqCode  BY Zenon DEF IrqCode
  <1>2. /\ cproc[c] = p /\ spc[c] = "run" /\ at[p] = "y_release" /\ irq[p] = "y_release"
        /\ Moves(p, "y_iret") /\ irq'[p] = "y_iret" /\ pc' = pc
        /\ irq' \in [Slot -> {"none", "y_acquire", "y_sched", "y_release", "y_iret"}]
    BY <1>0, <1>1, TrapFacts, Zenon
  <1>3. CpuInv' /\ CpusOK'
    <2>1. Depth("y_iret") = 0 /\ "y_iret" \notin PtCode \cup IcCode  BY Zenon DEF PtCode, IcCode, Depth
    <2>2. ncli[c] = 1 /\ ptlock = c /\ ~saved[p] /\ ~intr[c]
      <3>1. Runs(c, p)  BY <1>2, CpuFacts, Zenon DEF IInv
      <3>2. ~saved[p]  BY <1>2, Zenon DEF IInv, SlotInv
      <3> QED  BY <1>2, <3>1, <3>2, Zenon DEF Runs, PtCode, IcCode, Depth
    <2>3. /\ \A d \in CPU \ {c} : ncli'[d] = ncli[d] /\ intena'[d] = intena[d] /\ intr'[d] = intr[d]
          /\ ncli'[c] = 0 /\ ~intr'[c] /\ CpusOK'
      <3>1. saved[p] \in BOOLEAN  BY <1>0, Zenon DEF TypeOK
      <3>2. Registers(c, 0, saved[p], intr[c])  BY <1>0, <2>2, <3>1, PopFirst, Zenon
      <3> QED  BY <2>2, <3>2, Zenon DEF Registers
    <2>4. CpusOK'  BY <2>3, Zenon
    <2>5. intr'[c] <=> (irq'[p] = "none" /\ Depth("y_iret") = 0)  BY <1>2, <2>3, Zenon
    <2>6. iclock' = iclock /\ UNCHANGED <<cproc, spc>>  BY <1>0, Zenon DEF inode
    <2> QED  BY <1>0, <1>2, <2>1, <2>2, <2>3, <2>4, <2>5, <2>6, CpuMove, Zenon DEF IInv
  <1>4. TypeOK'  BY <1>0, <1>2, <1>3, Zenon DEF TypeOK, CpusOK, table, inode, obs
  <1>5. SlotInv' /\ InodeInv' /\ FamilyInv'
    <2>1. /\ "y_iret" \notin Resumed \cup {"x_dead"}
          /\ StateAt("y_iret") = "RUNNING" /\ StateAt(at[p]) = "RUNNING"
      BY <1>2, Zenon DEF Resumed, StateAt
    <2>2. \A q \in Slot \ {p} : chan'[q] = chan[q] /\ saved'[q] = saved[q]
      BY <1>0, Zenon DEF TypeOK, table
    <2>3. UNCHANGED <<state, pid, parent, killed, exitstatus, ibusy, cproc, ctx, np, reaped>>
      BY <1>0, Zenon DEF table, inode, obs
    <2>4. irq'[p] # "none" => pc'[p] \notin PtCode \cup IcCode \cup {"x_dead"}
      BY <1>2, Zenon DEF IInv, SlotInv
    <2> QED  BY <1>2, <2>1, <2>2, <2>3, <2>4, QuietMove, Zenon
  <1> QED  BY <1>3, <1>4, <1>5, Zenon DEF IInv

LEMMA IretInv == ASSUME IInv, NEW c \in CPU, NEW p \in Slot, Iret(c, p) PROVE IInv'
  <1>0. /\ TypeOK /\ On(c, p, "y_iret")
        /\ irq' = [irq EXCEPT ![p] = "none"] /\ intr' = [intr EXCEPT ![c] = TRUE]
        /\ UNCHANGED <<table, nextpid, ptlock, inode, ncli, intena, switch, pc, np, obs>>
    BY Zenon DEF Iret, IInv
  <1>1. cproc[c] = p /\ spc[c] = "run" /\ at[p] = "y_iret" /\ irq[p] = "y_iret"
    BY <1>0, OnFacts, Zenon DEF IrqCode
  <1>2. Moves(p, pc[p]) /\ irq'[p] = "none" /\ pc'[p] = pc[p]
    BY <1>0, Zenon DEF Moves, at, At, TypeOK
  <1>3. pc[p] \notin PtCode \cup IcCode \cup {"x_dead"}  BY <1>1, Zenon DEF IInv, SlotInv
  <1>4. CpuInv'
    <2>1. Depth(pc[p]) = 0  BY <1>3, Zenon DEF Depth
    <2>2. ncli[c] = 0  BY <1>1, Zenon DEF IInv, CpuInv, Depth, PtCode, IcCode
    <2>3. /\ \A d \in CPU \ {c} : ncli'[d] = ncli[d] /\ intena'[d] = intena[d] /\ intr'[d] = intr[d]
          /\ ncli'[c] = 0 /\ intr'[c] = TRUE
      BY <1>0, <2>2, Zenon DEF TypeOK
    <2>4. UNCHANGED <<cproc, spc, ptlock, iclock>>  BY <1>0, Zenon DEF switch, inode
    <2>5. intr'[c] <=> (irq'[p] = "none" /\ Depth(pc[p]) = 0)  BY <1>2, <2>1, <2>3, Zenon
    <2>6. pc[p] \notin PtCode \cup IcCode /\ Depth(pc[p]) = ncli'[c]  BY <1>3, <2>1, <2>3, Zenon
    <2> QED  BY <1>1, <1>2, <2>3, <2>4, <2>5, <2>6, CpuMove, Zenon DEF IInv
  <1>5. TypeOK'  BY <1>0, Zenon DEF TypeOK, table, inode, switch, obs
  <1>6. SlotInv' /\ InodeInv' /\ FamilyInv'
    <2>1. /\ pc[p] \notin Resumed \cup {"x_dead"}
          /\ StateAt(pc[p]) = "RUNNING" /\ StateAt(at[p]) = "RUNNING"
      BY <1>1, <1>3, Zenon DEF Resumed, StateAt, PtCode
    <2> QED  BY <1>0, <1>1, <1>2, <2>1, QuietMove, Zenon DEF table, inode, switch, obs
  <1> QED  BY <1>4, <1>5, <1>6, Zenon DEF IInv

LEMMA yieldInv == ASSUME IInv, NEW c \in CPU, NEW p \in Slot, yield(c, p) PROVE IInv'
  <1>0. /\ TypeOK /\ On(c, p, "y_acquire") /\ Goto(p, "y_sched")
        /\ pushcli(c) /\ ptlock = NoCpu /\ ptlock' = c
        /\ state' = [state EXCEPT ![p] = "RUNNABLE"]
        /\ UNCHANGED <<pid, parent, chan, killed, exitstatus, nextpid, inode, switch, np, obs>>
    BY Zenon DEF yield, AcquirePtlock, IInv
  <1>1. "y_acquire" \in IrqCode /\ "y_sched" \in IrqCode  BY Zenon DEF IrqCode
  <1>2. /\ cproc[c] = p /\ spc[c] = "run" /\ at[p] = "y_acquire" /\ irq[p] = "y_acquire"
        /\ Moves(p, "y_sched") /\ irq'[p] = "y_sched" /\ pc' = pc
        /\ irq' \in [Slot -> {"none", "y_acquire", "y_sched", "y_release", "y_iret"}]
    BY <1>0, <1>1, TrapFacts, Zenon
  <1>3. CpuInv' /\ CpusOK'
    <2>1. Depth(at[p]) = 0 /\ Depth("y_sched") = 1 /\ "y_sched" \notin IcCode
      BY <1>2, Zenon DEF PtCode, IcCode, Depth
    <2>2. irq'[p] = "none" <=> irq[p] = "none"  BY <1>2, Zenon
    <2> QED  BY <1>0, <1>2, <2>1, <2>2, PushMove, Zenon DEF IInv, inode, switch
  <1>4. TypeOK'  BY <1>0, <1>2, <1>3, Zenon DEF TypeOK, CpusOK, inode, switch, obs
  <1>5. state[p] = "RUNNING" /\ state'[p] = "RUNNABLE" /\ \A q \in Slot \ {p} : state'[q] = state[q]
    <2>1. ctx[p] = "on"  BY <1>2, Zenon DEF IInv, SlotInv
    <2>2. state[p] = StateAt(at[p])  BY <2>1, Zenon DEF IInv, SlotInv
    <2>3. state[p] = "RUNNING"  BY <1>2, <2>2, Zenon DEF StateAt
    <2> QED  BY <1>0, <2>3, Zenon DEF TypeOK
  <1>6. SlotInv'
    <2>1. "y_sched" \notin Resumed \cup {"x_dead"} /\ StateAt("y_sched") = "RUNNABLE"
      BY Zenon DEF Resumed, StateAt
    <2>2. \A q \in Slot \ {p} : Passive(q) /\ chan'[q] = chan[q] /\ saved'[q] = saved[q]
      BY <1>0, <1>5, Zenon DEF Passive, switch
    <2>3. irq'[p] # "none" => pc'[p] \notin PtCode \cup IcCode \cup {"x_dead"}
      BY <1>2, Zenon DEF IInv, SlotInv
    <2> QED  BY <1>0, <1>2, <1>5, <2>1, <2>2, <2>3, SlotMove, Zenon DEF IInv, switch
  <1>7. InodeInv'
    <2>1. \A q \in Slot : state'[q] = "SLEEPING" => state[q] = "SLEEPING"  BY <1>5, Zenon
    <2> QED  BY <1>0, <1>2, <2>1, InodeMove, Zenon DEF IInv, inode
  <1>8. FamilyInv'
    <2>1. \A q \in Slot : state'[q] = state[q] \/ (state[q] \in Awake /\ state'[q] \in Awake)
      BY <1>5, Zenon DEF Awake
    <2>2. \A q \in Slot : state'[q] = "SLEEPING" => state[q] = "SLEEPING"  BY <1>5, Zenon
    <2> QED  BY <1>0, <1>2, <2>1, <2>2, FamilyMove, Zenon DEF IInv, obs
  <1> QED  BY <1>3, <1>4, <1>6, <1>7, <1>8, Zenon DEF IInv

----------------------------------------------------------------------------
(* sleep() and exit() change the table only when no CPU is switching: then *)
(* a process that sleeps is off its CPU.                                   *)
LEMMA NoneSwitching ==
    ASSUME IInv, ptlock = NoCpu, NEW q \in Slot
    PROVE  /\ state[q] = "SLEEPING" => ctx[q] = "off"
           /\ pc[q] \notin {"s_release", "s_sleep"}
  <1>1. ASSUME ctx[q] = "on", at[q] \in PtCode PROVE FALSE
    <2>1. PICK d \in CPU : cproc[d] = q  BY <1>1, Zenon DEF IInv, SlotInv
    <2>2. ptlock = d  BY <1>1, <2>1, Zenon DEF IInv, CpuInv
    <2> QED  BY <2>2, ProcAssumption, Zenon DEF ProcAssumption
  <1>2. ctx[q] \in {"on", "off"}  BY Zenon DEF IInv, TypeOK
  <1>3. state[q] = "SLEEPING" => ctx[q] = "off"
    BY <1>1, <1>2, Zenon DEF IInv, SlotInv, StateAt, PtCode
  <1>4. ASSUME pc[q] \in {"s_release", "s_sleep"} PROVE FALSE
    <2>1. irq[q] = "none"  BY <1>4, Zenon DEF IInv, SlotInv, PtCode
    <2>2. at[q] = pc[q]  BY <2>1, Zenon DEF at, At
    <2>3. ctx[q] = "on"  BY <1>2, <1>4, <2>2, Zenon DEF IInv, SlotInv, Resumed
    <2> QED  BY <1>1, <1>4, <2>2, <2>3, Zenon DEF PtCode
  <1> QED  BY <1>3, <1>4, Zenon

LEMMA WaitSleepInv == ASSUME IInv, NEW c \in CPU, NEW p \in Slot, WaitSleep(c, p) PROVE IInv'
  <1>0. /\ TypeOK /\ On(c, p, "w_scan") /\ Goto(p, "w_sched")
        /\ Zombies(p) = {} /\ Children(p) # {} /\ ~killed[p]
        /\ chan' = [chan EXCEPT ![p] = p] /\ state' = [state EXCEPT ![p] = "SLEEPING"]
        /\ UNCHANGED <<pid, parent, killed, exitstatus, nextpid, ptlock, inode, cpus, switch, np, obs>>
    BY Zenon DEF WaitSleep, IInv
  <1>1. "w_scan" \in Labels /\ "w_sched" \in Labels  BY Zenon DEF Labels
  <1>2. /\ cproc[c] = p /\ spc[c] = "run" /\ at[p] = "w_scan" /\ pc[p] = "w_scan"
        /\ irq[p] = "none" /\ Moves(p, "w_sched") /\ pc'[p] = "w_sched" /\ irq'[p] = "none"
        /\ pc' \in [Slot -> Labels] /\ irq' = irq
    <2>1. Steps(c, p, "w_scan", "w_sched")  BY <1>0, <1>1, SyscallFacts, Zenon
    <2> QED  BY <2>1, Zenon DEF Steps
  <1>3. CpuInv' /\ CpusOK'
    <2>1. /\ at[p] \notin Resumed
          /\ "w_sched" \in PtCode <=> at[p] \in PtCode
          /\ "w_sched" \in IcCode <=> at[p] \in IcCode
      BY <1>2, Zenon DEF PtCode, IcCode, Resumed
    <2> QED  BY <1>0, <1>2, <2>1, StayMove, Zenon DEF IInv, inode, switch
  <1>4. TypeOK'  BY <1>0, <1>2, <1>3, ProcAssumption, Zenon
    DEF TypeOK, CpusOK, ProcAssumption, table, inode, switch, obs
  <1>5. /\ state[p] = "RUNNING" /\ state'[p] = "SLEEPING" /\ chan'[p] = p
        /\ \A q \in Slot \ {p} : state'[q] = state[q] /\ chan'[q] = chan[q]
    <2>1. ctx[p] = "on"  BY <1>2, Zenon DEF IInv, SlotInv
    <2>2. state[p] = StateAt(at[p])  BY <2>1, Zenon DEF IInv, SlotInv
    <2>3. state[p] = "RUNNING"  BY <1>2, <2>2, Zenon DEF StateAt
    <2> QED  BY <1>0, <2>3, Zenon DEF TypeOK
  <1>6. SlotInv'
    <2>1. "w_sched" \notin Resumed \cup {"x_dead"} /\ StateAt("w_sched") = "SLEEPING"
      BY Zenon DEF Resumed, StateAt
    <2>2. \A q \in Slot \ {p} : Passive(q) /\ chan'[q] = chan[q] /\ saved'[q] = saved[q]
      BY <1>0, <1>5, Zenon DEF Passive, switch
    <2>3. UNCHANGED <<cproc, ctx>>  BY <1>0, Zenon DEF switch
    <2> QED  BY <1>2, <1>5, <2>1, <2>2, <2>3, SlotMove, Zenon DEF IInv
  <1>7. \A q \in Slot \ {p} : pc'[q] = pc[q]  BY <1>2, Zenon DEF Moves
  <1>8. InodeInv'
    <2>1. \A q \in Slot : state'[q] = "SLEEPING" /\ chan'[q] = Inode =>
            \/ state[q] = "SLEEPING" /\ chan[q] = Inode
            \/ pc[q] = "s_sleep"
      <3>1. chan'[p] # Inode  BY <1>5, SlotFacts, Zenon
      <3> QED  BY <1>5, <3>1, Zenon
    <2>2. ibusy' = ibusy  BY <1>0, Zenon DEF inode
    <2> QED  BY <1>2, <1>7, <2>1, <2>2, InodeMove, Zenon DEF IInv
  <1>9. FamilyInv'
    <2>1. \A q \in Slot : state'[q] = state[q] \/ (state[q] \in Awake /\ state'[q] \in Awake)
      BY <1>5, Zenon DEF Awake
    <2>2. ~Forks(p)' /\ ~Exits(p)'  BY <1>2, Zenon DEF Forks, Exits
    <2>3. \A q \in Slot : state'[q] = "SLEEPING" /\ chan'[q] = q =>
            \/ state[q] = "SLEEPING" /\ chan[q] = q /\ killed'[q] = killed[q]
            \/ Children(q) # {} /\ Zombies(q) = {} /\ ~killed'[q]
      BY <1>0, <1>5, SlotFacts, Zenon
    <2> QED  BY <1>0, <1>7, <2>1, <2>2, <2>3, FamilyMove, Zenon DEF IInv, obs
  <1> QED  BY <1>3, <1>4, <1>6, <1>8, <1>9, Zenon DEF IInv

LEMMA SleepStateInv == ASSUME IInv, NEW c \in CPU, NEW p \in Slot, SleepState(c, p) PROVE IInv'
  <1>0. /\ TypeOK /\ On(c, p, "s_sleep") /\ Goto(p, "s_sched")
        /\ chan' = [chan EXCEPT ![p] = Inode] /\ state' = [state EXCEPT ![p] = "SLEEPING"]
        /\ UNCHANGED <<pid, parent, killed, exitstatus, nextpid, ptlock, inode, cpus, switch, np, obs>>
    BY Zenon DEF SleepState, IInv
  <1>1. "s_sleep" \in Labels /\ "s_sched" \in Labels  BY Zenon DEF Labels
  <1>2. /\ cproc[c] = p /\ spc[c] = "run" /\ at[p] = "s_sleep" /\ pc[p] = "s_sleep"
        /\ irq[p] = "none" /\ Moves(p, "s_sched") /\ pc'[p] = "s_sched" /\ irq'[p] = "none"
        /\ pc' \in [Slot -> Labels] /\ irq' = irq
    <2>1. Steps(c, p, "s_sleep", "s_sched")  BY <1>0, <1>1, SyscallFacts, Zenon
    <2> QED  BY <2>1, Zenon DEF Steps
  <1>3. CpuInv' /\ CpusOK'
    <2>1. /\ at[p] \notin Resumed
          /\ "s_sched" \in PtCode <=> at[p] \in PtCode
          /\ "s_sched" \in IcCode <=> at[p] \in IcCode
      BY <1>2, Zenon DEF PtCode, IcCode, Resumed
    <2> QED  BY <1>0, <1>2, <2>1, StayMove, Zenon DEF IInv, inode, switch
  <1>4. TypeOK'  BY <1>0, <1>2, <1>3, ProcAssumption, Zenon
    DEF TypeOK, CpusOK, ProcAssumption, table, inode, switch, obs
  <1>5. /\ state[p] = "RUNNING" /\ state'[p] = "SLEEPING" /\ chan'[p] = Inode
        /\ \A q \in Slot \ {p} : state'[q] = state[q] /\ chan'[q] = chan[q]
    <2>1. ctx[p] = "on"  BY <1>2, Zenon DEF IInv, SlotInv
    <2>2. state[p] = StateAt(at[p])  BY <2>1, Zenon DEF IInv, SlotInv
    <2>3. state[p] = "RUNNING"  BY <1>2, <2>2, Zenon DEF StateAt
    <2> QED  BY <1>0, <2>3, Zenon DEF TypeOK
  <1>6. SlotInv'
    <2>1. "s_sched" \notin Resumed \cup {"x_dead"} /\ StateAt("s_sched") = "SLEEPING"
      BY Zenon DEF Resumed, StateAt
    <2>2. \A q \in Slot \ {p} : Passive(q) /\ chan'[q] = chan[q] /\ saved'[q] = saved[q]
      BY <1>0, <1>5, Zenon DEF Passive, switch
    <2>3. UNCHANGED <<cproc, ctx>>  BY <1>0, Zenon DEF switch
    <2> QED  BY <1>2, <1>5, <2>1, <2>2, <2>3, SlotMove, Zenon DEF IInv
  <1>7. \A q \in Slot \ {p} : pc'[q] = pc[q]  BY <1>2, Zenon DEF Moves
  <1>8. InodeInv'
    <2>1. \A q \in Slot : state'[q] = "SLEEPING" /\ chan'[q] = Inode =>
            \/ state[q] = "SLEEPING" /\ chan[q] = Inode
            \/ pc[q] = "s_sleep"
      BY <1>2, <1>5, SlotFacts, Zenon
    <2>2. ibusy' = ibusy  BY <1>0, Zenon DEF inode
    <2> QED  BY <1>2, <1>7, <2>1, <2>2, InodeMove, Zenon DEF IInv
  <1>9. FamilyInv'
    <2>1. \A q \in Slot : state'[q] = state[q] \/ (state[q] \in Awake /\ state'[q] \in Awake)
      BY <1>5, Zenon DEF Awake
    <2>2. ~Forks(p)' /\ ~Exits(p)'  BY <1>2, Zenon DEF Forks, Exits
    <2>3. \A q \in Slot : state'[q] = "SLEEPING" /\ chan'[q] = q =>
            \/ state[q] = "SLEEPING" /\ chan[q] = q /\ killed'[q] = killed[q]
            \/ Children(q) # {} /\ Zombies(q) = {} /\ ~killed'[q]
      <3>1. chan'[p] # p /\ killed' = killed  BY <1>0, <1>5, SlotFacts, Zenon
      <3> QED  BY <1>5, <3>1, Zenon
    <2> QED  BY <1>0, <1>7, <2>1, <2>2, <2>3, FamilyMove, Zenon DEF IInv, obs
  <1> QED  BY <1>3, <1>4, <1>6, <1>8, <1>9, Zenon DEF IInv

LEMMA IlockTakeInv == ASSUME IInv, NEW c \in CPU, NEW p \in Slot, IlockTake(c, p) PROVE IInv'
  <1>0. /\ TypeOK /\ On(c, p, "i_test") /\ Goto(p, "locked")
        /\ ~ibusy /\ ibusy' = TRUE /\ iclock' = NoCpu /\ popcli(c, intena[c])
        /\ UNCHANGED <<table, nextpid, ptlock, switch, np, obs>>
    BY Zenon DEF IlockTake, IInv
  <1>1. "i_test" \in Labels /\ "locked" \in Labels  BY Zenon DEF Labels
  <1>2. /\ cproc[c] = p /\ spc[c] = "run" /\ at[p] = "i_test" /\ pc[p] = "i_test"
        /\ irq[p] = "none" /\ Moves(p, "locked") /\ pc'[p] = "locked" /\ irq'[p] = "none"
        /\ pc' \in [Slot -> Labels] /\ irq' = irq
    <2>1. Steps(c, p, "i_test", "locked")  BY <1>0, <1>1, SyscallFacts, Zenon
    <2> QED  BY <2>1, Zenon DEF Steps
  <1>3. CpuInv' /\ CpusOK'
    <2>1. Depth(at[p]) = 1 /\ at[p] \notin Resumed /\ Depth("locked") = 0 /\ at[p] \in IcCode
      BY <1>2, Zenon DEF PtCode, IcCode, Depth, Resumed
    <2> QED  BY <1>0, <1>2, <2>1, PopMove, Zenon DEF IInv, inode, switch
  <1>4. TypeOK'  BY <1>0, <1>2, <1>3, ProcAssumption, Zenon
    DEF TypeOK, CpusOK, ProcAssumption, table, inode, switch, obs
  <1>5. state[p] = "RUNNING"  BY <1>2, Zenon DEF IInv, SlotInv, StateAt
  <1>6. SlotInv'
    <2>1. "locked" \notin Resumed \cup {"x_dead"} /\ StateAt("locked") = "RUNNING"
      BY Zenon DEF Resumed, StateAt
    <2>2. \A q \in Slot \ {p} : Passive(q) /\ chan'[q] = chan[q] /\ saved'[q] = saved[q]
      BY <1>0, Zenon DEF Passive, switch, table
    <2> QED  BY <1>0, <1>2, <1>5, <2>1, <2>2, SlotMove, Zenon DEF IInv, switch, table
  <1>7. \A q \in Slot \ {p} : pc'[q] = pc[q]  BY <1>2, Zenon DEF Moves
  <1>8. InodeInv'
    <2>1. \A q \in Slot : pc[q] # "locked"  BY <1>0, Zenon DEF IInv, InodeInv
    <2> QED  BY <1>0, <1>7, <2>1, Zenon DEF InodeInv, InodeExclusive
  <1>9. FamilyInv'
    <2>1. ~Forks(p)' /\ ~Exits(p)'  BY <1>2, Zenon DEF Forks, Exits
    <2> QED  BY <1>0, <1>7, <2>1, FamilyMove, Zenon DEF IInv, obs, table
  <1> QED  BY <1>3, <1>4, <1>6, <1>8, <1>9, Zenon DEF IInv

LEMMA iunlockInv == ASSUME IInv, NEW c \in CPU, NEW p \in Slot, iunlock(c, p) PROVE IInv'
  <1>0. /\ TypeOK /\ On(c, p, "locked") /\ Goto(p, "u_wakeup")
        /\ iclock = NoCpu /\ iclock' = c /\ pushcli(c) /\ ibusy' = FALSE
        /\ UNCHANGED <<table, nextpid, ptlock, switch, np, obs>>
    BY Zenon DEF iunlock, IInv
  <1>1. "locked" \in Labels /\ "u_wakeup" \in Labels  BY Zenon DEF Labels
  <1>2. /\ cproc[c] = p /\ spc[c] = "run" /\ at[p] = "locked" /\ pc[p] = "locked"
        /\ irq[p] = "none" /\ Moves(p, "u_wakeup") /\ pc'[p] = "u_wakeup" /\ irq'[p] = "none"
        /\ pc' \in [Slot -> Labels] /\ irq' = irq
    <2>1. Steps(c, p, "locked", "u_wakeup")  BY <1>0, <1>1, SyscallFacts, Zenon
    <2> QED  BY <2>1, Zenon DEF Steps
  <1>3. CpuInv' /\ CpusOK'
    <2>1. Depth(at[p]) = 0 /\ Depth("u_wakeup") = 1 /\ "u_wakeup" \notin PtCode
      BY <1>2, Zenon DEF PtCode, IcCode, Depth
    <2> QED  BY <1>0, <1>2, <2>1, PushMove, Zenon DEF IInv, inode, switch
  <1>4. TypeOK'  BY <1>0, <1>2, <1>3, ProcAssumption, Zenon
    DEF TypeOK, CpusOK, ProcAssumption, table, inode, switch, obs
  <1>5. state[p] = "RUNNING"  BY <1>2, Zenon DEF IInv, SlotInv, StateAt
  <1>6. SlotInv'
    <2>1. "u_wakeup" \notin Resumed \cup {"x_dead"} /\ StateAt("u_wakeup") = "RUNNING"
      BY Zenon DEF Resumed, StateAt
    <2>2. \A q \in Slot \ {p} : Passive(q) /\ chan'[q] = chan[q] /\ saved'[q] = saved[q]
      BY <1>0, Zenon DEF Passive, switch, table
    <2> QED  BY <1>0, <1>2, <1>5, <2>1, <2>2, SlotMove, Zenon DEF IInv, switch, table
  <1>7. \A q \in Slot \ {p} : pc'[q] = pc[q]  BY <1>2, Zenon DEF Moves
  <1>8. InodeInv'
    <2>1. \A q \in Slot \ {p} : pc[q] # "locked"  BY <1>2, Zenon DEF IInv, InodeInv, InodeExclusive
    <2>2. \A q \in Slot : pc'[q] # "locked"
      BY <1>2, <1>7, <2>1, Zenon
    <2> QED  BY <1>2, <2>2, Zenon DEF InodeInv, InodeExclusive
  <1>9. FamilyInv'
    <2>1. ~Forks(p)' /\ ~Exits(p)'  BY <1>2, Zenon DEF Forks, Exits
    <2> QED  BY <1>0, <1>7, <2>1, FamilyMove, Zenon DEF IInv, obs, table
  <1> QED  BY <1>3, <1>4, <1>6, <1>8, <1>9, Zenon DEF IInv

LEMMA wakeupInv == ASSUME IInv, NEW c \in CPU, NEW p \in Slot, wakeup(c, p) PROVE IInv'
  <1>0. /\ TypeOK /\ On(c, p, "u_wakeup") /\ Goto(p, "user")
        /\ ptlock = NoCpu /\ iclock' = NoCpu /\ popcli(c, intena[c])
        /\ UNCHANGED <<pid, parent, chan, killed, exitstatus, nextpid, ptlock, ibusy, switch, np, obs>>
    BY Zenon DEF wakeup, IInv
  <1>1. "u_wakeup" \in Labels /\ "user" \in Labels  BY Zenon DEF Labels
  <1>2. /\ cproc[c] = p /\ spc[c] = "run" /\ at[p] = "u_wakeup" /\ pc[p] = "u_wakeup"
        /\ irq[p] = "none" /\ Moves(p, "user") /\ pc'[p] = "user" /\ irq'[p] = "none"
        /\ pc' \in [Slot -> Labels] /\ irq' = irq
    <2>1. Steps(c, p, "u_wakeup", "user")  BY <1>0, <1>1, SyscallFacts, Zenon
    <2> QED  BY <2>1, Zenon DEF Steps
  <1>3. CpuInv' /\ CpusOK'
    <2>1. Depth(at[p]) = 1 /\ at[p] \notin Resumed /\ Depth("user") = 0 /\ at[p] \in IcCode
      BY <1>2, Zenon DEF PtCode, IcCode, Depth, Resumed
    <2> QED  BY <1>0, <1>2, <2>1, PopMove, Zenon DEF IInv, inode, switch
  <1>5. /\ \A q \in Slot : \/ state'[q] = state[q] /\ ~(state[q] = "SLEEPING" /\ chan[q] = Inode)
                           \/ state[q] = "SLEEPING" /\ state'[q] = "RUNNABLE"
        /\ state' \in [Slot -> {"UNUSED", "EMBRYO", "SLEEPING", "RUNNABLE", "RUNNING", "ZOMBIE"}]
    <2>1. state' = [q \in Slot |-> IF state[q] = "SLEEPING" /\ chan[q] = Inode THEN "RUNNABLE"
                                   ELSE state[q]]
      BY Zenon DEF wakeup, wakeup1
    <2>2. state \in [Slot -> {"UNUSED", "EMBRYO", "SLEEPING", "RUNNABLE", "RUNNING", "ZOMBIE"}]
      BY <1>0, Zenon DEF TypeOK
    <2>3. \A q \in Slot : \/ state'[q] = state[q] /\ ~(state[q] = "SLEEPING" /\ chan[q] = Inode)
                          \/ state[q] = "SLEEPING" /\ state'[q] = "RUNNABLE"
      BY <2>1, Zenon
    <2>4. state' \in [Slot -> {"UNUSED", "EMBRYO", "SLEEPING", "RUNNABLE", "RUNNING", "ZOMBIE"}]
      BY <2>1, <2>2, Zenon
    <2> QED  BY <2>3, <2>4, Zenon
  <1>4. TypeOK'  BY <1>0, <1>2, <1>3, <1>5, ProcAssumption, Zenon
    DEF TypeOK, CpusOK, ProcAssumption, switch, obs
  <1>6. SlotInv'
    <2>1. "user" \notin Resumed \cup {"x_dead"} /\ StateAt("user") = "RUNNING"
      BY Zenon DEF Resumed, StateAt
    <2>2. state[p] = "RUNNING"  BY <1>2, Zenon DEF IInv, SlotInv, StateAt
    <2>3. \A q \in Slot : state[q] = "SLEEPING" => ctx[q] = "off"  BY <1>0, NoneSwitching, Zenon
    <2>4. \A q \in Slot \ {p} : Passive(q) /\ chan'[q] = chan[q] /\ saved'[q] = saved[q]
      BY <1>0, <1>5, <2>3, Zenon DEF Passive, switch
    <2>5. state'[p] = "RUNNING"  BY <1>5, <2>2, Zenon
    <2> QED  BY <1>0, <1>2, <2>1, <2>4, <2>5, SlotMove, Zenon DEF IInv, switch
  <1>7. \A q \in Slot \ {p} : pc'[q] = pc[q]  BY <1>2, Zenon DEF Moves
  <1>8. InodeInv'
    <2>1. \A q \in Slot : pc[q] \notin {"s_release", "s_sleep"}  BY <1>0, NoneSwitching, Zenon
    <2>2. \A q \in Slot : pc'[q] \notin {"s_release", "s_sleep"}
                          /\ ~(state'[q] = "SLEEPING" /\ chan'[q] = Inode)
      <3> SUFFICES ASSUME NEW q \in Slot
                   PROVE  /\ pc'[q] \notin {"s_release", "s_sleep"}
                          /\ ~(state'[q] = "SLEEPING" /\ chan'[q] = Inode)
        BY Zenon
      <3>1. pc'[q] \notin {"s_release", "s_sleep"}  BY <1>2, <1>7, <2>1, Zenon
      <3>2. ~(state'[q] = "SLEEPING" /\ chan'[q] = Inode)  BY <1>0, <1>5, Zenon
      <3> QED  BY <3>1, <3>2, Zenon
    <2>3. \A q \in Slot : pc'[q] = "locked" => pc[q] = "locked"  BY <1>2, <1>7, Zenon
    <2> QED  BY <1>0, <2>2, <2>3, Zenon DEF IInv, InodeInv, InodeExclusive
  <1>9. FamilyInv'
    <2>1. ~Forks(p)' /\ ~Exits(p)'  BY <1>2, Zenon DEF Forks, Exits
    <2>2. \A q \in Slot : state'[q] = state[q] \/ (state[q] \in Awake /\ state'[q] \in Awake)
      BY <1>5, Zenon DEF Awake
    <2>3. \A q \in Slot : state'[q] = "SLEEPING" => state[q] = "SLEEPING"  BY <1>5, Zenon
    <2> QED  BY <1>0, <1>7, <2>1, <2>2, <2>3, FamilyMove, Zenon DEF IInv, obs
  <1> QED  BY <1>3, <1>4, <1>6, <1>8, <1>9, Zenon DEF IInv

LEMMA exitInv == ASSUME IInv, NEW c \in CPU, NEW p \in Slot, exit(c, p) PROVE IInv'
  <1>0. /\ TypeOK /\ On(c, p, "user") /\ Goto(p, "x_acquire")
        /\ p # initproc /\ exitstatus' = [exitstatus EXCEPT ![p] = pid[p]]
        /\ UNCHANGED <<state, pid, parent, chan, killed, nextpid, ptlock, inode, cpus, switch, np, obs>>
    BY Zenon DEF exit, IInv
  <1>1. "user" \in Labels /\ "x_acquire" \in Labels  BY Zenon DEF Labels
  <1>2. /\ cproc[c] = p /\ spc[c] = "run" /\ at[p] = "user" /\ pc[p] = "user"
        /\ irq[p] = "none" /\ Moves(p, "x_acquire") /\ pc'[p] = "x_acquire" /\ irq'[p] = "none"
        /\ pc' \in [Slot -> Labels] /\ irq' = irq
    <2>1. Steps(c, p, "user", "x_acquire")  BY <1>0, <1>1, SyscallFacts, Zenon
    <2> QED  BY <2>1, Zenon DEF Steps
  <1>3. CpuInv' /\ CpusOK'
    <2>1. /\ at[p] \notin Resumed
          /\ "x_acquire" \in PtCode <=> at[p] \in PtCode
          /\ "x_acquire" \in IcCode <=> at[p] \in IcCode
      BY <1>2, Zenon DEF PtCode, IcCode, Resumed
    <2> QED  BY <1>0, <1>2, <2>1, StayMove, Zenon DEF IInv, inode, switch
  <1>4. TypeOK'  BY <1>0, <1>2, <1>3, ProcAssumption, Zenon
    DEF TypeOK, CpusOK, ProcAssumption, table, inode, switch, obs
  <1>5. state[p] = "RUNNING" /\ state' = state  BY <1>0, <1>2, Zenon DEF IInv, SlotInv, StateAt
  <1>6. SlotInv'
    <2>1. "x_acquire" \notin Resumed \cup {"x_dead"} /\ StateAt("x_acquire") = "RUNNING"
      BY Zenon DEF Resumed, StateAt
    <2>2. \A q \in Slot \ {p} : Passive(q) /\ chan'[q] = chan[q] /\ saved'[q] = saved[q]
      BY <1>0, <1>5, Zenon DEF Passive, switch
    <2> QED  BY <1>0, <1>2, <1>5, <2>1, <2>2, SlotMove, Zenon DEF IInv, switch
  <1>7. \A q \in Slot \ {p} : pc'[q] = pc[q]  BY <1>2, Zenon DEF Moves
  <1>8. InodeInv'
    BY <1>0, <1>2, <1>5, <1>7, InodeMove, Zenon DEF IInv, inode
  <1>9. FamilyInv'
    <2>1. ~Forks(p)'  BY <1>2, Zenon DEF Forks
    <2>2. exitstatus'[p] = pid[p] /\ \A q \in Slot \ {p} : exitstatus'[q] = exitstatus[q]
      BY <1>0, Zenon DEF TypeOK
    <2> QED  BY <1>0, <1>7, <2>1, <2>2, FamilyMove, Zenon DEF IInv, obs
  <1> QED  BY <1>3, <1>4, <1>6, <1>8, <1>9, Zenon DEF IInv

(* Where a slot that nobody runs stands.                                   *)
LEMMA UnusedFacts ==
    ASSUME IInv, NEW q \in Slot, state[q] \in {"UNUSED", "EMBRYO"}
    PROVE  ctx[q] = "off" /\ pc[q] = "forkret"
  <1>1. ctx[q] \in {"on", "off"} /\ irq[q] \in IrqCode \cup {"none"}  BY Zenon DEF IInv, TypeOK, IrqCode
  <1>2. ctx[q] = "off" /\ at[q] = "forkret"  BY <1>1, Zenon DEF IInv, SlotInv, StateAt
  <1> QED  BY <1>1, <1>2, Zenon DEF at, At, IrqCode

LEMMA allocprocInv == ASSUME IInv, NEW c \in CPU, NEW p \in Slot, allocproc(c, p) PROVE IInv'
  <1>0. /\ TypeOK /\ On(c, p, "user") /\ Goto(p, "f_copy")
        /\ nextpid' = nextpid + 1
        /\ UNCHANGED <<parent, chan, killed, exitstatus, ptlock, inode, cpus, switch, obs>>
    BY Zenon DEF allocproc, MayCall, IInv
  <1>1. "user" \in Labels /\ "f_copy" \in Labels  BY Zenon DEF Labels
  <1>2. /\ cproc[c] = p /\ spc[c] = "run" /\ at[p] = "user" /\ pc[p] = "user"
        /\ irq[p] = "none" /\ Moves(p, "f_copy") /\ pc'[p] = "f_copy" /\ irq'[p] = "none"
        /\ pc' \in [Slot -> Labels] /\ irq' = irq
    <2>1. Steps(c, p, "user", "f_copy")  BY <1>0, <1>1, SyscallFacts, Zenon
    <2> QED  BY <2>1, Zenon DEF Steps
  <1>10. PICK q \in Slot :
          /\ state[q] = "UNUSED" /\ state' = [state EXCEPT ![q] = "EMBRYO"]
          /\ pid' = [pid EXCEPT ![q] = nextpid] /\ np' = [np EXCEPT ![p] = q]
    BY Zenon DEF allocproc
  <1>3. CpuInv' /\ CpusOK'
    <2>1. /\ at[p] \notin Resumed
          /\ "f_copy" \in PtCode <=> at[p] \in PtCode
          /\ "f_copy" \in IcCode <=> at[p] \in IcCode
      BY <1>2, Zenon DEF PtCode, IcCode, Resumed
    <2> QED  BY <1>0, <1>2, <2>1, StayMove, Zenon DEF IInv, inode, switch
  <1>4. TypeOK'
    <2>1. /\ state \in [Slot -> {"UNUSED", "EMBRYO", "SLEEPING", "RUNNABLE", "RUNNING", "ZOMBIE"}]
          /\ pid \in [Slot -> Nat] /\ nextpid \in Nat /\ np \in [Slot -> Slot \cup {None}]
      BY <1>0, Zenon DEF TypeOK
    <2>2. nextpid' \in Nat  BY <1>0, <2>1
    <2>3. /\ state' \in [Slot -> {"UNUSED", "EMBRYO", "SLEEPING", "RUNNABLE", "RUNNING", "ZOMBIE"}]
          /\ pid' \in [Slot -> Nat] /\ np' \in [Slot -> Slot \cup {None}]
      BY <1>10, <2>1, Zenon
    <2> QED  BY <1>0, <1>2, <1>3, <2>2, <2>3, Zenon DEF TypeOK, CpusOK, table, inode, switch, obs
  <1>5. /\ state[p] = "RUNNING" /\ q # p /\ state'[p] = "RUNNING" /\ state'[q] = "EMBRYO"
        /\ \A r \in Slot \ {q} : state'[r] = state[r] /\ pid'[r] = pid[r]
        /\ np'[p] = q /\ \A r \in Slot \ {p} : np'[r] = np[r]
    <2>1. ctx[p] = "on"  BY <1>2, Zenon DEF IInv, SlotInv
    <2>2. state[p] = StateAt(at[p])  BY <2>1, Zenon DEF IInv, SlotInv
    <2>3. state[p] = "RUNNING"  BY <1>2, <2>2, Zenon DEF StateAt
    <2>4. q # p  BY <1>10, <2>3, Zenon
    <2>5. state'[q] = "EMBRYO" /\ \A r \in Slot \ {q} : state'[r] = state[r] /\ pid'[r] = pid[r]
      BY <1>0, <1>10, Zenon DEF TypeOK
    <2>6. np'[p] = q /\ \A r \in Slot \ {p} : np'[r] = np[r]  BY <1>0, <1>10, Zenon DEF TypeOK
    <2> QED  BY <2>3, <2>4, <2>5, <2>6, Zenon
  <1>11. ctx[q] = "off" /\ pc[q] = "forkret"  BY <1>10, UnusedFacts, Zenon
  <1>6. SlotInv'
    <2>1. "f_copy" \notin Resumed \cup {"x_dead"} /\ StateAt("f_copy") = "RUNNING"
      BY Zenon DEF Resumed, StateAt
    <2>2. \A r \in Slot \ {p} : Passive(r) /\ chan'[r] = chan[r] /\ saved'[r] = saved[r]
      BY <1>0, <1>5, <1>10, <1>11, Zenon DEF Passive, switch
    <2> QED  BY <1>0, <1>2, <1>5, <2>1, <2>2, SlotMove, Zenon DEF IInv, switch
  <1>7. \A r \in Slot \ {p} : pc'[r] = pc[r]  BY <1>2, Zenon DEF Moves
  <1>8. InodeInv'
    <2>1. \A r \in Slot : state'[r] = "SLEEPING" => state[r] = "SLEEPING" /\ chan'[r] = chan[r]
      BY <1>0, <1>5, Zenon
    <2>2. ibusy' = ibusy  BY <1>0, Zenon DEF inode
    <2> QED  BY <1>2, <1>7, <2>1, <2>2, InodeMove, Zenon DEF IInv
  <1>9. FamilyInv'
    <2>1. \A r \in Slot \ {p} : Forks(r)' = Forks(r) /\ Exits(r)' = Exits(r)
      BY <1>7, Zenon DEF Forks, Exits
    <2>2. Forks(p)' /\ ~Exits(p)' /\ pc'[p] = "f_copy"  BY <1>2, Zenon DEF Forks, Exits
    <2>3. \A r \in Slot : Forks(r) => np[r] \in Slot /\ np[r] # q  BY <1>10, Zenon DEF IInv, FamilyInv
    <2>4. ASSUME NEW r \in Slot, Forks(r)' PROVE
            /\ np'[r] \in Slot /\ state'[np'[r]] = "EMBRYO"
            /\ parent'[np'[r]] = IF pc'[r] = "f_copy" THEN None ELSE r
      <3>1. CASE r = p
        <4>1. parent'[q] = None  BY <1>0, <1>10, ParentFacts, Zenon DEF IInv
        <4> QED  BY <1>5, <2>2, <3>1, <4>1, Zenon
      <3>2. CASE r # p
        <4>1. np'[r] = np[r] /\ pc'[r] = pc[r] /\ np[r] \in Slot /\ np[r] # q /\ Forks(r)
          BY <1>5, <1>7, <2>1, <2>3, <2>4, <3>2, Zenon
        <4>2. state[np[r]] = "EMBRYO" /\ parent[np[r]] = IF pc[r] = "f_copy" THEN None ELSE r
          BY <4>1, ForkFacts, Zenon DEF IInv
        <4> QED  BY <1>0, <1>5, <4>1, <4>2, Zenon
      <3> QED  BY <3>1, <3>2, Zenon
    <2>5. \A r, s \in Slot : Forks(r)' /\ Forks(s)' /\ np'[r] = np'[s] => r = s
      <3> SUFFICES ASSUME NEW r \in Slot, NEW t \in Slot, Forks(r)', Forks(t)', np'[r] = np'[t]
                   PROVE  r = t
        BY Zenon
      <3>1. \A u \in Slot \ {p} : Forks(u)' => Forks(u) /\ np'[u] = np[u] /\ np[u] # q
        BY <1>5, <2>1, <2>3, Zenon
      <3>2. CASE r = p \/ t = p  BY <1>5, <3>1, <3>2, Zenon
      <3>3. CASE r # p /\ t # p
        <4>1. Forks(r) /\ Forks(t) /\ np[r] = np[t]  BY <3>1, <3>3, Zenon
        <4> QED  BY <4>1, OneFork, Zenon DEF IInv
      <3> QED  BY <3>2, <3>3, Zenon
    <2>6. \A r \in Slot : parent'[r] # r /\ (state'[r] = "UNUSED" => parent'[r] = None)
      <3>1. \A r \in Slot : state'[r] = "UNUSED" => state[r] = "UNUSED"  BY <1>5, Zenon
      <3>2. \A r \in Slot : parent[r] # r /\ (state[r] = "UNUSED" => parent[r] = None)
        BY ParentFacts, Zenon DEF IInv
      <3> QED  BY <1>0, <3>1, <3>2, Zenon
    <2>7. /\ parent'[initproc] = None /\ ~Exits(initproc)'
          /\ state'[initproc] \notin {"UNUSED", "EMBRYO", "ZOMBIE"}
      <3>1. parent[initproc] = None /\ ~Exits(initproc) /\ state[initproc] \notin {"UNUSED", "EMBRYO", "ZOMBIE"}
        BY InitFacts, Zenon DEF IInv
      <3>2. initproc \in Slot /\ initproc # q  BY <1>10, <3>1, SlotFacts, Zenon
      <3> QED  BY <1>0, <1>5, <2>1, <2>2, <3>1, <3>2, Zenon
    <2>8. \A r \in Slot : Exits(r)' => exitstatus'[r] = pid'[r]
      <3> SUFFICES ASSUME NEW r \in Slot, Exits(r)' PROVE exitstatus'[r] = pid'[r]  BY Zenon
      <3>1. r # p /\ Exits(r)  BY <2>1, <2>2, Zenon
      <3>2. r # q  BY <1>11, <3>1, Zenon DEF Exits
      <3>3. exitstatus[r] = pid[r]  BY <3>1, ExitFacts, Zenon DEF IInv
      <3> QED  BY <1>0, <1>5, <3>2, <3>3, Zenon
    <2>9. ParentAlive'
      <3>1. \A r \in Slot : r # q => state'[r] = state[r] /\ parent'[r] = parent[r]  BY <1>0, <1>5, Zenon
      <3>2. state[q] = "UNUSED" /\ state'[q] = "EMBRYO"  BY <1>5, <1>10, Zenon
      <3>3. ParentAlive  BY InitFacts, Zenon DEF IInv
      <3> QED  BY <1>0, <3>1, <3>2, <3>3, AliveMove, Zenon
    <2>10. WaitersHaveReason'
      <3>1. \A r \in Slot : state'[r] = state[r] \/ state'[r] = "EMBRYO"  BY <1>5, Zenon
      <3>2. UNCHANGED <<parent, chan, killed>>  BY <1>0, Zenon
      <3>3. WaitersHaveReason  BY InitFacts, Zenon DEF IInv
      <3> QED  BY <3>1, <3>2, <3>3, ReasonMove, Zenon
    <2>11. StatusExchanged'  BY <1>0, InitFacts, Zenon DEF IInv, StatusExchanged, obs
    <2> QED  BY <2>4, <2>5, <2>6, <2>7, <2>8, <2>9, <2>10, <2>11, Zenon DEF FamilyInv
  <1> QED  BY <1>3, <1>4, <1>6, <1>8, <1>9, Zenon DEF IInv

LEMMA ForkFailInv == ASSUME IInv, NEW c \in CPU, NEW p \in Slot, ForkFail(c, p) PROVE IInv'
  <1>0. /\ TypeOK /\ On(c, p, "f_copy") /\ Goto(p, "user")
        /\ state' = [state EXCEPT ![np[p]] = "UNUSED"] /\ np' = [np EXCEPT ![p] = None]
        /\ UNCHANGED <<pid, parent, chan, killed, exitstatus, nextpid, ptlock, inode, cpus, switch, obs>>
    BY Zenon DEF ForkFail, IInv
  <1>1. "f_copy" \in Labels /\ "user" \in Labels  BY Zenon DEF Labels
  <1>2. /\ cproc[c] = p /\ spc[c] = "run" /\ at[p] = "f_copy" /\ pc[p] = "f_copy"
        /\ irq[p] = "none" /\ Moves(p, "user") /\ pc'[p] = "user" /\ irq'[p] = "none"
        /\ pc' \in [Slot -> Labels] /\ irq' = irq
    <2>1. Steps(c, p, "f_copy", "user")  BY <1>0, <1>1, SyscallFacts, Zenon
    <2> QED  BY <2>1, Zenon DEF Steps
  <1>3. CpuInv' /\ CpusOK'
    <2>1. /\ at[p] \notin Resumed
          /\ "user" \in PtCode <=> at[p] \in PtCode
          /\ "user" \in IcCode <=> at[p] \in IcCode
      BY <1>2, Zenon DEF PtCode, IcCode, Resumed
    <2> QED  BY <1>0, <1>2, <2>1, StayMove, Zenon DEF IInv, inode, switch
  <1>10. np[p] \in Slot /\ state[np[p]] = "EMBRYO" /\ state[p] = "RUNNING" /\ np[p] # p
        /\ parent[np[p]] = None
    BY <1>2, Zenon DEF IInv, FamilyInv, Forks, SlotInv, StateAt
  <1>11. ctx[np[p]] = "off" /\ pc[np[p]] = "forkret"  BY <1>10, UnusedFacts, Zenon
  <1>4. TypeOK'  BY <1>0, <1>2, <1>3, <1>10, ProcAssumption, Zenon
    DEF TypeOK, CpusOK, ProcAssumption, table, inode, switch, obs
  <1>5. /\ state'[p] = "RUNNING" /\ state'[np[p]] = "UNUSED"
        /\ \A r \in Slot \ {np[p]} : state'[r] = state[r]
        /\ \A r \in Slot \ {p} : np'[r] = np[r]
    BY <1>0, <1>10, Zenon DEF TypeOK
  <1>6. SlotInv'
    <2>1. "user" \notin Resumed \cup {"x_dead"} /\ StateAt("user") = "RUNNING"
      BY Zenon DEF Resumed, StateAt
    <2>2. \A q \in Slot \ {p} : Passive(q) /\ chan'[q] = chan[q] /\ saved'[q] = saved[q]
      BY <1>0, <1>5, <1>10, <1>11, Zenon DEF Passive, switch
    <2> QED  BY <1>0, <1>2, <1>5, <2>1, <2>2, SlotMove, Zenon DEF IInv, switch
  <1>7. \A q \in Slot \ {p} : pc'[q] = pc[q]  BY <1>2, Zenon DEF Moves
  <1>8. InodeInv'
    <2>1. \A r \in Slot : state'[r] = "SLEEPING" => state[r] = "SLEEPING" /\ chan'[r] = chan[r]
      BY <1>0, <1>5, Zenon
    <2>2. ibusy' = ibusy  BY <1>0, Zenon DEF inode
    <2> QED  BY <1>2, <1>7, <2>1, <2>2, InodeMove, Zenon DEF IInv
  <1>9. FamilyInv'
    <2>1. \A r \in Slot \ {p} : Forks(r)' = Forks(r) /\ Exits(r)' = Exits(r)
      BY <1>7, Zenon DEF Forks, Exits
    <2>2. ~Forks(p)' /\ ~Exits(p)'  BY <1>2, Zenon DEF Forks, Exits
    <2>3. \A r \in Slot \ {p} : Forks(r) => np[r] \in Slot /\ np[r] # np[p]
      BY <1>2, Zenon DEF IInv, FamilyInv, Forks
    <2>4. ASSUME NEW r \in Slot, Forks(r)' PROVE
            /\ np'[r] \in Slot /\ state'[np'[r]] = "EMBRYO"
            /\ parent'[np'[r]] = IF pc'[r] = "f_copy" THEN None ELSE r
      <3>1. r # p  BY <2>2, <2>4, Zenon
      <3>2. np'[r] = np[r] /\ pc'[r] = pc[r] /\ np[r] \in Slot /\ np[r] # np[p] /\ Forks(r)
        BY <1>5, <1>7, <2>1, <2>3, <2>4, <3>1, Zenon
      <3>3. state[np[r]] = "EMBRYO" /\ parent[np[r]] = IF pc[r] = "f_copy" THEN None ELSE r
        BY <3>2, ForkFacts, Zenon DEF IInv
      <3> QED  BY <1>0, <1>5, <3>2, <3>3, Zenon
    <2>5. \A r, s \in Slot : Forks(r)' /\ Forks(s)' /\ np'[r] = np'[s] => r = s
      <3> SUFFICES ASSUME NEW r \in Slot, NEW t \in Slot, Forks(r)', Forks(t)', np'[r] = np'[t]
                   PROVE  r = t
        BY Zenon
      <3>1. r # p /\ t # p  BY <2>2, Zenon
      <3>2. Forks(r) /\ Forks(t) /\ np[r] = np[t]  BY <1>5, <2>1, <3>1, Zenon
      <3> QED  BY <3>2, OneFork, Zenon DEF IInv
    <2>6. \A r \in Slot : parent'[r] # r /\ (state'[r] = "UNUSED" => parent'[r] = None)
      <3>1. \A r \in Slot : state'[r] = "UNUSED" => state[r] = "UNUSED" \/ parent[r] = None
        BY <1>5, <1>10, Zenon
      <3>2. \A r \in Slot : parent[r] # r /\ (state[r] = "UNUSED" => parent[r] = None)
        BY ParentFacts, Zenon DEF IInv
      <3> QED  BY <1>0, <3>1, <3>2, Zenon
    <2>7. /\ parent'[initproc] = None /\ ~Exits(initproc)'
          /\ state'[initproc] \notin {"UNUSED", "EMBRYO", "ZOMBIE"}
      <3>1. parent[initproc] = None /\ ~Exits(initproc) /\ state[initproc] \notin {"UNUSED", "EMBRYO", "ZOMBIE"}
        BY InitFacts, Zenon DEF IInv
      <3>2. initproc \in Slot /\ initproc # np[p]  BY <1>10, <3>1, SlotFacts, Zenon
      <3> QED  BY <1>0, <1>5, <2>1, <2>2, <3>1, <3>2, Zenon
    <2>8. \A r \in Slot : Exits(r)' => exitstatus'[r] = pid'[r]
      BY <1>0, <2>1, <2>2, Zenon DEF IInv, FamilyInv
    <2>9. ParentAlive'
      <3>1. \A r \in Slot : r # np[p] => state'[r] = state[r] /\ parent'[r] = parent[r]
        BY <1>0, <1>5, Zenon
      <3>2. state[np[p]] = "EMBRYO" /\ state'[np[p]] = "UNUSED"  BY <1>5, <1>10, Zenon
      <3>3. ParentAlive  BY InitFacts, Zenon DEF IInv
      <3> QED  BY <1>0, <3>1, <3>2, <3>3, AliveMove, Zenon
    <2>10. WaitersHaveReason'
      <3>1. \A r \in Slot : state'[r] = state[r] \/ state'[r] = "UNUSED"  BY <1>5, Zenon
      <3>2. UNCHANGED <<parent, chan, killed>>  BY <1>0, Zenon
      <3>3. WaitersHaveReason  BY InitFacts, Zenon DEF IInv
      <3> QED  BY <3>1, <3>2, <3>3, ReasonMove, Zenon
    <2>11. StatusExchanged'  BY <1>0, InitFacts, Zenon DEF IInv, StatusExchanged, obs
    <2> QED  BY <2>4, <2>5, <2>6, <2>7, <2>8, <2>9, <2>10, <2>11, Zenon DEF FamilyInv
  <1> QED  BY <1>3, <1>4, <1>6, <1>8, <1>9, Zenon DEF IInv

LEMMA ForkReadyInv == ASSUME IInv, NEW c \in CPU, NEW p \in Slot, ForkReady(c, p) PROVE IInv'
  <1>0. /\ TypeOK /\ On(c, p, "f_ready") /\ Goto(p, "user")
        /\ state' = [state EXCEPT ![np[p]] = "RUNNABLE"] /\ np' = [np EXCEPT ![p] = None]
        /\ UNCHANGED <<pid, parent, chan, killed, exitstatus, nextpid, ptlock, inode, cpus, switch, obs>>
    BY Zenon DEF ForkReady, IInv
  <1>1. "f_ready" \in Labels /\ "user" \in Labels  BY Zenon DEF Labels
  <1>2. /\ cproc[c] = p /\ spc[c] = "run" /\ at[p] = "f_ready" /\ pc[p] = "f_ready"
        /\ irq[p] = "none" /\ Moves(p, "user") /\ pc'[p] = "user" /\ irq'[p] = "none"
        /\ pc' \in [Slot -> Labels] /\ irq' = irq
    <2>1. Steps(c, p, "f_ready", "user")  BY <1>0, <1>1, SyscallFacts, Zenon
    <2> QED  BY <2>1, Zenon DEF Steps
  <1>3. CpuInv' /\ CpusOK'
    <2>1. /\ at[p] \notin Resumed
          /\ "user" \in PtCode <=> at[p] \in PtCode
          /\ "user" \in IcCode <=> at[p] \in IcCode
      BY <1>2, Zenon DEF PtCode, IcCode, Resumed
    <2> QED  BY <1>0, <1>2, <2>1, StayMove, Zenon DEF IInv, inode, switch
  <1>10. np[p] \in Slot /\ state[np[p]] = "EMBRYO" /\ state[p] = "RUNNING" /\ np[p] # p
        /\ parent[np[p]] = p
    BY <1>2, Zenon DEF IInv, FamilyInv, Forks, SlotInv, StateAt
  <1>11. ctx[np[p]] = "off" /\ pc[np[p]] = "forkret"  BY <1>10, UnusedFacts, Zenon
  <1>4. TypeOK'  BY <1>0, <1>2, <1>3, <1>10, ProcAssumption, Zenon
    DEF TypeOK, CpusOK, ProcAssumption, table, inode, switch, obs
  <1>5. /\ state'[p] = "RUNNING" /\ state'[np[p]] = "RUNNABLE"
        /\ \A r \in Slot \ {np[p]} : state'[r] = state[r]
        /\ \A r \in Slot \ {p} : np'[r] = np[r]
    BY <1>0, <1>10, Zenon DEF TypeOK
  <1>6. SlotInv'
    <2>1. "user" \notin Resumed \cup {"x_dead"} /\ StateAt("user") = "RUNNING"
      BY Zenon DEF Resumed, StateAt
    <2>2. \A q \in Slot \ {p} : Passive(q) /\ chan'[q] = chan[q] /\ saved'[q] = saved[q]
      BY <1>0, <1>5, <1>10, <1>11, Zenon DEF Passive, switch
    <2> QED  BY <1>0, <1>2, <1>5, <2>1, <2>2, SlotMove, Zenon DEF IInv, switch
  <1>7. \A q \in Slot \ {p} : pc'[q] = pc[q]  BY <1>2, Zenon DEF Moves
  <1>8. InodeInv'
    BY <1>0, <1>2, <1>5, <1>7, InodeMove, Zenon DEF IInv, inode
  <1>9. FamilyInv'
    <2>1. \A r \in Slot \ {p} : Forks(r)' = Forks(r) /\ Exits(r)' = Exits(r)
      BY <1>7, Zenon DEF Forks, Exits
    <2>2. ~Forks(p)' /\ ~Exits(p)'  BY <1>2, Zenon DEF Forks, Exits
    <2>3. \A r \in Slot \ {p} : Forks(r) => np[r] \in Slot /\ np[r] # np[p]
      BY <1>2, Zenon DEF IInv, FamilyInv, Forks
    <2>4. ASSUME NEW r \in Slot, Forks(r)' PROVE
            /\ np'[r] \in Slot /\ state'[np'[r]] = "EMBRYO"
            /\ parent'[np'[r]] = IF pc'[r] = "f_copy" THEN None ELSE r
      <3>1. r # p  BY <2>2, <2>4, Zenon
      <3>2. np'[r] = np[r] /\ pc'[r] = pc[r] /\ np[r] \in Slot /\ np[r] # np[p] /\ Forks(r)
        BY <1>5, <1>7, <2>1, <2>3, <2>4, <3>1, Zenon
      <3>3. state[np[r]] = "EMBRYO" /\ parent[np[r]] = IF pc[r] = "f_copy" THEN None ELSE r
        BY <3>2, ForkFacts, Zenon DEF IInv
      <3> QED  BY <1>0, <1>5, <3>2, <3>3, Zenon
    <2>5. \A r, s \in Slot : Forks(r)' /\ Forks(s)' /\ np'[r] = np'[s] => r = s
      <3> SUFFICES ASSUME NEW r \in Slot, NEW t \in Slot, Forks(r)', Forks(t)', np'[r] = np'[t]
                   PROVE  r = t
        BY Zenon
      <3>1. r # p /\ t # p  BY <2>2, Zenon
      <3>2. Forks(r) /\ Forks(t) /\ np[r] = np[t]  BY <1>5, <2>1, <3>1, Zenon
      <3> QED  BY <3>2, OneFork, Zenon DEF IInv
    <2>6. \A r \in Slot : parent'[r] # r /\ (state'[r] = "UNUSED" => parent'[r] = None)
      <3>1. \A r \in Slot : state'[r] = "UNUSED" => state[r] = "UNUSED"  BY <1>5, Zenon
      <3>2. \A r \in Slot : parent[r] # r /\ (state[r] = "UNUSED" => parent[r] = None)
        BY ParentFacts, Zenon DEF IInv
      <3> QED  BY <1>0, <3>1, <3>2, Zenon
    <2>7. /\ parent'[initproc] = None /\ ~Exits(initproc)'
          /\ state'[initproc] \notin {"UNUSED", "EMBRYO", "ZOMBIE"}
      <3>1. parent[initproc] = None /\ ~Exits(initproc) /\ state[initproc] \notin {"UNUSED", "EMBRYO", "ZOMBIE"}
        BY InitFacts, Zenon DEF IInv
      <3>2. initproc \in Slot /\ initproc # np[p]  BY <1>10, <3>1, SlotFacts, Zenon
      <3> QED  BY <1>0, <1>5, <2>1, <2>2, <3>1, <3>2, Zenon
    <2>8. \A r \in Slot : Exits(r)' => exitstatus'[r] = pid'[r]
      BY <1>0, <2>1, <2>2, Zenon DEF IInv, FamilyInv
    <2>9. ParentAlive'
      <3>1. \A r \in Slot : r # np[p] => state'[r] = state[r] /\ parent'[r] = parent[r]
        BY <1>0, <1>5, Zenon
      <3>2. /\ state'[np[p]] = "RUNNABLE" /\ state[np[p]] = "EMBRYO"
            /\ parent'[np[p]] = p /\ p # None /\ state'[p] = "RUNNING"
        BY <1>0, <1>5, <1>10, SlotFacts, Zenon
      <3>3. ParentAlive  BY InitFacts, Zenon DEF IInv
      <3>4. \A r \in Slot \ {initproc} : state'[r] \notin {"UNUSED", "EMBRYO"} =>
              \/ parent'[r] = parent[r] /\ state[r] \notin {"UNUSED", "EMBRYO"}
              \/ parent'[r] # None /\ state'[parent'[r]] \notin {"UNUSED", "EMBRYO", "ZOMBIE"}
        BY <3>1, <3>2, Zenon
      <3>5. \A r \in Slot : state[r] \notin {"UNUSED", "EMBRYO", "ZOMBIE"} =>
              state'[r] \notin {"UNUSED", "EMBRYO", "ZOMBIE"}
        BY <3>1, <3>2, Zenon
      <3> QED  BY <1>0, <3>3, <3>4, <3>5, AliveMove, Zenon
    <2>10. WaitersHaveReason'
      <3>1. \A r \in Slot : state'[r] = state[r] \/ state'[r] = "RUNNABLE"  BY <1>5, Zenon
      <3>2. UNCHANGED <<parent, chan, killed>>  BY <1>0, Zenon
      <3>3. WaitersHaveReason  BY InitFacts, Zenon DEF IInv
      <3> QED  BY <3>1, <3>2, <3>3, ReasonMove, Zenon
    <2>11. StatusExchanged'  BY <1>0, InitFacts, Zenon DEF IInv, StatusExchanged, obs
    <2> QED  BY <2>4, <2>5, <2>6, <2>7, <2>8, <2>9, <2>10, <2>11, Zenon DEF FamilyInv
  <1> QED  BY <1>3, <1>4, <1>6, <1>8, <1>9, Zenon DEF IInv

LEMMA ForkCopyInv == ASSUME IInv, NEW c \in CPU, NEW p \in Slot, ForkCopy(c, p) PROVE IInv'
  <1>0. /\ TypeOK /\ On(c, p, "f_copy") /\ Goto(p, "f_ready")
        /\ parent' = [parent EXCEPT ![np[p]] = p]
        /\ UNCHANGED <<state, pid, chan, killed, exitstatus, nextpid, ptlock, inode, cpus, switch, np, obs>>
    BY Zenon DEF ForkCopy, IInv
  <1>1. "f_copy" \in Labels /\ "f_ready" \in Labels  BY Zenon DEF Labels
  <1>2. /\ cproc[c] = p /\ spc[c] = "run" /\ at[p] = "f_copy" /\ pc[p] = "f_copy"
        /\ irq[p] = "none" /\ Moves(p, "f_ready") /\ pc'[p] = "f_ready" /\ irq'[p] = "none"
        /\ pc' \in [Slot -> Labels] /\ irq' = irq
    <2>1. Steps(c, p, "f_copy", "f_ready")  BY <1>0, <1>1, SyscallFacts, Zenon
    <2> QED  BY <2>1, Zenon DEF Steps
  <1>3. CpuInv' /\ CpusOK'
    <2>1. /\ at[p] \notin Resumed
          /\ "f_ready" \in PtCode <=> at[p] \in PtCode
          /\ "f_ready" \in IcCode <=> at[p] \in IcCode
      BY <1>2, Zenon DEF PtCode, IcCode, Resumed
    <2> QED  BY <1>0, <1>2, <2>1, StayMove, Zenon DEF IInv, inode, switch
  <1>10. np[p] \in Slot /\ state[np[p]] = "EMBRYO" /\ state[p] = "RUNNING" /\ np[p] # p
        /\ parent[np[p]] = None
    BY <1>2, Zenon DEF IInv, FamilyInv, Forks, SlotInv, StateAt
  <1>11. ctx[np[p]] = "off" /\ pc[np[p]] = "forkret"  BY <1>10, UnusedFacts, Zenon
  <1>4. TypeOK'  BY <1>0, <1>2, <1>3, <1>10, ProcAssumption, Zenon
    DEF TypeOK, CpusOK, ProcAssumption, table, inode, switch, obs
  <1>5. /\ state' = state /\ state[p] = "RUNNING" /\ parent'[np[p]] = p /\ np' = np
        /\ \A r \in Slot \ {np[p]} : parent'[r] = parent[r]
    BY <1>0, <1>10, Zenon DEF TypeOK
  <1>6. SlotInv'
    <2>1. "f_ready" \notin Resumed \cup {"x_dead"} /\ StateAt("f_ready") = "RUNNING"
      BY Zenon DEF Resumed, StateAt
    <2>2. \A q \in Slot \ {p} : Passive(q) /\ chan'[q] = chan[q] /\ saved'[q] = saved[q]
      BY <1>0, <1>5, Zenon DEF Passive, switch
    <2> QED  BY <1>0, <1>2, <1>5, <2>1, <2>2, SlotMove, Zenon DEF IInv, switch
  <1>7. \A q \in Slot \ {p} : pc'[q] = pc[q]  BY <1>2, Zenon DEF Moves
  <1>8. InodeInv'
    BY <1>0, <1>2, <1>5, <1>7, InodeMove, Zenon DEF IInv, inode
  <1>9. FamilyInv'
    <2>1. \A r \in Slot \ {p} : Forks(r)' = Forks(r) /\ Exits(r)' = Exits(r)
      BY <1>7, Zenon DEF Forks, Exits
    <2>2. Forks(p) /\ Forks(p)' /\ ~Exits(p)' /\ pc'[p] = "f_ready"  BY <1>2, Zenon DEF Forks, Exits
    <2>3. \A r \in Slot \ {p} : Forks(r) => np[r] \in Slot /\ np[r] # np[p]
      BY <1>2, Zenon DEF IInv, FamilyInv, Forks
    <2>4. ASSUME NEW r \in Slot, Forks(r)' PROVE
            /\ np'[r] \in Slot /\ state'[np'[r]] = "EMBRYO"
            /\ parent'[np'[r]] = IF pc'[r] = "f_copy" THEN None ELSE r
      <3>1. CASE r = p  BY <1>5, <1>10, <2>2, <3>1, Zenon
      <3>2. CASE r # p
        <4>1. np'[r] = np[r] /\ pc'[r] = pc[r] /\ np[r] \in Slot /\ np[r] # np[p] /\ Forks(r)
          BY <1>0, <1>5, <1>7, <2>1, <2>3, <2>4, <3>2, Zenon
        <4>2. state[np[r]] = "EMBRYO" /\ parent[np[r]] = IF pc[r] = "f_copy" THEN None ELSE r
          BY <4>1, ForkFacts, Zenon DEF IInv
        <4> QED  BY <1>0, <1>5, <4>1, <4>2, Zenon
      <3> QED  BY <3>1, <3>2, Zenon
    <2>5. \A r, s \in Slot : Forks(r)' /\ Forks(s)' /\ np'[r] = np'[s] => r = s
      <3> SUFFICES ASSUME NEW r \in Slot, NEW t \in Slot, Forks(r)', Forks(t)', np'[r] = np'[t]
                   PROVE  r = t
        BY Zenon
      <3>1. Forks(r) /\ Forks(t) /\ np[r] = np[t]  BY <1>5, <2>1, <2>2, Zenon
      <3> QED  BY <3>1, OneFork, Zenon DEF IInv
    <2>6. \A r \in Slot : parent'[r] # r /\ (state'[r] = "UNUSED" => parent'[r] = None)
      <3>1. \A r \in Slot : parent[r] # r /\ (state[r] = "UNUSED" => parent[r] = None)
        BY ParentFacts, Zenon DEF IInv
      <3>2. state[np[p]] # "UNUSED"  BY <1>10, Zenon
      <3> QED  BY <1>5, <1>10, <3>1, <3>2, Zenon
    <2>7. /\ parent'[initproc] = None /\ ~Exits(initproc)'
          /\ state'[initproc] \notin {"UNUSED", "EMBRYO", "ZOMBIE"}
      <3>1. parent[initproc] = None /\ ~Exits(initproc) /\ state[initproc] \notin {"UNUSED", "EMBRYO", "ZOMBIE"}
        BY InitFacts, Zenon DEF IInv
      <3>2. initproc \in Slot /\ initproc # np[p]  BY <1>10, <3>1, SlotFacts, Zenon
      <3> QED  BY <1>5, <2>1, <2>2, <3>1, <3>2, Zenon
    <2>8. \A r \in Slot : Exits(r)' => exitstatus'[r] = pid'[r]
      BY <1>0, <2>1, <2>2, Zenon DEF IInv, FamilyInv
    <2>9. ParentAlive'
      <3>1. \A r \in Slot : r # np[p] => state'[r] = state[r] /\ parent'[r] = parent[r]  BY <1>5, Zenon
      <3>2. state'[np[p]] = "EMBRYO" /\ state[np[p]] = "EMBRYO"  BY <1>5, <1>10, Zenon
      <3>3. ParentAlive  BY InitFacts, Zenon DEF IInv
      <3> QED  BY <1>0, <3>1, <3>2, <3>3, AliveMove, Zenon
    <2>10. WaitersHaveReason'
      <3>1. \A r, t \in Slot : parent[t] = r => parent'[t] = r  BY <1>5, <1>10, SlotFacts, Zenon
      <3>2. \A t \in Slot : state'[t] = "ZOMBIE" => state[t] = "ZOMBIE" /\ parent'[t] = parent[t]
        BY <1>5, <1>10, Zenon
      <3>3. UNCHANGED <<state, chan, killed>>  BY <1>0, Zenon
      <3>4. WaitersHaveReason  BY InitFacts, Zenon DEF IInv
      <3> QED  BY <3>1, <3>2, <3>3, <3>4, ReasonMove, Zenon
    <2>11. StatusExchanged'  BY <1>0, InitFacts, Zenon DEF IInv, StatusExchanged, obs
    <2> QED  BY <2>4, <2>5, <2>6, <2>7, <2>8, <2>9, <2>10, <2>11, Zenon DEF FamilyInv
  <1> QED  BY <1>3, <1>4, <1>6, <1>8, <1>9, Zenon DEF IInv

LEMMA killInv == ASSUME IInv, NEW c \in CPU, NEW p \in Slot, kill(c, p) PROVE IInv'
  <1>0. /\ TypeOK /\ On(c, p, "user") /\ ptlock = NoCpu /\ kills' = kills + 1
        /\ UNCHANGED <<pid, parent, chan, exitstatus, nextpid, ptlock, inode, cpus, switch,
                       pc, irq, np, reaped>>
    BY Zenon DEF kill, MayCall, IInv
  <1>1. PICK x \in 0 .. nextpid - 1, q \in Slot :
          /\ killed' = [killed EXCEPT ![q] = TRUE]
          /\ state' = [state EXCEPT ![q] = Roused(@)]
          /\ targets' = targets \cup {x}
    BY Zenon DEF kill
  <1>2. /\ killed'[q] = TRUE /\ \A r \in Slot \ {q} : killed'[r] = killed[r] /\ state'[r] = state[r]
        /\ state'[q] = IF state[q] = "SLEEPING" THEN "RUNNABLE" ELSE state[q]
    BY <1>0, <1>1, Zenon DEF Roused, TypeOK
  <1>3. TypeOK'
    <2>1. x \in Nat
      <3>1. nextpid \in Nat  BY <1>0, Zenon DEF TypeOK
      <3> QED  BY <3>1
    <2>2. state' \in [Slot -> {"UNUSED", "EMBRYO", "SLEEPING", "RUNNABLE", "RUNNING", "ZOMBIE"}]
      BY <1>0, <1>1, Zenon DEF Roused, TypeOK
    <2>3. killed' \in [Slot -> BOOLEAN] /\ targets' \in SUBSET Nat
      BY <1>0, <1>1, <2>1, Zenon DEF TypeOK
    <2>4. kills' \in Nat
      <3>1. kills \in Nat  BY <1>0, Zenon DEF TypeOK
      <3> QED  BY <1>0, <3>1
    <2> QED  BY <1>0, <2>2, <2>3, <2>4, Zenon DEF TypeOK, inode, cpus, switch
  <1>4. at' = at  BY <1>0, Zenon DEF at, At
  <1>5. CpuInv'
    <2>1. UNCHANGED <<ncli, intena, intr, cproc, spc, ptlock, iclock, irq, at>>
      BY <1>0, <1>4, Zenon DEF cpus, switch, inode
    <2> QED  BY <2>1, SameCpus, Zenon DEF IInv
  <1>6. SlotInv'
    <2>1. state[q] = "SLEEPING" => ctx[q] = "off"  BY <1>0, NoneSwitching, Zenon
    <2>2. UNCHANGED <<ctx, cproc, irq, pc, at, chan, saved>>  BY <1>0, <1>4, Zenon DEF switch
    <2> SUFFICES ASSUME NEW r \in Slot
                 PROVE  SlotFits(r, ctx[r], irq[r], pc[r], at[r], state'[r], chan[r], saved[r])
      <3>1. \A r \in Slot : ctx[r] = "on" <=> \E d \in CPU : cproc[d] = r
        BY SlotKnown, Zenon DEF IInv
      <3> QED  BY <2>2, <3>1, SlotNext, Zenon
    <2>3. SlotFits(r, ctx[r], irq[r], pc[r], at[r], state[r], chan[r], saved[r])
      BY SlotKnown, Zenon DEF IInv
    <2>4. CASE state'[r] = state[r]  BY <2>3, <2>4, Zenon
    <2>5. CASE state'[r] # state[r]
      <3>1. state[r] = "SLEEPING" /\ state'[r] = "RUNNABLE" /\ ctx[r] = "off"
        BY <1>2, <2>1, <2>5, Zenon
      <3> QED  BY <2>3, <3>1, Zenon DEF SlotFits, Resumed
    <2> QED  BY <2>4, <2>5, Zenon
  <1>7. \A r \in Slot : state'[r] = "SLEEPING" => state[r] = "SLEEPING" /\ r # q  BY <1>2, Zenon
  <1>8. InodeInv'  BY <1>0, <1>7, InodeMove, Zenon DEF IInv, inode
  <1>9. FamilyInv'
    <2>1. \A r \in Slot : state'[r] = state[r] \/ (state[r] \in Awake /\ state'[r] \in Awake)
      BY <1>2, Zenon DEF Awake
    <2>2. \A r \in Slot : state'[r] = "SLEEPING" /\ chan'[r] = r =>
            state[r] = "SLEEPING" /\ chan[r] = r /\ killed'[r] = killed[r]
      BY <1>0, <1>2, <1>7, Zenon
    <2> QED  BY <1>0, <2>1, <2>2, FamilyMove, Zenon DEF IInv
  <1> QED  BY <1>3, <1>5, <1>6, <1>8, <1>9, Zenon DEF IInv

LEMMA WakeFacts ==
    ASSUME NEW st, NEW ch, NEW q \in Slot
    PROVE  wakeup1(st, ch)[q] = IF st[q] = "SLEEPING" /\ chan[q] = ch THEN "RUNNABLE" ELSE st[q]
  BY Zenon DEF wakeup1

(* exit()'s two wakeup1() and the new zombie: who is still asleep is not   *)
(* the parent, and is not init if a zombie is passed on to it.             *)
LEMMA ExitStates ==
    ASSUME TypeOK, NEW c \in CPU, NEW p \in Slot, ExitZombie(c, p)
    PROVE  /\ state' \in [Slot -> {"UNUSED", "EMBRYO", "SLEEPING", "RUNNABLE", "RUNNING", "ZOMBIE"}]
           /\ state'[p] = "ZOMBIE"
           /\ \A q \in Slot \ {p} : \/ state'[q] = state[q]
                                    \/ state[q] = "SLEEPING" /\ state'[q] = "RUNNABLE"
           /\ \A q \in Slot \ {p} : state'[q] = "SLEEPING" => chan[q] # parent[p]
           /\ \A q, r \in Slot : q # p /\ state'[q] = "SLEEPING" /\ chan[q] = initproc =>
                ~(parent[r] = p /\ state[r] = "ZOMBIE")
  <1> DEFINE woken  == wakeup1(state, parent[p])
             orphan == \E q \in Slot : parent[q] = p /\ woken[q] = "ZOMBIE"
             both   == wakeup1(woken, initproc)
             all    == IF orphan THEN both ELSE woken
  <1>1. state' = [all EXCEPT ![p] = "ZOMBIE"]  BY Zenon DEF ExitZombie
  <1>2. \A q \in Slot : woken[q] = IF state[q] = "SLEEPING" /\ chan[q] = parent[p]
                                   THEN "RUNNABLE" ELSE state[q]
    BY WakeFacts
  <1>3. \A q \in Slot : both[q] = IF woken[q] = "SLEEPING" /\ chan[q] = initproc
                                  THEN "RUNNABLE" ELSE woken[q]
    BY WakeFacts
  <1>4. DOMAIN all = Slot
    <2>1. DOMAIN woken = Slot /\ DOMAIN both = Slot  BY Zenon DEF wakeup1
    <2> QED  BY <2>1, Zenon
  <1>5. all = [q \in Slot |-> all[q]]
    <2>1. woken = [q \in Slot |-> woken[q]]  BY Zenon DEF wakeup1
    <2>2. both = [q \in Slot |-> both[q]]  BY Zenon DEF wakeup1
    <2> HIDE DEF woken, both, orphan
    <2>3. CASE orphan  BY <2>2, <2>3, Zenon
    <2>4. CASE ~orphan  BY <2>1, <2>4, Zenon
    <2> QED  BY <2>3, <2>4, Zenon
  <1>6. \A q \in Slot : all[q] = IF orphan THEN both[q] ELSE woken[q]  BY Zenon
  <1>7. \A r \in Slot : parent[r] = p /\ state[r] = "ZOMBIE" => orphan
    <2>1. \A r \in Slot : state[r] = "ZOMBIE" => woken[r] = "ZOMBIE"
      <3> HIDE DEF woken
      <3> QED  BY <1>2, Zenon
    <2> QED  BY <2>1, Zenon
  <1> HIDE DEF woken, orphan, both, all
  <1>8. state'[p] = "ZOMBIE" /\ \A q \in Slot \ {p} : state'[q] = all[q]
    BY <1>1, <1>5, Zenon
  <1>9. \A q \in Slot : all[q] = state[q] \/ (state[q] = "SLEEPING" /\ all[q] = "RUNNABLE")
    BY <1>2, <1>3, <1>6, Zenon
  <1>10. /\ \A q \in Slot \ {p} : state'[q] = "SLEEPING" => chan[q] # parent[p]
         /\ \A q \in Slot \ {p} : state'[q] = "SLEEPING" /\ chan[q] = initproc => ~orphan
    BY <1>2, <1>3, <1>6, <1>8
  <1>11. state' \in [Slot -> {"UNUSED", "EMBRYO", "SLEEPING", "RUNNABLE", "RUNNING", "ZOMBIE"}]
    <2>1. \A q \in Slot : all[q] \in {"UNUSED", "EMBRYO", "SLEEPING", "RUNNABLE", "RUNNING", "ZOMBIE"}
      BY <1>9 DEF TypeOK
    <2> QED  BY <1>1, <1>5, <2>1, Zenon
  <1>12. \A q \in Slot \ {p} : \/ state'[q] = state[q]
                               \/ state[q] = "SLEEPING" /\ state'[q] = "RUNNABLE"
    <2> TAKE q \in Slot \ {p}
    <2>1. state'[q] = all[q]  BY <1>8, Zenon
    <2>2. all[q] = state[q] \/ (state[q] = "SLEEPING" /\ all[q] = "RUNNABLE")  BY <1>9, Zenon
    <2> QED  BY <2>1, <2>2, Zenon
  <1>13. \A q, r \in Slot : q # p /\ state'[q] = "SLEEPING" /\ chan[q] = initproc =>
           ~(parent[r] = p /\ state[r] = "ZOMBIE")
    BY <1>7, <1>10, Zenon
  <1> QED  BY <1>8, <1>10, <1>11, <1>12, <1>13, Zenon

LEMMA ExitZombieInv == ASSUME IInv, NEW c \in CPU, NEW p \in Slot, ExitZombie(c, p) PROVE IInv'
  <1>0. /\ TypeOK /\ On(c, p, "x_acquire") /\ Goto(p, "x_sched")
        /\ pushcli(c) /\ ptlock = NoCpu /\ ptlock' = c
        /\ UNCHANGED <<pid, chan, killed, exitstatus, nextpid, inode, switch, np, obs>>
    BY Zenon DEF ExitZombie, AcquirePtlock, IInv
  <1>1. "x_acquire" \in Labels /\ "x_sched" \in Labels  BY Zenon DEF Labels
  <1>2. /\ cproc[c] = p /\ spc[c] = "run" /\ at[p] = "x_acquire" /\ pc[p] = "x_acquire"
        /\ irq[p] = "none" /\ Moves(p, "x_sched") /\ pc'[p] = "x_sched" /\ irq'[p] = "none"
        /\ pc' \in [Slot -> Labels] /\ irq' = irq
    <2>1. Steps(c, p, "x_acquire", "x_sched")  BY <1>0, <1>1, SyscallFacts, Zenon
    <2> QED  BY <2>1, Zenon DEF Steps
  <1>3. CpuInv' /\ CpusOK'
    <2>1. Depth(at[p]) = 0 /\ Depth("x_sched") = 1 /\ "x_sched" \notin IcCode
      BY <1>2, Zenon DEF PtCode, IcCode, Depth
    <2> QED  BY <1>0, <1>2, <2>1, PushMove, Zenon DEF IInv, inode, switch
  <1>10. /\ state' \in [Slot -> {"UNUSED", "EMBRYO", "SLEEPING", "RUNNABLE", "RUNNING", "ZOMBIE"}]
         /\ state'[p] = "ZOMBIE"
         /\ \A q \in Slot \ {p} : \/ state'[q] = state[q]
                                  \/ state[q] = "SLEEPING" /\ state'[q] = "RUNNABLE"
    BY <1>0, ExitStates, Zenon
  <1>11. /\ \A q \in Slot \ {p} : state'[q] = "SLEEPING" => chan[q] # parent[p]
         /\ \A q, r \in Slot : q # p /\ state'[q] = "SLEEPING" /\ chan[q] = initproc =>
              ~(parent[r] = p /\ state[r] = "ZOMBIE")
    BY <1>0, ExitStates
  <1>12. parent' = [q \in Slot |-> IF parent[q] = p THEN initproc ELSE parent[q]]
    BY Zenon DEF ExitZombie, Reparented
  <1>4. TypeOK'
    <2>1. parent' \in [Slot -> Slot \cup {None}]  BY <1>0, <1>12, SlotFacts, Zenon DEF TypeOK
    <2> QED  BY <1>0, <1>2, <1>3, <1>10, <2>1, ProcAssumption, Zenon
      DEF TypeOK, CpusOK, ProcAssumption, inode, switch, obs
  <1>5. /\ state[p] = "RUNNING" /\ Exits(p) /\ p # initproc
        /\ \A q \in Slot : parent'[q] = IF parent[q] = p THEN initproc ELSE parent[q]
    BY <1>2, <1>12, Zenon DEF IInv, SlotInv, StateAt, FamilyInv, Exits
  <1>6. SlotInv'
    <2>1. "x_sched" \notin Resumed \cup {"x_dead"} /\ StateAt("x_sched") = "ZOMBIE"
      BY Zenon DEF Resumed, StateAt
    <2>2. \A q \in Slot : state[q] = "SLEEPING" => ctx[q] = "off"  BY <1>0, NoneSwitching, Zenon
    <2>3. \A q \in Slot \ {p} : Passive(q) /\ chan'[q] = chan[q] /\ saved'[q] = saved[q]
      BY <1>0, <1>10, <2>2, Zenon DEF Passive, switch
    <2> QED  BY <1>0, <1>2, <1>10, <2>1, <2>3, SlotMove DEF IInv, switch
  <1>7. \A q \in Slot \ {p} : pc'[q] = pc[q]  BY <1>2, Zenon DEF Moves
  <1>8. InodeInv'
    <2>1. \A q \in Slot : state'[q] = "SLEEPING" => state[q] = "SLEEPING"  BY <1>10, Zenon
    <2> QED  BY <1>0, <1>2, <1>7, <2>1, InodeMove, Zenon DEF IInv, inode
  <1>9. FamilyInv'
    <2>1. \A r \in Slot : (Forks(r)' => Forks(r) /\ r # p) /\ (Exits(r)' => Exits(r))
      BY <1>2, <1>7, Zenon DEF Forks, Exits
    <2>2. \A r \in Slot : \A s \in {"UNUSED", "EMBRYO"} : state'[r] = s <=> state[r] = s
      BY <1>5, <1>10, Zenon
    <2>3. \A r \in Slot \ {p} : state'[r] = "ZOMBIE" <=> state[r] = "ZOMBIE"
      BY <1>10, Zenon
    <2>4. ASSUME NEW r \in Slot, Forks(r)' PROVE
            /\ np'[r] \in Slot /\ state'[np'[r]] = "EMBRYO"
            /\ parent'[np'[r]] = IF pc'[r] = "f_copy" THEN None ELSE r
      <3>1. np'[r] = np[r] /\ pc'[r] = pc[r] /\ r # p /\ Forks(r)  BY <1>0, <1>7, <2>1, <2>4, Zenon
      <3>2. /\ np[r] \in Slot /\ state[np[r]] = "EMBRYO"
            /\ parent[np[r]] = IF pc[r] = "f_copy" THEN None ELSE r
        BY <3>1, Zenon DEF IInv, FamilyInv
      <3>3. parent'[np[r]] = parent[np[r]]  BY <1>5, <3>1, <3>2, SlotFacts, Zenon
      <3> QED  BY <2>2, <3>1, <3>2, <3>3, Zenon
    <2>5. \A r, s \in Slot : Forks(r)' /\ Forks(s)' /\ np'[r] = np'[s] => r = s
      BY <1>0, <2>1, Zenon DEF IInv, FamilyInv
    <2>6. \A r \in Slot : parent'[r] # r /\ (state'[r] = "UNUSED" => parent'[r] = None)
      <3> TAKE r \in Slot
      <3>1. parent[r] # r /\ (state[r] = "UNUSED" => parent[r] = None)
        BY ParentFacts, Zenon DEF IInv
      <3>2. parent[initproc] = None  BY InitFacts, Zenon DEF IInv
      <3> QED  BY <1>5, <2>2, <3>1, <3>2, SlotFacts, Zenon
    <2>7. /\ parent'[initproc] = None /\ ~Exits(initproc)'
          /\ state'[initproc] \notin {"UNUSED", "EMBRYO", "ZOMBIE"}
      <3>1. /\ parent[initproc] = None /\ ~Exits(initproc)
            /\ state[initproc] \notin {"UNUSED", "EMBRYO", "ZOMBIE"}
        BY InitFacts, Zenon DEF IInv
      <3> QED  BY <1>5, <2>1, <2>2, <2>3, <3>1, SlotFacts, Zenon
    <2>8. \A r \in Slot : Exits(r)' => exitstatus'[r] = pid'[r]
      BY <1>0, <2>1, Zenon DEF IInv, FamilyInv
    <2>9. ParentAlive'
      <3> SUFFICES ASSUME NEW r \in Slot \ {initproc}, state'[r] \notin {"UNUSED", "EMBRYO"}
                   PROVE  /\ parent'[r] # None
                          /\ state'[parent'[r]] \notin {"UNUSED", "EMBRYO", "ZOMBIE"}
        BY Zenon DEF ParentAlive
      <3>1. parent[r] \in Slot /\ state[parent[r]] \notin {"UNUSED", "EMBRYO", "ZOMBIE"}
        <4>1. ParentAlive  BY InitFacts, Zenon DEF IInv
        <4>2. parent[r] \in Slot \cup {None}  BY <1>0, Zenon DEF TypeOK
        <4>3. parent[r] # None /\ state[parent[r]] \notin {"UNUSED", "EMBRYO", "ZOMBIE"}
          BY <2>2, <4>1, Zenon DEF ParentAlive
        <4> QED  BY <4>2, <4>3, Zenon
      <3>2. CASE parent[r] = p  BY <1>5, <2>7, <3>2, SlotFacts, Zenon
      <3>3. CASE parent[r] # p  BY <1>5, <2>2, <2>3, <3>1, <3>3, SlotFacts, Zenon
      <3> QED  BY <3>2, <3>3, Zenon
    <2>10. WaitersHaveReason'
      <3> SUFFICES ASSUME NEW r \in Slot, state'[r] = "SLEEPING", chan[r] = r
                   PROVE  /\ \E q \in Slot : parent'[q] = r
                          /\ ~killed[r]
                          /\ \A q \in Slot : parent'[q] = r => state'[q] # "ZOMBIE"
        BY <1>0, Zenon DEF WaitersHaveReason, Children
      <3>1. r # p /\ state[r] = "SLEEPING" /\ parent[p] # r  BY <1>10, <1>11, Zenon
      <3>2. /\ \E q \in Slot : parent[q] = r
            /\ ~killed[r]
            /\ \A q \in Slot : parent[q] = r => state[q] # "ZOMBIE"
        <4>1. WaitersHaveReason  BY InitFacts, Zenon DEF IInv
        <4>2. Children(r) # {} /\ ~killed[r] /\ \A q \in Children(r) : state[q] # "ZOMBIE"
          BY <3>1, <4>1, Zenon DEF WaitersHaveReason
        <4> QED  BY <4>2, Zenon DEF Children
      <3>3. \E q \in Slot : parent'[q] = r  BY <1>5, <3>1, <3>2, Zenon
      <3>4. ASSUME NEW q \in Slot, parent'[q] = r PROVE state'[q] # "ZOMBIE"
        <4>1. q # p
          <5>1. parent[p] # p  BY Zenon DEF IInv, FamilyInv
          <5> QED  BY <1>5, <3>1, <3>4, <5>1, Zenon
        <4>2. CASE parent[q] = p  BY <1>5, <1>11, <2>3, <3>1, <3>4, <4>1, <4>2, Zenon
        <4>3. CASE parent[q] # p  BY <1>5, <2>3, <3>2, <3>4, <4>1, <4>3, Zenon
        <4> QED  BY <4>2, <4>3, Zenon
      <3> QED  BY <3>2, <3>3, <3>4, Zenon
    <2>11. StatusExchanged'  BY <1>0, Zenon DEF IInv, FamilyInv, StatusExchanged, obs
    <2> QED  BY <2>4, <2>5, <2>6, <2>7, <2>8, <2>9, <2>10, <2>11, Zenon DEF FamilyInv
  <1> QED  BY <1>3, <1>4, <1>6, <1>8, <1>9, Zenon DEF IInv

LEMMA WaitReapInv == ASSUME IInv, NEW c \in CPU, NEW p \in Slot, WaitReap(c, p) PROVE IInv'
  <1>0. /\ TypeOK /\ On(c, p, "w_scan") /\ irq' = irq /\ ptlock' = NoCpu /\ popcli(c, intena[c])
        /\ UNCHANGED <<chan, exitstatus, nextpid, inode, switch, np, targets, kills>>
    BY Zenon DEF WaitReap, IInv
  <1>1. cproc[c] = p /\ spc[c] = "run" /\ at[p] = "w_scan" /\ irq[p] = "none" /\ pc[p] = "w_scan"
    <2>1. "w_scan" \notin IrqCode  BY Zenon DEF IrqCode
    <2> QED  BY <1>0, <2>1, OnFacts
  <1>2. PICK q \in Slot :
          /\ parent[q] = p /\ state[q] = "ZOMBIE"
          /\ pc' = [pc EXCEPT ![p] = "user", ![q] = "forkret"]
          /\ reaped' = <<pid[q], exitstatus[q]>>
          /\ state' = [state EXCEPT ![q] = "UNUSED"] /\ pid' = [pid EXCEPT ![q] = 0]
          /\ parent' = [parent EXCEPT ![q] = None] /\ killed' = [killed EXCEPT ![q] = FALSE]
    BY Zenon DEF WaitReap, Zombies, Children, Status
  <1>3. /\ "w_scan" \in PtCode \ (IcCode \cup Resumed) /\ "user" \notin PtCode \cup IcCode
        /\ Depth("w_scan") = 1 /\ Depth("user") = 0
        /\ StateAt("w_scan") = "RUNNING" /\ StateAt("user") = "RUNNING"
        /\ "x_sched" \in PtCode /\ "x_dead" \notin IrqCode
    BY Zenon DEF PtCode, IcCode, Resumed, Depth, StateAt, IrqCode
  <1>4. ncli[c] = 1 /\ intena[c] /\ ptlock = c /\ ctx[p] = "on" /\ state[p] = "RUNNING"
    <2>1. Runs(c, p)  BY <1>1, CpuFacts, Zenon DEF IInv
    <2>2. /\ ctx[p] = "on"
          /\ SlotFits(p, ctx[p], irq[p], pc[p], at[p], state[p], chan[p], saved[p])
      BY <1>1, SlotKnown, Zenon DEF IInv
    <2>3. state[p] = "RUNNING"  BY <1>1, <1>3, <2>2, Zenon DEF SlotFits
    <2> QED  BY <1>1, <1>3, <2>1, <2>2, <2>3, Zenon DEF Runs
  <1>5. q # p /\ ctx[q] = "off" /\ at[q] = "x_dead" /\ irq[q] = "none" /\ pc[q] = "x_dead"
    <2>1. q # p  BY <1>2, <1>4, Zenon
    <2>2. ctx[q] # "on"
      <3> SUFFICES ASSUME ctx[q] = "on" PROVE FALSE  BY Zenon
      <3>1. StateAt(at[q]) = "ZOMBIE"  BY <1>2, Zenon DEF IInv, SlotInv
      <3>2. at[q] = "x_sched"  BY <3>1, Zenon DEF StateAt
      <3>3. PICK d \in CPU : cproc[d] = q  BY Zenon DEF IInv, SlotInv
      <3>4. ptlock = d
        <4>1. Runs(d, q)  BY <3>3, CpuFacts, Zenon DEF IInv
        <4> QED  BY <1>3, <3>2, <4>1, Zenon DEF Runs
      <3> QED  BY <1>1, <1>4, <2>1, <3>3, <3>4, Zenon
    <2>3. ctx[q] = "off"  BY <1>0, <2>2, Zenon DEF TypeOK
    <2>4. at[q] = "x_dead"  BY <1>2, <2>3, Zenon DEF IInv, SlotInv
    <2>5. irq[q] \in IrqCode \cup {"none"}  BY <1>0, Zenon DEF TypeOK, IrqCode
    <2> QED  BY <1>3, <2>1, <2>3, <2>4, <2>5, Zenon DEF at, At
  <1>6. /\ pc'[p] = "user" /\ pc'[q] = "forkret" /\ \A r \in Slot \ {p, q} : pc'[r] = pc[r]
        /\ pc' \in [Slot -> Labels]
    BY <1>0, <1>2, <1>5, Zenon DEF TypeOK, Labels
  <1>7. at'[p] = "user" /\ at'[q] = "forkret" /\ \A r \in Slot \ {p, q} : at'[r] = at[r]
    BY <1>0, <1>1, <1>5, <1>6, Zenon DEF at, At
  <1>8. /\ \A r \in Slot \ {q} : /\ state'[r] = state[r] /\ pid'[r] = pid[r]
                                 /\ parent'[r] = parent[r] /\ killed'[r] = killed[r]
        /\ state'[q] = "UNUSED" /\ parent'[q] = None
    BY <1>0, <1>2, Zenon DEF TypeOK
  <1>9. /\ \A d \in CPU \ {c} : ncli'[d] = ncli[d] /\ intena'[d] = intena[d] /\ intr'[d] = intr[d]
        /\ ncli'[c] = 0 /\ intr'[c] = TRUE /\ CpusOK'
    <2>1. Registers(c, 0, intena[c], TRUE)
      <3>1. intena[c] \in BOOLEAN  BY <1>0, Zenon DEF TypeOK
      <3> QED  BY <1>0, <1>4, <3>1, PopFirst, Zenon
    <2> QED  BY <2>1, Zenon DEF Registers
  <1>11. cproc' = cproc /\ spc' = spc /\ ctx' = ctx /\ saved' = saved /\ iclock' = iclock
         /\ ibusy' = ibusy
    BY <1>0, Zenon DEF switch, inode
  <1>12. TypeOK'
    <2>1. pid[q] \in Nat /\ exitstatus[q] \in Nat  BY <1>0, Zenon DEF TypeOK
    <2>2. reaped' \in Nat \X Nat  BY <1>2, <2>1, Zenon
    <2>3. /\ state' \in [Slot -> {"UNUSED", "EMBRYO", "SLEEPING", "RUNNABLE", "RUNNING", "ZOMBIE"}]
          /\ pid' \in [Slot -> Nat] /\ parent' \in [Slot -> Slot \cup {None}]
          /\ killed' \in [Slot -> BOOLEAN]
      BY <1>0, <1>2, Zenon DEF TypeOK
    <2> QED  BY <1>0, <1>6, <1>9, <2>2, <2>3, Zenon DEF TypeOK, CpusOK, inode, switch
  <1>13. CpuInv'
    <2>1. ASSUME NEW d \in CPU PROVE
            /\ spc'[d] # "panic" => (spc'[d] = "run" <=> cproc'[d] # None)
            /\ spc'[d] = "idle" => ncli'[d] = 0
            /\ spc'[d] = "scan" => ncli'[d] = 1 /\ ~intr'[d] /\ ptlock' = d
      <3>1. /\ spc[d] # "panic" => (spc[d] = "run" <=> cproc[d] # None)
            /\ spc[d] = "idle" => ncli[d] = 0
            /\ spc[d] = "scan" => ncli[d] = 1 /\ ~intr[d] /\ ptlock = d
        BY Zenon DEF IInv, CpuInv
      <3>2. CASE d = c  BY <1>1, <1>11, <3>1, <3>2, Zenon
      <3>3. CASE d # c
        <4>1. spc[d] # "scan"  BY <1>4, <3>1, <3>3, Zenon
        <4> QED  BY <1>9, <1>11, <3>1, <3>3, <4>1, Zenon
      <3> QED  BY <3>2, <3>3, Zenon
    <2>2. \A d, e \in CPU : cproc'[d] = cproc'[e] /\ cproc'[d] # None => d = e
      BY <1>11, Zenon DEF IInv, CpuInv
    <2>3. ASSUME NEW d \in CPU, NEW r \in Slot, cproc'[d] = r PROVE
            /\ ncli'[d] = Depth(at'[r])
            /\ intr'[d] <=> (irq'[r] = "none" /\ ncli'[d] = 0)
            /\ at'[r] \in PtCode => ptlock' = d
            /\ at'[r] \in IcCode => iclock' = d
            /\ at'[r] \in (PtCode \cup IcCode) \ Resumed => (intena'[d] <=> irq'[r] = "none")
      <3>1. CASE d = c
        <4>1. r = p  BY <1>1, <1>11, <2>3, <3>1, Zenon
        <4> QED  BY <1>0, <1>1, <1>3, <1>7, <1>9, <3>1, <4>1, Zenon
      <3>2. CASE d # c
        <4>1. r # p  BY <1>1, <1>11, <2>3, <3>2, OneCpu, Zenon DEF IInv
        <4>2. r # q
          <5>1. \A e \in CPU : cproc[e] # q  BY <1>5, Zenon DEF IInv, SlotInv
          <5> QED  BY <1>11, <2>3, <5>1, Zenon
        <4>3. at'[r] = at[r] /\ irq'[r] = irq[r]  BY <1>0, <1>7, <4>1, <4>2, Zenon
        <4>4. Runs(d, r)  BY <1>11, <2>3, CpuFacts, Zenon DEF IInv
        <4>5. at[r] \notin PtCode  BY <1>4, <3>2, <4>4, Zenon DEF Runs
        <4>6. ncli'[d] = ncli[d] /\ intena'[d] = intena[d] /\ intr'[d] = intr[d]
          BY <1>9, <3>2, Zenon
        <4> QED  BY <1>11, <4>3, <4>4, <4>5, <4>6, Zenon DEF Runs
      <3> QED  BY <3>1, <3>2, Zenon
    <2> QED  BY <2>1, <2>2, <2>3, Zenon DEF CpuInv, Depth
  <1>14. SlotInv'
    <2> SUFFICES ASSUME NEW r \in Slot
                 PROVE  SlotFits(r, ctx[r], irq[r], pc'[r], at'[r], state'[r], chan[r], saved[r])
      <3>1. \A r \in Slot : ctx[r] = "on" <=> \E d \in CPU : cproc[d] = r
        BY SlotKnown, Zenon DEF IInv
      <3> QED  BY <1>0, <1>11, <3>1, SlotNext, Zenon
    <2>1. SlotFits(r, ctx[r], irq[r], pc[r], at[r], state[r], chan[r], saved[r])
      BY SlotKnown, Zenon DEF IInv
    <2>2. CASE r = p
      <3>1. at'[r] = "user" /\ state'[r] = "RUNNING" /\ irq[r] = "none" /\ ctx[r] = "on"
        BY <1>1, <1>4, <1>5, <1>7, <1>8, <2>2, Zenon
      <3> QED  BY <1>3, <3>1, Zenon DEF SlotFits
    <2>3. CASE r = q
      <3>1. at'[r] = "forkret" /\ state'[r] = "UNUSED" /\ irq[r] = "none" /\ ctx[r] = "off"
        BY <1>5, <1>7, <1>8, <2>3, Zenon
      <3> QED  BY <3>1, Zenon DEF SlotFits
    <2>4. CASE r \notin {p, q}
      <3>1. at'[r] = at[r] /\ pc'[r] = pc[r] /\ state'[r] = state[r]
        BY <1>6, <1>7, <1>8, <2>4, Zenon
      <3> QED  BY <2>1, <3>1, Zenon
    <2> QED  BY <2>2, <2>3, <2>4, Zenon
  <1>15. InodeInv'
    <2>1. \A r \in Slot : \A l \in {"locked", "s_release", "s_sleep", "u_wakeup"} :
            pc'[r] = l <=> pc[r] = l
      BY <1>1, <1>5, <1>6, Zenon
    <2>2. \A r \in Slot : state'[r] = "SLEEPING" => state[r] = "SLEEPING"  BY <1>8, Zenon
    <2>3. \A r \in Slot : /\ pc'[r] = "locked" <=> pc[r] = "locked"
                          /\ pc'[r] \in {"s_release", "s_sleep"} <=> pc[r] \in {"s_release", "s_sleep"}
                          /\ pc'[r] = "u_wakeup" <=> pc[r] = "u_wakeup"
      BY <2>1, Zenon
    <2> QED  BY <1>0, <1>11, <2>2, <2>3, Zenon DEF IInv, InodeInv, InodeExclusive
  <1>16. FamilyInv'
    <2>1. \A r \in Slot : /\ Forks(r)' => Forks(r) /\ pc'[r] = pc[r]
                          /\ Exits(r)' => Exits(r) /\ r # q
      BY <1>6, Zenon DEF Forks, Exits
    <2>2. q # initproc /\ Exits(q)  BY <1>2, <1>5, SlotFacts, Zenon DEF IInv, FamilyInv, Exits
    <2>3. ASSUME NEW r \in Slot, Forks(r)' PROVE
            /\ np'[r] \in Slot /\ state'[np'[r]] = "EMBRYO"
            /\ parent'[np'[r]] = IF pc'[r] = "f_copy" THEN None ELSE r
      <3>1. np'[r] = np[r] /\ pc'[r] = pc[r] /\ Forks(r)  BY <1>0, <2>1, <2>3, Zenon
      <3>2. /\ np[r] \in Slot /\ state[np[r]] = "EMBRYO"
            /\ parent[np[r]] = IF pc[r] = "f_copy" THEN None ELSE r
        BY <3>1, Zenon DEF IInv, FamilyInv
      <3>3. np[r] # q  BY <1>2, <3>2, Zenon
      <3> QED  BY <1>8, <3>1, <3>2, <3>3, Zenon
    <2>4. \A r, s \in Slot : Forks(r)' /\ Forks(s)' /\ np'[r] = np'[s] => r = s
      BY <1>0, <2>1, Zenon DEF IInv, FamilyInv
    <2>5. \A r \in Slot : parent'[r] # r /\ (state'[r] = "UNUSED" => parent'[r] = None)
      <3> TAKE r \in Slot
      <3>1. parent[r] # r /\ (state[r] = "UNUSED" => parent[r] = None)
        BY ParentFacts, Zenon DEF IInv
      <3> QED  BY <1>8, <3>1, SlotFacts, Zenon
    <2>6. /\ parent'[initproc] = None /\ ~Exits(initproc)'
          /\ state'[initproc] \notin {"UNUSED", "EMBRYO", "ZOMBIE"}
      <3>1. /\ parent[initproc] = None /\ ~Exits(initproc)
            /\ state[initproc] \notin {"UNUSED", "EMBRYO", "ZOMBIE"}
        BY InitFacts, Zenon DEF IInv
      <3> QED  BY <1>8, <2>1, <2>2, <3>1, SlotFacts, Zenon
    <2>7. \A r \in Slot : Exits(r)' => exitstatus'[r] = pid'[r]
      BY <1>0, <1>8, <2>1, Zenon DEF IInv, FamilyInv
    <2>8. ParentAlive'
      <3> SUFFICES ASSUME NEW r \in Slot \ {initproc}, state'[r] \notin {"UNUSED", "EMBRYO"}
                   PROVE  /\ parent'[r] # None
                          /\ state'[parent'[r]] \notin {"UNUSED", "EMBRYO", "ZOMBIE"}
        BY Zenon DEF ParentAlive
      <3>1. r # q /\ state[r] \notin {"UNUSED", "EMBRYO"} /\ parent'[r] = parent[r]  BY <1>8, Zenon
      <3>2. parent[r] \in Slot /\ state[parent[r]] \notin {"UNUSED", "EMBRYO", "ZOMBIE"}
        <4>1. ParentAlive  BY InitFacts, Zenon DEF IInv
        <4>2. parent[r] \in Slot \cup {None}  BY <1>0, Zenon DEF TypeOK
        <4>3. parent[r] # None /\ state[parent[r]] \notin {"UNUSED", "EMBRYO", "ZOMBIE"}
          BY <3>1, <4>1, Zenon DEF ParentAlive
        <4> QED  BY <4>2, <4>3, Zenon
      <3>3. parent[r] # q  BY <1>2, <3>2, Zenon
      <3> QED  BY <1>8, <3>1, <3>2, <3>3, SlotFacts, Zenon
    <2>9. WaitersHaveReason'
      <3> SUFFICES ASSUME NEW r \in Slot, state'[r] = "SLEEPING", chan[r] = r
                   PROVE  /\ \E s \in Slot : parent'[s] = r
                          /\ ~killed'[r]
                          /\ \A s \in Slot : parent'[s] = r => state'[s] # "ZOMBIE"
        BY <1>0, Zenon DEF WaitersHaveReason, Children
      <3>1. r # p /\ r # q /\ state[r] = "SLEEPING"  BY <1>4, <1>8, Zenon
      <3>2. /\ \E s \in Slot : parent[s] = r
            /\ ~killed[r]
            /\ \A s \in Slot : parent[s] = r => state[s] # "ZOMBIE"
        <4>1. WaitersHaveReason  BY InitFacts, Zenon DEF IInv
        <4>2. Children(r) # {} /\ ~killed[r] /\ \A s \in Children(r) : state[s] # "ZOMBIE"
          BY <1>0, <3>1, <4>1, Zenon DEF WaitersHaveReason
        <4> QED  BY <4>2, Zenon DEF Children
      <3>3. PICK s \in Slot : parent[s] = r  BY <3>2, Zenon
      <3>4. parent'[s] = r  BY <1>2, <1>8, <3>1, <3>3, Zenon
      <3>5. \A t \in Slot : parent'[t] = r => state'[t] # "ZOMBIE"  BY <1>8, <3>2, Zenon
      <3>6. killed'[r] = killed[r]  BY <1>8, <3>1, Zenon
      <3> QED  BY <3>2, <3>4, <3>5, <3>6, Zenon
    <2>10. StatusExchanged'
      <3>1. exitstatus[q] = pid[q]  BY <2>2, Zenon DEF IInv, FamilyInv
      <3> QED  BY <1>2, <3>1, Zenon DEF StatusExchanged
    <2> QED  BY <2>3, <2>4, <2>5, <2>6, <2>7, <2>8, <2>9, <2>10, Zenon DEF FamilyInv
  <1> QED  BY <1>12, <1>13, <1>14, <1>15, <1>16, Zenon DEF IInv

----------------------------------------------------------------------------
(* The scheduler's steps move no process from where it is.                 *)
LEMMA SameAt == UNCHANGED <<pc, irq>> => UNCHANGED at
  BY Zenon DEF at, At

(* A step that changes no slot, inode or family state.                     *)
LEMMA TableSame ==
    ASSUME IInv, UNCHANGED <<table, ctx, saved, pc, irq, np, ibusy, reaped, cproc>>
    PROVE  SlotInv' /\ InodeInv' /\ FamilyInv' /\ UNCHANGED at
  <1>1. UNCHANGED <<state, pid, parent, chan, killed, exitstatus>>  BY Zenon DEF table
  <1>2. UNCHANGED at  BY SameAt, Zenon
  <1>3. SlotInv'
    <2>1. SlotInv  BY Zenon DEF IInv
    <2> QED  BY <1>1, <1>2, <2>1, SlotKnown, SlotNext, Zenon
  <1>4. InodeInv'  BY <1>1, Zenon DEF IInv, InodeInv, InodeExclusive
  <1>5. FamilyInv'
    BY <1>1 DEF IInv, FamilyInv, Forks, Exits, ParentAlive, WaitersHaveReason, Children,
                StatusExchanged
  <1> QED  BY <1>2, <1>3, <1>4, <1>5, Zenon

LEMMA SchedAcquireInv == ASSUME IInv, NEW c \in CPU, SchedAcquire(c) PROVE IInv'
  <1>0. /\ TypeOK /\ spc[c] = "idle" /\ ptlock = NoCpu /\ ptlock' = c
        /\ ncli' = [ncli EXCEPT ![c] = @ + 1]
        /\ intena' = [intena EXCEPT ![c] = TRUE] /\ intr' = [intr EXCEPT ![c] = FALSE]
        /\ spc' = [spc EXCEPT ![c] = "scan"]
        /\ UNCHANGED <<table, nextpid, inode, cproc, nxt, ctx, saved, pc, irq, np, obs>>
    BY Zenon DEF SchedAcquire, IInv
  <1>1. SlotInv' /\ InodeInv' /\ FamilyInv' /\ UNCHANGED at
    BY <1>0, TableSame, Zenon DEF inode, obs
  <1>2. ncli[c] = 0 /\ cproc[c] = None  BY <1>0, Zenon DEF IInv, CpuInv, TypeOK
  <1>3. /\ \A d \in CPU \ {c} : /\ ncli'[d] = ncli[d] /\ intena'[d] = intena[d]
                                /\ intr'[d] = intr[d] /\ spc'[d] = spc[d]
        /\ ncli'[c] = 1 /\ intr'[c] = FALSE /\ spc'[c] = "scan" /\ CpusOK'
    <2>1. ncli' = [ncli EXCEPT ![c] = 1]  BY <1>0, <1>2
    <2>2. 1 \in 0 .. 2  OBVIOUS
    <2>3. Registers(c, 1, TRUE, FALSE)  BY <1>0, <2>1, <2>2, SetRegisters, Zenon
    <2>4. spc'[c] = "scan" /\ \A d \in CPU \ {c} : spc'[d] = spc[d]  BY <1>0, Zenon DEF TypeOK
    <2> QED  BY <2>3, <2>4, Zenon DEF Registers
  <1>4. TypeOK'
    <2>1. CpusOK'  BY <1>3, Zenon
    <2>2. spc' \in [CPU -> {"idle", "scan", "run", "panic"}]  BY <1>0, Zenon DEF TypeOK
    <2> QED  BY <1>0, <2>1, <2>2, Zenon DEF TypeOK, CpusOK, table, inode, obs
  <1>5. CpuInv'
    <2>1. ASSUME NEW d \in CPU PROVE
            /\ spc'[d] # "panic" => (spc'[d] = "run" <=> cproc'[d] # None)
            /\ spc'[d] = "idle" => ncli'[d] = 0
            /\ spc'[d] = "scan" => ncli'[d] = 1 /\ ~intr'[d] /\ ptlock' = d
      <3>0. /\ spc[d] # "panic" => (spc[d] = "run" <=> cproc[d] # None)
            /\ spc[d] = "idle" => ncli[d] = 0
            /\ spc[d] = "scan" => ncli[d] = 1 /\ ~intr[d] /\ ptlock = d
        BY Zenon DEF IInv, CpuInv
      <3>1. CASE d = c  BY <1>0, <1>2, <1>3, <3>1, Zenon
      <3>2. CASE d # c
        <4>1. spc[d] # "scan"  BY <1>0, <3>0, ProcAssumption, Zenon DEF ProcAssumption
        <4> QED  BY <1>0, <1>3, <3>0, <3>2, <4>1, Zenon
      <3> QED  BY <3>1, <3>2, Zenon
    <2>2. \A d, e \in CPU : cproc'[d] = cproc'[e] /\ cproc'[d] # None => d = e
      BY <1>0, Zenon DEF IInv, CpuInv
    <2>3. ASSUME NEW d \in CPU, NEW q \in Slot, cproc'[d] = q PROVE
            /\ ncli'[d] = Depth(at'[q])
            /\ intr'[d] <=> (irq'[q] = "none" /\ ncli'[d] = 0)
            /\ at'[q] \in PtCode => ptlock' = d
            /\ at'[q] \in IcCode => iclock' = d
            /\ at'[q] \in (PtCode \cup IcCode) \ Resumed => (intena'[d] <=> irq'[q] = "none")
      <3>1. d # c /\ cproc[d] = q  BY <1>0, <1>2, <2>3, SlotFacts, Zenon
      <3>2. at' = at /\ irq' = irq /\ iclock' = iclock  BY <1>0, <1>1, Zenon DEF inode
      <3>3. at[q] \notin PtCode  BY <1>0, <3>1, ProcAssumption, Zenon DEF IInv, CpuInv, ProcAssumption
      <3>4. Runs(d, q)  BY <3>1, CpuFacts, Zenon DEF IInv
      <3>5. ncli'[d] = ncli[d] /\ intena'[d] = intena[d] /\ intr'[d] = intr[d]  BY <1>3, <3>1, Zenon
      <3> QED  BY <3>2, <3>3, <3>4, <3>5, Zenon DEF Runs
    <2> QED  BY <2>1, <2>2, <2>3, Zenon DEF CpuInv, Depth
  <1> QED  BY <1>1, <1>4, <1>5, Zenon DEF IInv

LEMMA SchedReleaseInv == ASSUME IInv, NEW c \in CPU, SchedRelease(c) PROVE IInv'
  <1>0. /\ TypeOK /\ spc[c] = "scan" /\ ptlock' = NoCpu /\ popcli(c, intena[c])
        /\ nxt' = [nxt EXCEPT ![c] = 1] /\ spc' = [spc EXCEPT ![c] = "idle"]
        /\ UNCHANGED <<table, nextpid, inode, cproc, ctx, saved, pc, irq, np, obs>>
    BY Zenon DEF SchedRelease, IInv
  <1>1. SlotInv' /\ InodeInv' /\ FamilyInv' /\ UNCHANGED at
    BY <1>0, TableSame, Zenon DEF inode, obs
  <1>2. ncli[c] = 1 /\ cproc[c] = None /\ ptlock = c  BY <1>0, Zenon DEF IInv, CpuInv, TypeOK
  <1>3. /\ \A d \in CPU \ {c} : /\ ncli'[d] = ncli[d] /\ intena'[d] = intena[d]
                                /\ intr'[d] = intr[d] /\ spc'[d] = spc[d]
        /\ ncli'[c] = 0 /\ spc'[c] = "idle" /\ CpusOK'
    <2>1. intena[c] \in BOOLEAN  BY <1>0, Zenon DEF TypeOK
    <2>2. \/ Registers(c, 0, intena[c], TRUE)
          \/ Registers(c, 0, intena[c], intr[c])
      BY <1>0, <1>2, <2>1, PopFirst, Zenon
    <2>3. spc'[c] = "idle" /\ \A d \in CPU \ {c} : spc'[d] = spc[d]  BY <1>0, Zenon DEF TypeOK
    <2> QED  BY <2>2, <2>3, Zenon DEF Registers
  <1>4. TypeOK'
    <2>1. CpusOK'  BY <1>3, Zenon
    <2>2. /\ spc' \in [CPU -> {"idle", "scan", "run", "panic"}]
          /\ nxt' \in [CPU -> 1 .. NPROC + 1]
      <3>1. 1 \in 1 .. NPROC + 1  BY ProcAssumption DEF ProcAssumption
      <3> QED  BY <1>0, <3>1, Zenon DEF TypeOK
    <2> QED  BY <1>0, <2>1, <2>2, Zenon DEF TypeOK, CpusOK, table, inode, obs
  <1>5. CpuInv'
    <2>1. ASSUME NEW d \in CPU PROVE
            /\ spc'[d] # "panic" => (spc'[d] = "run" <=> cproc'[d] # None)
            /\ spc'[d] = "idle" => ncli'[d] = 0
            /\ spc'[d] = "scan" => ncli'[d] = 1 /\ ~intr'[d] /\ ptlock' = d
      <3>0. /\ spc[d] # "panic" => (spc[d] = "run" <=> cproc[d] # None)
            /\ spc[d] = "idle" => ncli[d] = 0
            /\ spc[d] = "scan" => ncli[d] = 1 /\ ~intr[d] /\ ptlock = d
        BY Zenon DEF IInv, CpuInv
      <3>1. CASE d = c  BY <1>0, <1>2, <1>3, <3>1, Zenon
      <3>2. CASE d # c
        <4>1. spc[d] # "scan"  BY <1>2, <3>0, <3>2, Zenon
        <4> QED  BY <1>0, <1>3, <3>0, <3>2, <4>1, Zenon
      <3> QED  BY <3>1, <3>2, Zenon
    <2>2. \A d, e \in CPU : cproc'[d] = cproc'[e] /\ cproc'[d] # None => d = e
      BY <1>0, Zenon DEF IInv, CpuInv
    <2>3. ASSUME NEW d \in CPU, NEW q \in Slot, cproc'[d] = q PROVE
            /\ ncli'[d] = Depth(at'[q])
            /\ intr'[d] <=> (irq'[q] = "none" /\ ncli'[d] = 0)
            /\ at'[q] \in PtCode => ptlock' = d
            /\ at'[q] \in IcCode => iclock' = d
            /\ at'[q] \in (PtCode \cup IcCode) \ Resumed => (intena'[d] <=> irq'[q] = "none")
      <3>1. d # c /\ cproc[d] = q  BY <1>0, <1>2, <2>3, SlotFacts, Zenon
      <3>2. at' = at /\ irq' = irq /\ iclock' = iclock  BY <1>0, <1>1, Zenon DEF inode
      <3>3. at[q] \notin PtCode  BY <1>2, <3>1, Zenon DEF IInv, CpuInv
      <3>4. Runs(d, q)  BY <3>1, CpuFacts, Zenon DEF IInv
      <3>5. ncli'[d] = ncli[d] /\ intena'[d] = intena[d] /\ intr'[d] = intr[d]  BY <1>3, <3>1, Zenon
      <3> QED  BY <3>2, <3>3, <3>4, <3>5, Zenon DEF Runs
    <2> QED  BY <2>1, <2>2, <2>3, Zenon DEF CpuInv, Depth
  <1> QED  BY <1>1, <1>4, <1>5, Zenon DEF IInv

LEMMA InitExitInv == ASSUME IInv, NEW c \in CPU, InitExit(c) PROVE IInv'
  <1>0. /\ TypeOK /\ spc' = [d \in CPU |-> "panic"]
        /\ UNCHANGED <<table, nextpid, ptlock, inode, cpus, cproc, nxt, ctx, saved,
                       pc, irq, np, obs>>
    BY Zenon DEF InitExit, IInv
  <1>1. SlotInv' /\ InodeInv' /\ FamilyInv' /\ UNCHANGED at
    BY <1>0, TableSame, Zenon DEF inode, obs
  <1>2. TypeOK'  BY <1>0, Zenon DEF TypeOK, table, inode, cpus, obs
  <1>3. CpuInv'
    <2>1. UNCHANGED <<ncli, intena, intr, cproc, ptlock, iclock, irq, at>>
      BY <1>0, <1>1, Zenon DEF cpus, inode
    <2>2. \A d \in CPU : spc'[d] = "panic"  BY <1>0, Zenon
    <2>3. \A d, e \in CPU : cproc[d] = cproc[e] /\ cproc[d] # None => d = e
      BY Zenon DEF IInv, CpuInv
    <2>4. \A d \in CPU, q \in Slot : cproc[d] = q => Runs(d, q)  BY CpuFacts, Zenon DEF IInv
    <2> QED  BY <2>1, <2>2, <2>3, <2>4, Zenon DEF CpuInv, Runs, Depth
  <1> QED  BY <1>1, <1>2, <1>3, Zenon DEF IInv

LEMMA SchedSwitchInv == ASSUME IInv, NEW c \in CPU, SchedSwitch(c) PROVE IInv'
  <1>0. /\ TypeOK /\ spc[c] = "scan"
        /\ UNCHANGED <<pid, parent, chan, killed, exitstatus, nextpid, ptlock, inode,
                       cpus, saved, pc, irq, np, obs>>
    BY Zenon DEF SchedSwitch, IInv
  <1>1. PICK p \in Slot :
          /\ state[p] = "RUNNABLE" /\ cproc' = [cproc EXCEPT ![c] = p]
          /\ state' = [state EXCEPT ![p] = "RUNNING"] /\ ctx' = [ctx EXCEPT ![p] = "on"]
          /\ nxt' = [nxt EXCEPT ![c] = p + 1] /\ spc' = [spc EXCEPT ![c] = "run"]
    BY Zenon DEF SchedSwitch, Runnable
  <1>2. ncli[c] = 1 /\ ~intr[c] /\ cproc[c] = None /\ ptlock = c
    BY <1>0, Zenon DEF IInv, CpuInv, TypeOK
  <1>3. ctx[p] = "off" /\ at[p] \in Resumed /\ \A d \in CPU : cproc[d] # p
    <2>1. ctx[p] # "on"
      <3> SUFFICES ASSUME ctx[p] = "on" PROVE FALSE  BY Zenon
      <3>1. StateAt(at[p]) = "RUNNABLE"  BY <1>1, Zenon DEF IInv, SlotInv
      <3>2. at[p] = "y_sched"  BY <3>1, Zenon DEF StateAt
      <3>3. PICK d \in CPU : cproc[d] = p  BY Zenon DEF IInv, SlotInv
      <3>4. ptlock = d  BY <3>2, <3>3, Zenon DEF IInv, CpuInv, PtCode
      <3> QED  BY <1>2, <3>3, <3>4, SlotFacts, Zenon
    <2>2. ctx[p] = "off"  BY <1>0, <2>1, Zenon DEF TypeOK
    <2>3. /\ ctx[p] = "on" <=> \E d \in CPU : cproc[d] = p
          /\ SlotFits(p, ctx[p], irq[p], pc[p], at[p], state[p], chan[p], saved[p])
      BY SlotKnown, Zenon DEF IInv
    <2>4. at[p] \in Resumed  BY <1>1, <2>2, <2>3, Zenon DEF SlotFits
    <2> QED  BY <2>1, <2>2, <2>3, <2>4, Zenon
  <1>4. /\ at[p] \in PtCode /\ at[p] \notin IcCode /\ Depth(at[p]) = 1
        /\ StateAt(at[p]) = "RUNNING" /\ at[p] # "x_dead"
    BY <1>3, Zenon DEF Resumed, PtCode, IcCode, Depth, StateAt
  <1>5. UNCHANGED <<ncli, intena, intr, iclock, ibusy, reaped, at>>
    BY <1>0, SameAt, Zenon DEF cpus, inode, obs
  <1>6. /\ \A d \in CPU \ {c} : cproc'[d] = cproc[d] /\ spc'[d] = spc[d]
        /\ cproc'[c] = p /\ spc'[c] = "run"
        /\ \A q \in Slot \ {p} : state'[q] = state[q] /\ ctx'[q] = ctx[q]
        /\ state'[p] = "RUNNING" /\ ctx'[p] = "on"
    BY <1>0, <1>1, Zenon DEF TypeOK
  <1>7. TypeOK'
    <2>1. /\ state' \in [Slot -> {"UNUSED", "EMBRYO", "SLEEPING", "RUNNABLE", "RUNNING", "ZOMBIE"}]
          /\ ctx' \in [Slot -> {"on", "off"}]
          /\ cproc' \in [CPU -> Slot \cup {None}]
          /\ spc' \in [CPU -> {"idle", "scan", "run", "panic"}]
      BY <1>0, <1>1, Zenon DEF TypeOK
    <2>2. nxt' \in [CPU -> 1 .. NPROC + 1]
      <3>1. p + 1 \in 1 .. NPROC + 1  BY SlotFacts, Zenon
      <3> QED  BY <1>0, <1>1, <3>1, Zenon DEF TypeOK
    <2> QED  BY <1>0, <2>1, <2>2, Zenon DEF TypeOK, inode, cpus, obs
  <1>8. CpuInv'
    <2>1. ASSUME NEW d \in CPU PROVE
            /\ spc'[d] # "panic" => (spc'[d] = "run" <=> cproc'[d] # None)
            /\ spc'[d] = "idle" => ncli'[d] = 0
            /\ spc'[d] = "scan" => ncli'[d] = 1 /\ ~intr'[d] /\ ptlock' = d
      <3>0. /\ spc[d] # "panic" => (spc[d] = "run" <=> cproc[d] # None)
            /\ spc[d] = "idle" => ncli[d] = 0
            /\ spc[d] = "scan" => ncli[d] = 1 /\ ~intr[d] /\ ptlock = d
        BY Zenon DEF IInv, CpuInv
      <3>1. CASE d = c  BY <1>6, <3>1, SlotFacts, Zenon
      <3>2. CASE d # c  BY <1>0, <1>5, <1>6, <3>0, <3>2, Zenon
      <3> QED  BY <3>1, <3>2, Zenon
    <2>2. \A d, e \in CPU : cproc'[d] = cproc'[e] /\ cproc'[d] # None => d = e
      <3> SUFFICES ASSUME NEW d \in CPU, NEW e \in CPU, cproc'[d] = cproc'[e], cproc'[d] # None
                   PROVE  d = e
        BY Zenon
      <3>1. cproc[d] = cproc[e] /\ cproc[d] # None => d = e  BY Zenon DEF IInv, CpuInv
      <3> QED  BY <1>3, <1>6, <3>1, Zenon
    <2>3. ASSUME NEW d \in CPU, NEW q \in Slot, cproc'[d] = q PROVE
            /\ ncli'[d] = Depth(at'[q])
            /\ intr'[d] <=> (irq'[q] = "none" /\ ncli'[d] = 0)
            /\ at'[q] \in PtCode => ptlock' = d
            /\ at'[q] \in IcCode => iclock' = d
            /\ at'[q] \in (PtCode \cup IcCode) \ Resumed => (intena'[d] <=> irq'[q] = "none")
      <3>1. CASE d = c
        <4>1. q = p  BY <1>6, <2>3, <3>1, Zenon
        <4>2. at'[q] = at[p] /\ ncli'[d] = 1 /\ ~intr'[d] /\ ptlock' = d
          BY <1>0, <1>2, <1>5, <3>1, <4>1, Zenon
        <4>3. 1 # 0  OBVIOUS
        <4> QED  BY <1>3, <1>4, <4>2, <4>3, Zenon
      <3>2. CASE d # c
        <4>1. cproc[d] = q  BY <1>6, <2>3, <3>2, Zenon
        <4>2. Runs(d, q)  BY <4>1, CpuFacts, Zenon DEF IInv
        <4> QED  BY <1>0, <1>5, <4>2, Zenon DEF Runs
      <3> QED  BY <3>1, <3>2, Zenon
    <2> QED  BY <2>1, <2>2, <2>3, Zenon DEF CpuInv, Depth
  <1>9. SlotInv'
    <2>1. ASSUME NEW q \in Slot PROVE ctx'[q] = "on" <=> \E d \in CPU : cproc'[d] = q
      <3>1. CASE q = p  BY <1>6, <3>1, Zenon
      <3>2. CASE q # p
        <4>1. \A d \in CPU : cproc'[d] = q <=> cproc[d] = q  BY <1>2, <1>6, <3>2, SlotFacts, Zenon
        <4>2. ctx[q] = "on" <=> \E d \in CPU : cproc[d] = q  BY SlotKnown, Zenon DEF IInv
        <4> QED  BY <1>6, <3>2, <4>1, <4>2, Zenon
      <3> QED  BY <3>1, <3>2, Zenon
    <2>2. ASSUME NEW q \in Slot
          PROVE  SlotFits(q, ctx'[q], irq[q], pc[q], at[q], state'[q], chan[q], saved[q])
      <3>1. SlotFits(q, ctx[q], irq[q], pc[q], at[q], state[q], chan[q], saved[q])
        BY SlotKnown, Zenon DEF IInv
      <3>2. CASE q = p  BY <1>4, <1>6, <3>1, <3>2, Zenon DEF SlotFits
      <3>3. CASE q # p  BY <1>6, <3>1, <3>3, Zenon
      <3> QED  BY <3>2, <3>3, Zenon
    <2> QED  BY <1>0, <1>5, <2>1, <2>2, SlotNext, Zenon
  <1>10. \A q \in Slot : state'[q] = "SLEEPING" => state[q] = "SLEEPING"  BY <1>6, Zenon
  <1>11. InodeInv'
    <2>1. \A q \in Slot : pc'[q] = pc[q]  BY <1>0, Zenon
    <2> QED  BY <1>0, <1>5, <1>10, <2>1, InodeMove, Zenon DEF IInv
  <1>12. FamilyInv'
    <2>1. \A q \in Slot : pc'[q] = pc[q] /\ exitstatus'[q] = exitstatus[q]  BY <1>0, Zenon
    <2>2. \A q \in Slot : state'[q] = state[q] \/ (state[q] \in Awake /\ state'[q] \in Awake)
      BY <1>1, <1>6, Zenon DEF Awake
    <2>3. UNCHANGED <<parent, np, pid, reaped>>  BY <1>0, <1>5, Zenon
    <2>4. \A q \in Slot : state'[q] = "SLEEPING" /\ chan'[q] = q =>
            state[q] = "SLEEPING" /\ chan[q] = q /\ killed'[q] = killed[q]
      BY <1>0, <1>10, Zenon
    <2> QED  BY <1>0, <2>1, <2>2, <2>3, <2>4, FamilyMove, Zenon DEF IInv
  <1> QED  BY <1>7, <1>8, <1>9, <1>11, <1>12, Zenon DEF IInv

LEMMA schedInv == ASSUME IInv, NEW c \in CPU, NEW p \in Slot, sched(c, p) PROVE IInv'
  <1>0. /\ TypeOK /\ saved' = [saved EXCEPT ![p] = intena[c]] /\ ctx' = [ctx EXCEPT ![p] = "off"]
        /\ cproc' = [cproc EXCEPT ![c] = None] /\ spc' = [spc EXCEPT ![c] = "scan"]
        /\ UNCHANGED <<table, nextpid, ptlock, inode, cpus, nxt, np, obs>>
    BY Zenon DEF sched, IInv
  <1>1. PICK l \in {"y_sched", "s_sched", "w_sched", "x_sched"} :
          On(c, p, l) /\ Goto(p, AfterSched(l))
    BY Zenon DEF sched
  <1> DEFINE m == AfterSched(l)
  <1>2. m \in {"y_release", "s_tidy", "w_tidy", "x_dead"} /\ m # "none"  BY Zenon DEF AfterSched
  <1>3. /\ cproc[c] = p /\ spc[c] = "run" /\ at[p] = l
        /\ IF l = "y_sched" THEN irq[p] = l ELSE irq[p] = "none" /\ pc[p] = l
    <2>1. /\ cproc[c] = p /\ spc[c] = "run" /\ at[p] = l
          /\ l \notin IrqCode => irq[p] = "none" /\ pc[p] = l
          /\ l \in IrqCode => irq[p] = l
      BY <1>0, <1>1, OnFacts
    <2> QED  BY <2>1, Zenon DEF IrqCode
  <1>4. /\ Moves(p, m)
        /\ irq[p] = "none" => pc'[p] = m /\ irq'[p] = "none" /\ irq' = irq
        /\ irq[p] # "none" => irq'[p] = m /\ pc'[p] = pc[p] /\ pc' = pc
    <2>1. Goto(p, m)  BY <1>1, Zenon
    <2> HIDE DEF m
    <2> QED  BY <1>0, <1>2, <2>1, GotoFacts, Zenon
  <1>5. l \in PtCode /\ l \notin IcCode \cup Resumed /\ Depth(l) = 1
    BY Zenon DEF PtCode, IcCode, Resumed, Depth
  <1>6. /\ ncli[c] = 1 /\ ~intr[c] /\ ptlock = c /\ (intena[c] <=> l # "y_sched")
        /\ ctx[p] = "on" /\ state[p] = StateAt(l)
    <2>1. /\ ncli[c] = 1 /\ ptlock = c /\ (intena[c] <=> irq[p] = "none")
          /\ intr[c] <=> (irq[p] = "none" /\ ncli[c] = 0)
      <3>1. Runs(c, p)  BY <1>3, CpuFacts, Zenon DEF IInv
      <3> QED  BY <1>3, <1>5, <3>1, Zenon DEF Runs
    <2>2. ctx[p] = "on" /\ state[p] = StateAt(l)  BY <1>3, Zenon DEF IInv, SlotInv
    <2>3. 1 # 0  OBVIOUS
    <2> QED  BY <1>3, <2>1, <2>2, <2>3, Zenon
  <1>7. UNCHANGED <<ncli, intena, intr, iclock, ibusy, reaped, state, pid, parent, chan, killed,
                    exitstatus>>
    BY <1>0, Zenon DEF cpus, inode, obs, table
  <1>8. /\ \A d \in CPU \ {c} : cproc'[d] = cproc[d] /\ spc'[d] = spc[d]
        /\ cproc'[c] = None /\ spc'[c] = "scan"
        /\ \A q \in Slot \ {p} : ctx'[q] = ctx[q] /\ saved'[q] = saved[q]
        /\ ctx'[p] = "off" /\ saved'[p] = intena[c]
    BY <1>0, Zenon DEF TypeOK
  <1>9. \A q \in Slot : /\ at'[q] = IF q = p THEN m ELSE at[q]
                        /\ q # p => pc'[q] = pc[q] /\ irq'[q] = irq[q]
    BY <1>4, Zenon DEF Moves
  <1>10. TypeOK'
    <2>1. pc' \in [Slot -> Labels]
          /\ irq' \in [Slot -> {"none", "y_acquire", "y_sched", "y_release", "y_iret"}]
      <3>1. CASE l = "y_sched"
        <4>1. m = "y_release"  BY <3>1, Zenon DEF AfterSched
        <4>2. irq' = [irq EXCEPT ![p] = "y_release"] /\ pc' = pc
          BY <1>1, <1>3, <3>1, <4>1, Zenon DEF Goto
        <4> QED  BY <1>0, <4>2, Zenon DEF TypeOK
      <3>2. CASE l # "y_sched"
        <4>1. m \in Labels  BY <1>1, <3>2, Zenon DEF AfterSched, Labels
        <4>2. pc' = [pc EXCEPT ![p] = m] /\ irq' = irq  BY <1>1, <1>3, <3>2, Zenon DEF Goto
        <4> HIDE DEF m
        <4> QED  BY <1>0, <4>1, <4>2, Zenon DEF TypeOK
      <3> QED  BY <3>1, <3>2, Zenon
    <2>2. /\ ctx' \in [Slot -> {"on", "off"}] /\ saved' \in [Slot -> BOOLEAN]
          /\ cproc' \in [CPU -> Slot \cup {None}]
          /\ spc' \in [CPU -> {"idle", "scan", "run", "panic"}]
      BY <1>0, Zenon DEF TypeOK
    <2> QED  BY <1>0, <2>1, <2>2, Zenon DEF TypeOK, table, inode, cpus, obs
  <1>11. CpuInv'
    <2>1. ASSUME NEW d \in CPU PROVE
            /\ spc'[d] # "panic" => (spc'[d] = "run" <=> cproc'[d] # None)
            /\ spc'[d] = "idle" => ncli'[d] = 0
            /\ spc'[d] = "scan" => ncli'[d] = 1 /\ ~intr'[d] /\ ptlock' = d
      <3>0. /\ spc[d] # "panic" => (spc[d] = "run" <=> cproc[d] # None)
            /\ spc[d] = "idle" => ncli[d] = 0
            /\ spc[d] = "scan" => ncli[d] = 1 /\ ~intr[d] /\ ptlock = d
        BY Zenon DEF IInv, CpuInv
      <3>1. CASE d = c  BY <1>0, <1>6, <1>7, <1>8, <3>1, Zenon
      <3>2. CASE d # c  BY <1>0, <1>7, <1>8, <3>0, <3>2, Zenon
      <3> QED  BY <3>1, <3>2, Zenon
    <2>2. \A d, e \in CPU : cproc'[d] = cproc'[e] /\ cproc'[d] # None => d = e
      <3> SUFFICES ASSUME NEW d \in CPU, NEW e \in CPU, cproc'[d] = cproc'[e], cproc'[d] # None
                   PROVE  d = e
        BY Zenon
      <3>1. cproc[d] = cproc[e] /\ cproc[d] # None => d = e  BY Zenon DEF IInv, CpuInv
      <3> QED  BY <1>8, <3>1, Zenon
    <2>3. ASSUME NEW d \in CPU, NEW q \in Slot, cproc'[d] = q PROVE
            /\ ncli'[d] = Depth(at'[q])
            /\ intr'[d] <=> (irq'[q] = "none" /\ ncli'[d] = 0)
            /\ at'[q] \in PtCode => ptlock' = d
            /\ at'[q] \in IcCode => iclock' = d
            /\ at'[q] \in (PtCode \cup IcCode) \ Resumed => (intena'[d] <=> irq'[q] = "none")
      <3>1. d # c /\ cproc[d] = q  BY <1>8, <2>3, SlotFacts, Zenon
      <3>2. q # p  BY <1>3, <3>1, OneCpu, Zenon DEF IInv
      <3>3. at'[q] = at[q] /\ irq'[q] = irq[q]  BY <1>9, <3>2, Zenon
      <3>4. Runs(d, q)  BY <3>1, CpuFacts, Zenon DEF IInv
      <3> QED  BY <1>0, <1>7, <3>3, <3>4, Zenon DEF Runs
    <2> QED  BY <2>1, <2>2, <2>3, Zenon DEF CpuInv, Depth
  <1>12. SlotInv'
    <2> SUFFICES ASSUME NEW q \in Slot PROVE
          /\ ctx'[q] = "on" <=> \E d \in CPU : cproc'[d] = q
          /\ irq'[q] # "none" => pc'[q] \notin PtCode \cup IcCode \cup {"x_dead"}
          /\ ctx'[q] = "on" => state'[q] = StateAt(at'[q]) /\ at'[q] # "x_dead"
          /\ ctx'[q] = "off" =>
               \/ state'[q] \in {"UNUSED", "EMBRYO"} /\ at'[q] = "forkret"
               \/ state'[q] = "RUNNABLE" /\ at'[q] \in Resumed
               \/ state'[q] = "SLEEPING" /\ at'[q] \in {"s_tidy", "w_tidy"}
               \/ state'[q] = "ZOMBIE" /\ at'[q] = "x_dead"
          /\ state'[q] = "SLEEPING" => chan'[q] = IF at'[q] \in {"s_sched", "s_tidy"} THEN Inode ELSE q
          /\ at'[q] \in {"s_tidy", "w_tidy"} => saved'[q]
          /\ at'[q] = "y_release" => ~saved'[q]
      BY Zenon DEF SlotInv, StateAt
    <2>1. CASE q = p
      <3>1. ~\E d \in CPU : cproc'[d] = p
        <4> SUFFICES ASSUME NEW d \in CPU, cproc'[d] = p PROVE FALSE  BY Zenon
        <4>1. d # c /\ cproc[d] = p  BY <1>8, SlotFacts, Zenon
        <4> QED  BY <1>3, <4>1, OneCpu, Zenon DEF IInv
      <3>2. irq'[p] # "none" => pc'[p] \notin PtCode \cup IcCode \cup {"x_dead"}
        BY <1>4, Zenon DEF IInv, SlotInv
      <3>3. \/ state[p] = "RUNNABLE" /\ m = "y_release" /\ l = "y_sched"
            \/ state[p] = "SLEEPING" /\ m = "s_tidy" /\ l = "s_sched"
            \/ state[p] = "SLEEPING" /\ m = "w_tidy" /\ l = "w_sched"
            \/ state[p] = "ZOMBIE" /\ m = "x_dead" /\ l = "x_sched"
        BY <1>6, Zenon DEF StateAt, AfterSched
      <3>4. state[p] = "SLEEPING" => chan[p] = IF l \in {"s_sched", "s_tidy"} THEN Inode ELSE p
        BY <1>3, Zenon DEF IInv, SlotInv
      <3>5. at'[p] = m /\ state'[p] = state[p] /\ chan'[p] = chan[p]  BY <1>7, <1>9, Zenon
      <3> HIDE DEF m
      <3> QED  BY <1>6, <1>8, <2>1, <3>1, <3>2, <3>3, <3>4, <3>5, Zenon DEF Resumed
    <2>2. CASE q # p
      <3>1. /\ at'[q] = at[q] /\ pc'[q] = pc[q] /\ irq'[q] = irq[q] /\ saved'[q] = saved[q]
            /\ ctx'[q] = ctx[q] /\ state'[q] = state[q] /\ chan'[q] = chan[q]
        BY <1>7, <1>8, <1>9, <2>2, Zenon
      <3>2. \A d \in CPU : cproc'[d] = q <=> cproc[d] = q  BY <1>3, <1>8, <2>2, SlotFacts, Zenon
      <3>3. /\ ctx[q] = "on" <=> \E d \in CPU : cproc[d] = q
            /\ SlotFits(q, ctx[q], irq[q], pc[q], at[q], state[q], chan[q], saved[q])
        BY SlotKnown, Zenon DEF IInv
      <3>4. ctx'[q] = "on" <=> \E d \in CPU : cproc'[d] = q  BY <3>1, <3>2, <3>3, Zenon
      <3>5. SlotFits(q, ctx'[q], irq'[q], pc'[q], at'[q], state'[q], chan'[q], saved'[q])
        BY <3>1, <3>3, Zenon
      <3> HIDE DEF m
      <3> QED  BY <3>4, <3>5, Zenon DEF SlotFits
    <2> QED  BY <2>1, <2>2, Zenon
  <1>13. \/ pc'[p] = pc[p]
         \/ /\ pc[p] \in {"s_sched", "w_sched", "x_sched"} /\ pc'[p] \in {"s_tidy", "w_tidy", "x_dead"}
            /\ pc'[p] = "x_dead" => pc[p] = "x_sched"
    <2>1. CASE l = "y_sched"  BY <1>3, <1>4, <2>1, Zenon
    <2>2. CASE l # "y_sched"
      <3>1. m \in {"s_tidy", "w_tidy", "x_dead"} /\ (m = "x_dead" => l = "x_sched")
        BY <2>2, Zenon DEF AfterSched
      <3>2. pc[p] = l /\ pc'[p] = m  BY <1>3, <1>4, <2>2, Zenon
      <3> QED  BY <2>2, <3>1, <3>2, Zenon
    <2> QED  BY <2>1, <2>2, Zenon
  <1>14. InodeInv'
    <2>1. \A q \in Slot \ {p} : pc'[q] = pc[q]  BY <1>9, Zenon
    <2> QED  BY <1>7, <1>13, <2>1, InodeMove, Zenon DEF IInv
  <1>15. FamilyInv'
    <2>1. \A q \in Slot \ {p} : pc'[q] = pc[q] /\ exitstatus'[q] = exitstatus[q]  BY <1>7, <1>9, Zenon
    <2>2. pc'[p] = pc[p] \/ (~Forks(p)' /\ (Exits(p)' => Exits(p)))
      BY <1>13, Zenon DEF Forks, Exits
    <2>3. UNCHANGED <<parent, np, pid, reaped>>  BY <1>0, <1>7, Zenon
    <2> QED  BY <1>0, <1>7, <2>1, <2>2, <2>3, FamilyMove, Zenon DEF IInv
  <1> QED  BY <1>10, <1>11, <1>12, <1>14, <1>15, Zenon DEF IInv

----------------------------------------------------------------------------
LEMMA NextInv == IInv /\ [Next]_vars => IInv'
  <1> SUFFICES ASSUME IInv, [Next]_vars PROVE IInv'  BY Zenon
  <1>1. CASE UNCHANGED vars
    <2>1. UNCHANGED <<table, ctx, saved, pc, irq, np, ibusy, reaped, cproc>>
      BY <1>1, Zenon DEF vars, switch, inode, obs
    <2>2. SlotInv' /\ InodeInv' /\ FamilyInv' /\ UNCHANGED at  BY <2>1, TableSame, Zenon
    <2>3. UNCHANGED <<ncli, intena, intr, cproc, spc, ptlock, iclock, irq, at>>
      BY <1>1, <2>2, Zenon DEF vars, cpus, switch, inode
    <2>4. CpuInv'  BY <2>3, SameCpus, Zenon DEF IInv
    <2>5. TypeOK'  BY <1>1, Zenon DEF IInv, TypeOK, vars, table, cpus, switch, inode, obs
    <2> QED  BY <2>2, <2>4, <2>5, Zenon DEF IInv
  <1>2. ASSUME NEW c \in CPU, Scheduler(c) \/ InitExit(c) PROVE IInv'
    BY <1>2, SchedAcquireInv, SchedSwitchInv, SchedReleaseInv, InitExitInv, Zenon DEF Scheduler
  <1>3. ASSUME NEW c \in CPU, NEW p \in Slot, Switching(c, p) PROVE IInv'
    BY <1>3, schedInv, forkretInv, yieldInv, YieldReturnInv, IretInv, Zenon DEF Switching
  <1>4. ASSUME NEW c \in CPU, NEW p \in Slot, Syscall(c, p) PROVE IInv'
    BY <1>4, ForkFailInv, ForkCopyInv, ForkReadyInv, ExitZombieInv, WaitAcquireInv, WaitReapInv,
       WaitFailInv, WaitSleepInv, WaitTidyInv, IlockAcquireInv, IlockTakeInv, SleepAcquireInv,
       SleepReleaseInv, SleepStateInv, SleepTidyInv, iunlockInv, wakeupInv, Zenon DEF Syscall
  <1>5. ASSUME NEW c \in CPU, NEW p \in Slot, Calls(c, p) PROVE IInv'
    BY <1>5, allocprocInv, exitInv, waitInv, killInv, ilockInv, Zenon DEF Calls
  <1>6. ASSUME NEW c \in CPU, NEW p \in Slot, Timer(c, p) PROVE IInv'
    BY <1>6, TimerInv, Zenon
  <1> QED  BY <1>1, <1>2, <1>3, <1>4, <1>5, <1>6, Zenon DEF Next

LEMMA Inductive == Spec => []IInv
  BY InitInv, NextInv, PTL DEF Spec

(* struct proc, struct cpu and the locals of proc.c keep their types: the  *)
(* pushcli() nesting never exceeds two locks or goes below zero, and the   *)
(* scheduler's loop variable stays within the table or one past it.        *)
THEOREM ProcTypeCorrect == Spec => []TypeOK
  <1>1. IInv => TypeOK  BY Zenon DEF IInv
  <1> QED  BY <1>1, Inductive, PTL

(* scheduler() and sched(): no kernel stack is used by two CPUs, and while *)
(* the table says that a process whose stack is in use may be run or       *)
(* reaped, the CPU that uses the stack holds ptable.lock.                  *)
THEOREM ProcStackSafe == Spec => []StackSafe
  <1>1. ASSUME IInv PROVE StackSafe
    <2>1. ASSUME NEW p \in Slot, ctx[p] = "on"
          PROVE  \E c \in CPU : cproc[c] = p /\ (state[p] # "RUNNING" => ptlock = c)
      <3>1. PICK c \in CPU : cproc[c] = p  BY <1>1, <2>1, Zenon DEF IInv, SlotInv
      <3>2. state[p] = StateAt(at[p])  BY <1>1, <2>1, Zenon DEF IInv, SlotInv
      <3>3. state[p] # "RUNNING" => at[p] \in PtCode  BY <3>2, Zenon DEF StateAt, PtCode
      <3>4. state[p] # "RUNNING" => ptlock = c  BY <1>1, <3>1, <3>3, Zenon DEF IInv, CpuInv
      <3> QED  BY <3>1, <3>4, Zenon
    <2>2. \A c, d \in CPU : cproc[c] = cproc[d] /\ cproc[c] # None => c = d
      BY <1>1, Zenon DEF IInv, CpuInv
    <2> QED  BY <2>1, <2>2, Zenon DEF StackSafe
  <1> QED  BY <1>1, Inductive, PTL

(* None of the four panics of sched() can happen: its callers hold         *)
(* ptable.lock and nothing else, have changed their state, and run with    *)
(* interrupts off.                                                         *)
THEOREM ProcSchedAssertions == Spec => []SchedAssertions
  <1>1. ASSUME IInv PROVE SchedAssertions
    <2> SUFFICES ASSUME NEW c \in CPU, NEW p \in Slot,
                        NEW l \in {"y_sched", "s_sched", "w_sched", "x_sched"}, On(c, p, l)
                 PROVE  ptlock = c /\ ncli[c] = 1 /\ state[p] # "RUNNING" /\ ~intr[c]
      BY Zenon DEF SchedAssertions
    <2>1. cproc[c] = p /\ at[p] = l  BY <1>1, OnFacts DEF IInv
    <2>2. l \in PtCode /\ Depth(l) = 1 /\ StateAt(l) # "RUNNING"
      BY Zenon DEF PtCode, IcCode, Depth, StateAt
    <2>3. ncli[c] = 1 /\ ptlock = c /\ ~intr[c]
      <3>1. Runs(c, p)  BY <1>1, <2>1, CpuFacts, Zenon DEF IInv
      <3>2. 1 # 0  OBVIOUS
      <3> QED  BY <2>1, <2>2, <3>1, <3>2, Zenon DEF Runs
    <2>4. state[p] # "RUNNING"  BY <1>1, <2>1, <2>2, Zenon DEF IInv, SlotInv
    <2> QED  BY <2>3, <2>4, Zenon
  <1> QED  BY <1>1, Inductive, PTL

(* sched() saves and restores intena: a process that holds no lock has     *)
(* interrupts on in its system call and off in the timer trap, on whatever *)
(* CPU it goes on.                                                         *)
THEOREM ProcInterruptsRestored == Spec => []InterruptsRestored
  <1>1. ASSUME IInv PROVE InterruptsRestored
    <2> SUFFICES ASSUME NEW c \in CPU, NEW p \in Slot, cproc[c] = p
                 PROVE  intr[c] = (irq[p] = "none" /\ ncli[c] = 0)
      BY Zenon DEF InterruptsRestored
    <2>1. intr[c] <=> (irq[p] = "none" /\ ncli[c] = 0)  BY <1>1, Zenon DEF IInv, CpuInv
    <2>2. intr[c] \in BOOLEAN  BY <1>1, Zenon DEF IInv, TypeOK
    <2> QED  BY <2>1, <2>2, Zenon
  <1> QED  BY <1>1, Inductive, PTL

(* sleep(ip, &icache.lock) takes ptable.lock before it releases the lock   *)
(* it was given, so that the wakeup() of iunlock() is never lost.          *)
THEOREM ProcInodeSleepers == Spec => []InodeSleepersHaveReason
  <1>1. IInv => InodeSleepersHaveReason  BY Zenon DEF IInv, InodeInv, InodeSleepersHaveReason
  <1> QED  BY <1>1, Inductive, PTL

(* exit() and kill() wake whoever they must: nobody sleeps in wait()       *)
(* without children, with a zombie child, or killed.                       *)
THEOREM ProcWaiters == Spec => []WaitersHaveReason
  <1>1. IInv => WaitersHaveReason  BY Zenon DEF IInv, FamilyInv
  <1> QED  BY <1>1, Inductive, PTL

(* exit() gives its children to init, fork() sets np->parent before the    *)
(* child can run: whoever has to be waited for has a live parent.          *)
THEOREM ProcParentAlive == Spec => []ParentAlive
  <1>1. IInv => ParentAlive  BY Zenon DEF IInv, FamilyInv
  <1> QED  BY <1>1, Inductive, PTL

(* wait() returns the exit value of the process whose pid it returns.      *)
THEOREM ProcStatusExchanged == Spec => []StatusExchanged
  <1>1. IInv => StatusExchanged  BY Zenon DEF IInv, FamilyInv
  <1> QED  BY <1>1, Inductive, PTL

(* ilock() tests I_BUSY again after each sleep(): one process at a time    *)
(* holds the inode.                                                        *)
THEOREM ProcInodeExclusive == Spec => []InodeExclusive
  <1>1. IInv => InodeExclusive  BY Zenon DEF IInv, InodeInv
  <1> QED  BY <1>1, Inductive, PTL
=============================================================================
