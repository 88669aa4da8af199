----------------------------- MODULE BioProofs -----------------------------
(***************************************************************************)
(* Proofs about Bio.tla, for any number of buffers, blocks and processes.  *)
(*                                                                         *)
(* IInv strengthens the invariants until they are inductive: who holds     *)
(* which buffer (LocalInv, OwnInv), which block is where and why it is     *)
(* dirty (CacheInv), what is in the disk's queue (IoInv).  DataInv, which  *)
(* holds while the disk does not fail, says which values are on disk: with *)
(* it every step of bio.c is a step of BlockStore or changes nothing in it.*)
(***************************************************************************)
EXTENDS Bio, TLAPS

(* The code between bget() and brelse(), where bp is the process's own.    *)
Holding == {"iderw", "io", "io_check", "have", "modified"}

LocalInv == \A p \in Proc :
    /\ pc[p] = "idle" => kept[p] = NoBuf
    /\ pc[p] # "idle" => want[p] \in Block
    /\ pc[p] \in Holding => bp[p] \in Buf /\ blockno[bp[p]] = want[p]
    /\ pc[p] = "bget_sleep" => bp[p] \in Buf
    /\ kept[p] # NoBuf => blockno[kept[p]] # want[p] /\ kept[p] \in valid

OwnInv ==
    /\ \A p, q \in Proc : p # q => Held(p) \cap Held(q) = {}
    /\ \A b \in Buf : b \in busy <=> \E p \in Proc : b \in Held(p)

(* A block is in one buffer.  One that is dirty is logged, or on its way   *)
(* to the disk.                                                            *)
CacheInv ==
    /\ \A b, c \in Buf : blockno[b] = blockno[c] /\ blockno[b] # NoBlock => b = c
    /\ \A b \in valid : blockno[b] \in Block
    /\ dirty \subseteq valid
    /\ \A b \in dirty : \/ blockno[b] \in pins
                        \/ \E p \in Proc : pc[p] \in {"iderw", "io"} /\ bp[p] = b

IoInv ==
    /\ \A p \in Proc :
         /\ pc[p] \in {"iderw", "io"} => bp[p] \notin valid \ dirty
         /\ pc[p] = "io_check" => bp[p] \in valid \ dirty
         /\ pc[p] \in {"have", "modified"} => bp[p] \in valid
    /\ QueueSound

IInv ==
    /\ TypeOK /\ LocalInv /\ OwnInv /\ CacheInv /\ IoInv
    /\ SleepersHaveReason /\ PanicsOnlyWhenFull

(* What is neither dirty nor being changed is as on disk.                  *)
DataInv == \A b \in valid \ dirty :
    data[b] = disk[blockno[b]] \/ \E p \in Proc : pc[p] = "modified" /\ bp[p] = b

----------------------------------------------------------------------------
(* Facts about the sequences that the disk's queue goes through.           *)
LEMMA EmptyFacts ==
    ASSUME NEW S
    PROVE  /\ <<>> \in Seq(S) /\ Len(<<>>) = 0
           /\ \A s \in Seq(S) : s # <<>> => Len(s) # 0
  OBVIOUS

LEMMA AppendFacts ==
    ASSUME NEW S, NEW s \in Seq(S), NEW e \in S
    PROVE  /\ Append(s, e) \in Seq(S) /\ Len(Append(s, e)) = Len(s) + 1
           /\ \A k \in 1 .. Len(s) : Append(s, e)[k] = s[k]
           /\ Append(s, e)[Len(s) + 1] = e
  OBVIOUS

LEMMA TailFacts ==
    ASSUME NEW S, NEW s \in Seq(S), s # <<>>
    PROVE  /\ Head(s) \in S /\ Tail(s) \in Seq(S) /\ Len(Tail(s)) = Len(s) - 1
           /\ \A k \in 1 .. Len(Tail(s)) : Tail(s)[k] = s[k + 1]
  OBVIOUS

(* brelse() keeps the list a list of all the buffers, each once.           *)
LEMMA FrontFacts ==
    ASSUME BioAssumption, lru \in Orders, NEW b \in Buf
    PROVE  MoveToFront(b) \in Orders
  <1> DEFINE n == NBUF
             m == CHOOSE j \in DOMAIN lru : lru[j] = b
             f == [j \in 1 .. n |-> IF j = 1 THEN b ELSE lru[IF j <= m THEN j - 1 ELSE j]]
  <1>1. n \in Nat  BY Zenon DEF BioAssumption
  <1>2. lru \in [1 .. n -> Buf] /\ \A c \in Buf : \E k \in 1 .. n : lru[k] = c  BY Zenon DEF Orders
  <1>3. MoveToFront(b) = f  BY <1>2, Zenon DEF MoveToFront
  <1>4. m \in 1 .. n /\ lru[m] = b
    <2>1. \E j \in DOMAIN lru : lru[j] = b  BY <1>2, Zenon
    <2> QED  BY <1>2, <2>1, Zenon
  <1> HIDE DEF m
  <1>5. \A j, k \in 1 .. n : lru[j] = lru[k] => j = k  BY Zenon DEF Orders
  <1> HIDE DEF n
  <1>6. \A j \in 1 .. n : f[j] = IF j = 1 THEN b ELSE lru[IF j <= m THEN j - 1 ELSE j]  BY Zenon
  <1>7. \A j \in 1 .. n : j # 1 => (IF j <= m THEN j - 1 ELSE j) \in (1 .. n) \ {m}
    BY <1>1, <1>4
  <1>8. f \in [1 .. n -> Buf]  BY <1>2, <1>7, Zenon
  <1>9. \A j, k \in 1 .. n : f[j] = f[k] => j = k
    <2> SUFFICES ASSUME NEW j \in 1 .. n, NEW k \in 1 .. n, f[j] = f[k] PROVE j = k  BY Zenon
    <2>1. CASE j = 1  BY <1>4, <1>5, <1>6, <1>7, <2>1, Zenon
    <2>2. CASE k = 1  BY <1>4, <1>5, <1>6, <1>7, <2>2, Zenon
    <2>3. CASE j # 1 /\ k # 1
      <3>1. (IF j <= m THEN j - 1 ELSE j) = (IF k <= m THEN k - 1 ELSE k)
        BY <1>5, <1>6, <1>7, <2>3, Zenon
      <3> QED  BY <1>1, <1>4, <3>1
    <2> QED  BY <2>1, <2>2, <2>3, Zenon
  <1>10. \A c \in Buf : \E j \in 1 .. n : f[j] = c
    <2> SUFFICES ASSUME NEW c \in Buf PROVE \E j \in 1 .. n : f[j] = c  BY Zenon
    <2>1. PICK k \in 1 .. n : lru[k] = c  BY <1>2, Zenon
    <2>2. CASE k = m  BY <1>1, <1>4, <1>6, <2>1, <2>2
    <2>3. CASE k < m
      <3>1. k + 1 \in 1 .. n /\ k + 1 # 1 /\ k + 1 <= m /\ (k + 1) - 1 = k  BY <1>1, <1>4, <2>3
      <3> QED  BY <1>6, <2>1, <3>1, Zenon
    <2>4. CASE k > m
      <3>1. k # 1 /\ ~(k <= m)  BY <1>1, <1>4, <2>4
      <3> QED  BY <1>6, <2>1, <3>1, Zenon
    <2> QED  BY <1>1, <1>4, <2>2, <2>3, <2>4
  <1> HIDE DEF f
  <1> QED  BY <1>3, <1>8, <1>9, <1>10, Zenon DEF n, Orders

LEMMA InitInv == ASSUME BioAssumption, Init PROVE IInv /\ DataInv
  <1>2. \A p \in Proc : pc[p] = "idle" /\ kept[p] = NoBuf /\ Held(p) = {}
    BY Zenon DEF Init, Held
  <1>3. TypeOK
    <2>1. (CHOOSE v \in Value : TRUE) \in Value  BY Zenon DEF BioAssumption
    <2>2. data \in [Buf -> Value]  BY <2>1, Zenon DEF Init
    <2>3. idequeue \in Seq(Buf)  BY EmptyFacts, Zenon DEF Init
    <2> QED  BY <2>2, <2>3, Zenon DEF Init, TypeOK
  <1>4. LocalInv  BY <1>2, Zenon DEF LocalInv, Holding
  <1>5. OwnInv  BY <1>2, Zenon DEF OwnInv, Init
  <1>6. CacheInv /\ DataInv  BY Zenon DEF Init, CacheInv, DataInv
  <1>7. IoInv
    <2>1. DOMAIN idequeue = {}
      <3>1. idequeue \in Seq(Buf) /\ Len(idequeue) = 0  BY <1>3, EmptyFacts, Zenon DEF Init, TypeOK
      <3> QED  BY <3>1
    <2> QED  BY <1>2, <2>1, Zenon DEF IoInv, QueueSound
  <1>8. SleepersHaveReason /\ PanicsOnlyWhenFull
    BY <1>2, Zenon DEF Init, SleepersHaveReason, PanicsOnlyWhenFull
  <1> QED  BY <1>3, <1>4, <1>5, <1>6, <1>7, <1>8, Zenon DEF IInv

----------------------------------------------------------------------------
(* TypeOK in two parts.                                                    *)
BufTypes ==
    /\ blockno \in [Buf -> Block \cup {NoBlock}] /\ data \in [Buf -> Value]
    /\ busy \subseteq Buf /\ valid \subseteq Buf /\ dirty \subseteq Buf
    /\ lru \in Orders /\ idequeue \in Seq(Buf) /\ disk \in [Block -> Value]
    /\ pins \subseteq Block
    /\ panicked \in {"", "bget: no buffers", "iderw: buf not busy",
                     "iderw: nothing to do", "bwrite", "brelse"}

ProcTypes ==
    /\ pc \in [Proc -> {"idle", "bget", "bget_sleep"} \cup Holding]
    /\ want \in [Proc -> Block \cup {NoBlock}] /\ bp \in [Proc -> Buf \cup {NoBuf}]
    /\ kept \in [Proc -> Buf \cup {NoBuf}]

LEMMA TypeSplit == TypeOK <=> BufTypes /\ ProcTypes
  <1>1. {"idle", "bget", "bget_sleep"} \cup Holding
          = {"idle", "bget", "bget_sleep", "iderw", "io", "io_check", "have", "modified"}
    BY Zenon DEF Holding
  <1> QED  BY <1>1, Zenon DEF TypeOK, BufTypes, ProcTypes

(* A step of p that leaves the other processes where they are.             *)
Alone(p) == \A q \in Proc \ {p} :
    pc'[q] = pc[q] /\ bp'[q] = bp[q] /\ kept'[q] = kept[q] /\ want'[q] = want[q]

(* After the step p holds S, and the others what they held.                *)
NowHolds(p, S) == Held(p)' = S /\ \A q \in Proc \ {p} : Held(q)' = Held(q)

LEMMA HeldSame ==
    ASSUME NEW q, pc'[q] \in Holding <=> pc[q] \in Holding, bp'[q] = bp[q], kept'[q] = kept[q]
    PROVE  Held(q)' = Held(q)
  BY Zenon DEF Held, Holding

LEMMA HeldAlone ==
    ASSUME NEW p \in Proc, Alone(p), Held(p)' = Held(p)
    PROVE  NowHolds(p, Held(p))
  <1> SUFFICES ASSUME NEW q \in Proc \ {p} PROVE Held(q)' = Held(q)  BY Zenon DEF NowHolds
  <1>1. pc'[q] = pc[q] /\ bp'[q] = bp[q] /\ kept'[q] = kept[q]  BY Zenon DEF Alone
  <1> QED  BY <1>1, HeldSame, Zenon

LEMMA HeldBuf == ASSUME IInv, NEW q \in Proc PROVE Held(q) \subseteq Buf
  <1>1. kept[q] \in Buf \cup {NoBuf}  BY Zenon DEF IInv, TypeOK
  <1>2. pc[q] \in Holding => bp[q] \in Buf  BY Zenon DEF IInv, LocalInv
  <1> QED  BY <1>1, <1>2, Zenon DEF Held, Holding

LEMMA OwnSame ==
    ASSUME OwnInv, busy' = busy, \A q \in Proc : Held(q)' = Held(q)
    PROVE  OwnInv'
  BY DEF OwnInv

LEMMA OwnMore ==
    ASSUME OwnInv, NEW p \in Proc, NEW b \in Buf, b \notin busy, busy' = busy \cup {b},
           Held(p)' = Held(p) \cup {b}, \A q \in Proc \ {p} : Held(q)' = Held(q)
    PROVE  OwnInv'
  <1>1. \A q \in Proc : b \notin Held(q)  BY Zenon DEF OwnInv
  <1>2. \A q, s \in Proc : q # s => Held(q)' \cap Held(s)' = {}  BY <1>1 DEF OwnInv
  <1>3. \A c \in Buf : c \in busy' <=> \E q \in Proc : c \in Held(q)'  BY DEF OwnInv
  <1> QED  BY <1>2, <1>3, Zenon DEF OwnInv

LEMMA OwnLess ==
    ASSUME OwnInv, NEW p \in Proc, NEW b \in Held(p), busy' = busy \ {b},
           Held(p)' = Held(p) \ {b}, \A q \in Proc \ {p} : Held(q)' = Held(q)
    PROVE  OwnInv'
  <1>1. \A q \in Proc \ {p} : b \notin Held(q)  BY Zenon DEF OwnInv
  <1>2. \A q, s \in Proc : q # s => Held(q)' \cap Held(s)' = {}  BY DEF OwnInv
  <1>3. \A c \in Buf : c \in busy' <=> \E q \in Proc : c \in Held(q)'  BY <1>1 DEF OwnInv
  <1> QED  BY <1>2, <1>3, Zenon DEF OwnInv

(* A step of p that changes no buffer's block or holder.                   *)
LEMMA HoldStep ==
    ASSUME IInv, NEW p \in Proc, Alone(p), panicked' = "",
           UNCHANGED <<blockno, busy, lru, valid>>, Held(p)' = Held(p),
           pc'[p] # "idle", want'[p] \in Block,
           pc'[p] \in Holding => bp'[p] \in Buf /\ blockno[bp'[p]] = want'[p],
           pc'[p] = "bget_sleep" => bp'[p] \in Buf /\ \E q \in Proc \ {p} : bp'[p] \in Held(q),
           kept'[p] # NoBuf => blockno[kept'[p]] # want'[p] /\ kept'[p] \in valid
    PROVE  LocalInv' /\ OwnInv' /\ SleepersHaveReason' /\ PanicsOnlyWhenFull'
  <1>1. \A q \in Proc : Held(q)' = Held(q)
    <2> SUFFICES ASSUME NEW q \in Proc \ {p} PROVE Held(q)' = Held(q)  BY Zenon
    <2>1. pc'[q] = pc[q] /\ bp'[q] = bp[q] /\ kept'[q] = kept[q]  BY Zenon DEF Alone
    <2> QED  BY <2>1, HeldSame, Zenon
  <1>2. LocalInv'
    <2> SUFFICES ASSUME NEW q \in Proc PROVE
          /\ pc'[q] = "idle" => kept'[q] = NoBuf
          /\ pc'[q] # "idle" => want'[q] \in Block
          /\ pc'[q] \in Holding => bp'[q] \in Buf /\ blockno'[bp'[q]] = want'[q]
          /\ pc'[q] = "bget_sleep" => bp'[q] \in Buf
          /\ kept'[q] # NoBuf => blockno'[kept'[q]] # want'[q] /\ kept'[q] \in valid'
      BY Zenon DEF LocalInv
    <2>1. CASE q = p  BY <2>1, Zenon
    <2>2. CASE q # p
      <3>1. pc'[q] = pc[q] /\ bp'[q] = bp[q] /\ kept'[q] = kept[q] /\ want'[q] = want[q]
        BY <2>2, Zenon DEF Alone
      <3> QED  BY <3>1 DEF IInv, LocalInv
    <2> QED  BY <2>1, <2>2, Zenon
  <1>3. OwnInv'  BY <1>1, OwnSame, Zenon DEF IInv
  <1>4. SleepersHaveReason'
    <2> SUFFICES ASSUME NEW q \in Proc, pc'[q] = "bget_sleep"
                 PROVE  \E s \in Proc \ {q} : bp'[q] \in Held(s)
      BY <1>1, Zenon DEF SleepersHaveReason
    <2>1. CASE q = p  BY <2>1, Zenon
    <2>2. CASE q # p
      <3>1. pc[q] = "bget_sleep" /\ bp'[q] = bp[q]  BY <2>2, Zenon DEF Alone
      <3> QED  BY <3>1, Zenon DEF IInv, SleepersHaveReason
    <2> QED  BY <2>1, <2>2, Zenon
  <1>5. PanicsOnlyWhenFull'  BY Zenon DEF PanicsOnlyWhenFull
  <1> QED  BY <1>2, <1>3, <1>4, <1>5, Zenon

LEMMA CacheStep ==
    ASSUME IInv, NEW p \in Proc, Alone(p), UNCHANGED <<blockno, valid>>, pins \subseteq pins',
           \/ dirty' = dirty
           \/ /\ bp[p] \in valid /\ bp'[p] = bp[p] /\ dirty' = dirty \cup {bp[p]}
              /\ blockno[bp[p]] \in pins' \/ pc'[p] = "iderw",
           pc[p] \in {"iderw", "io"} => pc'[p] \in {"iderw", "io"} /\ bp'[p] = bp[p]
    PROVE  CacheInv'
  <1>1. dirty' \subseteq valid'  BY Zenon DEF IInv, CacheInv
  <1>2. ASSUME NEW b \in dirty'
        PROVE  blockno'[b] \in pins' \/ \E q \in Proc : pc'[q] \in {"iderw", "io"} /\ bp'[q] = b
    <2>1. CASE b \in dirty
      <3>1. CASE blockno[b] \in pins  BY <3>1, Zenon
      <3>2. ASSUME NEW q \in Proc, pc[q] \in {"iderw", "io"}, bp[q] = b
            PROVE  pc'[q] \in {"iderw", "io"} /\ bp'[q] = b
        BY <3>2, Zenon DEF Alone
      <3> QED  BY <2>1, <3>1, <3>2, Zenon DEF IInv, CacheInv
    <2>2. CASE b \notin dirty  BY <1>2, <2>2, Zenon
    <2> QED  BY <2>1, <2>2, Zenon
  <1> QED  BY <1>1, <1>2, Zenon DEF IInv, CacheInv

LEMMA IoStep ==
    ASSUME IInv, NEW p \in Proc, Alone(p), UNCHANGED <<idequeue, valid>>,
           pc[p] # "io", pc'[p] # "io",
           dirty' = dirty \/ (pc[p] \in Holding /\ dirty' = dirty \cup {bp[p]}),
           pc'[p] = "iderw" => bp'[p] \notin valid \ dirty',
           pc'[p] = "io_check" => bp'[p] \in valid \ dirty',
           pc'[p] \in {"have", "modified"} => bp'[p] \in valid
    PROVE  IoInv'
  <1>1. ASSUME NEW q \in Proc PROVE
          /\ pc'[q] \in {"iderw", "io"} => bp'[q] \notin valid' \ dirty'
          /\ pc'[q] = "io_check" => bp'[q] \in valid' \ dirty'
          /\ pc'[q] \in {"have", "modified"} => bp'[q] \in valid'
    <2>1. CASE q = p  BY <2>1, Zenon
    <2>2. CASE q # p
      <3>1. pc'[q] = pc[q] /\ bp'[q] = bp[q]  BY <2>2, Zenon DEF Alone
      <3>2. pc[q] = "io_check" /\ pc[p] \in Holding => bp[q] # bp[p]
        <4>1. pc[q] = "io_check" => bp[q] \in Held(q)  BY Zenon DEF Held
        <4>2. pc[p] \in Holding => bp[p] \in Held(p)  BY Zenon DEF Held, Holding
        <4> QED  BY <2>2, <4>1, <4>2, Zenon DEF IInv, OwnInv
      <3> QED  BY <3>1, <3>2, Zenon DEF IInv, IoInv
    <2> QED  BY <2>1, <2>2, Zenon
  <1>2. \A q \in Proc : /\ pc'[q] = "io" <=> pc[q] = "io"
                        /\ pc[q] = "io" => bp'[q] = bp[q]
    BY Zenon DEF Alone
  <1>3. QueueSound'  BY <1>2 DEF IInv, IoInv, QueueSound
  <1> QED  BY <1>1, <1>3, Zenon DEF IoInv

LEMMA DataStep ==
    ASSUME DataInv, NEW p \in Proc, Alone(p), UNCHANGED <<blockno, valid, disk>>,
           dirty \subseteq dirty', \A b \in valid \ {bp[p]} : data'[b] = data[b],
           \/ data'[bp[p]] = data[bp[p]] /\ (pc[p] = "modified" => bp[p] \in dirty')
           \/ pc'[p] = "modified" /\ bp'[p] = bp[p]
    PROVE  DataInv'
  <1> SUFFICES ASSUME NEW b \in valid \ dirty'
               PROVE  \/ data'[b] = disk[blockno[b]]
                      \/ \E q \in Proc : pc'[q] = "modified" /\ bp'[q] = b
    BY Zenon DEF DataInv
  <1>1. data[b] = disk[blockno[b]] \/ \E q \in Proc : pc[q] = "modified" /\ bp[q] = b
    BY Zenon DEF DataInv
  <1>2. \A q \in Proc \ {p} : pc'[q] = pc[q] /\ bp'[q] = bp[q]  BY Zenon DEF Alone
  <1> QED  BY <1>1, <1>2

----------------------------------------------------------------------------
(* One lemma per action.                                                   *)
LEMMA breadInv ==
    ASSUME BioAssumption, IInv, NEW p \in Proc, bread(p)
    PROVE  IInv' /\ (DataInv => DataInv') /\ NowHolds(p, Held(p))
  <1> USE DEF IInv
  <1>1. PICK k \in Block : want' = [want EXCEPT ![p] = k]  BY Zenon DEF bread
  <1>2. /\ pc[p] = "idle" /\ pc' = [pc EXCEPT ![p] = "bget"] /\ panicked = ""
        /\ UNCHANGED <<blockno, data, busy, valid, dirty, lru, idequeue, disk>>
        /\ UNCHANGED <<bp, kept, pins, panicked>>
    BY Zenon DEF bread, At, Goto, buffers
  <1>3. pc'[p] = "bget" /\ want'[p] = k /\ kept[p] = NoBuf
    BY <1>1, <1>2, Zenon DEF TypeOK, LocalInv
  <1>4. Alone(p)  BY <1>1, <1>2, Zenon DEF Alone, TypeOK
  <1>5. Held(p)' = Held(p)  BY <1>2, <1>3, Zenon DEF Held
  <1>6. LocalInv' /\ OwnInv' /\ SleepersHaveReason' /\ PanicsOnlyWhenFull'
    <2>1. kept'[p] = NoBuf /\ pc'[p] \notin Holding  BY <1>2, <1>3, Zenon DEF Holding
    <2> HIDE DEF IInv
    <2> QED  BY <1>2, <1>3, <1>4, <1>5, <2>1, HoldStep, Zenon
  <1>7. TypeOK'
    <2>1. BufTypes /\ ProcTypes  BY TypeSplit, Zenon
    <2>2. BufTypes'  BY <1>1, <1>2, <2>1, Zenon DEF BufTypes
    <2>3. ProcTypes'  BY <1>1, <1>2, <2>1, Zenon DEF ProcTypes, Holding
    <2>4. TypeOK' <=> BufTypes' /\ ProcTypes'  BY TypeSplit, PTL
    <2> QED  BY <2>2, <2>3, <2>4, Zenon
  <1>8. CacheInv' /\ IoInv'
    <2> HIDE DEF IInv
    <2>1. CacheInv'  BY <1>2, <1>4, CacheStep, Zenon
    <2>2. IoInv'  BY <1>2, <1>3, <1>4, IoStep, Zenon
    <2> QED  BY <2>1, <2>2, Zenon
  <1>9. DataInv => DataInv'  BY <1>2, <1>4, DataStep, Zenon
  <1> QED  BY <1>6, <1>7, <1>8, <1>9, <1>4, <1>5, HeldAlone, Zenon

LEMMA NestedBreadInv ==
    ASSUME BioAssumption, IInv, NEW p \in Proc, NestedBread(p)
    PROVE  IInv' /\ (DataInv => DataInv') /\ NowHolds(p, Held(p))
  <1> USE DEF IInv
  <1>1. PICK k \in Block : k > want[p] /\ want' = [want EXCEPT ![p] = k]  BY Zenon DEF NestedBread
  <1>2. /\ pc[p] = "have" /\ pc' = [pc EXCEPT ![p] = "bget"] /\ panicked = ""
        /\ kept' = [kept EXCEPT ![p] = bp[p]] /\ bp' = [bp EXCEPT ![p] = NoBuf]
        /\ kept[p] = NoBuf
        /\ UNCHANGED <<blockno, data, busy, valid, dirty, lru, idequeue, disk>>
        /\ UNCHANGED <<pins, panicked>>
    BY Zenon DEF NestedBread, At, Goto, buffers
  <1>3. pc'[p] = "bget" /\ want'[p] = k /\ kept'[p] = bp[p] /\ bp'[p] = NoBuf
    BY <1>1, <1>2, Zenon DEF TypeOK
  <1>4. Alone(p)  BY <1>1, <1>2, Zenon DEF Alone, TypeOK
  <1>5. bp[p] \in Buf /\ blockno[bp[p]] = want[p] /\ bp[p] \in valid /\ want[p] \in Block
    BY <1>2, Zenon DEF LocalInv, IoInv, Holding
  <1>6. k # want[p] /\ bp[p] # NoBuf  BY <1>1, <1>5 DEF BioAssumption
  <1>7. Held(p)' = Held(p)  BY <1>2, <1>3, <1>6, Zenon DEF Held
  <1>8. LocalInv' /\ OwnInv' /\ SleepersHaveReason' /\ PanicsOnlyWhenFull'
    <2>1. pc'[p] \notin Holding  BY <1>3, Zenon DEF Holding
    <2> HIDE DEF IInv
    <2> QED  BY <1>2, <1>3, <1>4, <1>5, <1>6, <1>7, <2>1, HoldStep, Zenon
  <1>9. TypeOK'
    <2>1. BufTypes /\ ProcTypes  BY TypeSplit
    <2>2. BufTypes'  BY <1>1, <1>2, <1>5, <2>1, Zenon DEF BufTypes
    <2>3. ProcTypes'  BY <1>1, <1>2, <1>5, <2>1, Zenon DEF ProcTypes, Holding
    <2>4. TypeOK' <=> BufTypes' /\ ProcTypes'  BY TypeSplit, PTL
    <2> QED  BY <2>2, <2>3, <2>4
  <1>10. CacheInv' /\ IoInv'
    <2> HIDE DEF IInv
    <2>1. CacheInv'  BY <1>2, <1>4, CacheStep, Zenon
    <2>2. IoInv'  BY <1>2, <1>3, <1>4, IoStep, Zenon
    <2> QED  BY <2>1, <2>2
  <1>11. DataInv => DataInv'  BY <1>2, <1>4, DataStep, Zenon
  <1> QED  BY <1>8, <1>9, <1>10, <1>11, <1>4, <1>7, HeldAlone

LEMMA BgetSleepInv ==
    ASSUME BioAssumption, IInv, NEW p \in Proc, BgetSleep(p)
    PROVE  IInv' /\ (DataInv => DataInv') /\ NowHolds(p, Held(p))
  <1> USE DEF IInv
  <1>1. PICK b \in Caching(want[p]) \cap busy :
          bp' = [bp EXCEPT ![p] = b] /\ pc' = [pc EXCEPT ![p] = "bget_sleep"]
    BY Zenon DEF BgetSleep, Goto
  <1>2. /\ pc[p] = "bget" /\ panicked = ""
        /\ UNCHANGED <<blockno, data, busy, valid, dirty, lru, idequeue, disk>>
        /\ UNCHANGED <<want, kept, pins, panicked>>
    BY Zenon DEF BgetSleep, At, buffers
  <1>3. pc'[p] = "bget_sleep" /\ bp'[p] = b /\ b \in Buf /\ blockno[b] = want[p]
    BY <1>1, Zenon DEF TypeOK, Caching
  <1>4. Alone(p)  BY <1>1, <1>2, Zenon DEF Alone, TypeOK
  <1>5. want[p] \in Block  BY <1>2, Zenon DEF LocalInv
  <1>6. Held(p)' = Held(p)  BY <1>2, <1>3, Zenon DEF Held
  <1>7. b \notin Held(p)  BY <1>2, <1>3, Zenon DEF Held, LocalInv
  <1>8. \E q \in Proc \ {p} : b \in Held(q)  BY <1>1, <1>3, <1>7, Zenon DEF OwnInv
  <1>9. kept'[p] # NoBuf => blockno[kept'[p]] # want'[p] /\ kept'[p] \in valid
    BY <1>2, Zenon DEF LocalInv
  <1>10. LocalInv' /\ OwnInv' /\ SleepersHaveReason' /\ PanicsOnlyWhenFull'
    <2>1. pc'[p] \notin Holding  BY <1>3, Zenon DEF Holding
    <2> HIDE DEF IInv
    <2> QED  BY <1>2, <1>3, <1>4, <1>5, <1>6, <1>8, <1>9, <2>1, HoldStep, Zenon
  <1>11. TypeOK'
    <2>1. BufTypes /\ ProcTypes  BY TypeSplit, Zenon
    <2>2. BufTypes'  BY <1>1, <1>2, <1>3, <2>1, Zenon DEF BufTypes
    <2>3. ProcTypes'  BY <1>1, <1>2, <1>3, <2>1, Zenon DEF ProcTypes, Holding
    <2>4. TypeOK' <=> BufTypes' /\ ProcTypes'  BY TypeSplit, PTL
    <2> QED  BY <2>2, <2>3, <2>4, Zenon
  <1>12. CacheInv' /\ IoInv'
    <2> HIDE DEF IInv
    <2>1. CacheInv'  BY <1>2, <1>4, CacheStep, Zenon
    <2>2. IoInv'  BY <1>2, <1>3, <1>4, IoStep, Zenon
    <2> QED  BY <2>1, <2>2, Zenon
  <1>13. DataInv => DataInv'  BY <1>2, <1>4, DataStep, Zenon
  <1> QED  BY <1>10, <1>11, <1>12, <1>13, <1>4, <1>6, HeldAlone, Zenon

LEMMA ModifyInv ==
    ASSUME BioAssumption, IInv, NEW p \in Proc, Modify(p)
    PROVE  IInv' /\ (DataInv => DataInv') /\ NowHolds(p, Held(p))
  <1> USE DEF IInv
  <1>1. PICK v \in Value : data' = [data EXCEPT ![bp[p]] = v]  BY Zenon DEF Modify
  <1>2. /\ pc[p] = "have" /\ panicked = "" /\ pc' = [pc EXCEPT ![p] = "modified"]
        /\ UNCHANGED <<blockno, busy, valid, dirty, lru, idequeue, disk>>
        /\ UNCHANGED <<want, bp, kept, pins, panicked>>
    BY Zenon DEF Modify, At, Goto
  <1>3. pc'[p] = "modified"  BY <1>2, Zenon DEF TypeOK
  <1>4. Alone(p)  BY <1>2, Zenon DEF Alone, TypeOK
  <1>5. bp[p] \in Buf /\ blockno[bp[p]] = want[p] /\ bp[p] \in valid /\ want[p] \in Block
    BY <1>2, Zenon DEF LocalInv, IoInv, Holding
  <1>6. Held(p)' = Held(p)  BY <1>2, <1>3, Zenon DEF Held
  <1>7. kept'[p] # NoBuf => blockno[kept'[p]] # want'[p] /\ kept'[p] \in valid
    BY <1>2, Zenon DEF LocalInv
  <1>8. LocalInv' /\ OwnInv' /\ SleepersHaveReason' /\ PanicsOnlyWhenFull'
    <2> HIDE DEF IInv
    <2> QED  BY <1>2, <1>3, <1>4, <1>5, <1>6, <1>7, HoldStep, Zenon
  <1>9. TypeOK'
    <2>1. BufTypes /\ ProcTypes  BY TypeSplit
    <2>2. BufTypes'  BY <1>1, <1>2, <2>1, Zenon DEF BufTypes
    <2>3. ProcTypes'  BY <1>1, <1>2, <2>1, Zenon DEF ProcTypes, Holding
    <2>4. TypeOK' <=> BufTypes' /\ ProcTypes'  BY TypeSplit, PTL
    <2> QED  BY <2>2, <2>3, <2>4
  <1>10. CacheInv' /\ IoInv'
    <2> HIDE DEF IInv
    <2>1. CacheInv'  BY <1>2, <1>4, CacheStep, Zenon
    <2>2. IoInv'  BY <1>2, <1>3, <1>4, <1>5, IoStep, Zenon
    <2> QED  BY <2>1, <2>2
  <1>11. \A b \in valid \ {bp[p]} : data'[b] = data[b]  BY <1>1, Zenon DEF TypeOK
  <1>12. DataInv => DataInv'  BY <1>2, <1>3, <1>4, <1>11, DataStep, Zenon
  <1> QED  BY <1>8, <1>9, <1>10, <1>12, <1>4, <1>6, HeldAlone

LEMMA bwriteInv ==
    ASSUME BioAssumption, IInv, NEW p \in Proc, bwrite(p)
    PROVE  IInv' /\ (DataInv => DataInv') /\ NowHolds(p, Held(p))
  <1> USE DEF IInv
  <1>0. pc[p] \in {"have", "modified"} /\ panicked = "" /\ bp[p] \in busy
    <2>1. pc[p] \in {"have", "modified"} /\ panicked = ""  BY Zenon DEF bwrite, At
    <2>2. bp[p] \in Buf /\ bp[p] \in Held(p)  BY <2>1, Zenon DEF LocalInv, Held, Holding
    <2> QED  BY <2>1, <2>2, Zenon DEF OwnInv
  <1>1. /\ pc[p] \in {"have", "modified"} /\ panicked = "" /\ pc' = [pc EXCEPT ![p] = "iderw"]
        /\ dirty' = dirty \cup {bp[p]}
        /\ UNCHANGED <<blockno, data, busy, valid, lru, idequeue, disk>>
        /\ UNCHANGED <<want, bp, kept, pins, panicked>>
    BY <1>0, Zenon DEF bwrite, Goto
  <1>2. pc'[p] = "iderw"  BY <1>1, Zenon DEF TypeOK
  <1>3. Alone(p)  BY <1>1, Zenon DEF Alone, TypeOK
  <1>4. bp[p] \in Buf /\ blockno[bp[p]] = want[p] /\ bp[p] \in valid /\ want[p] \in Block
    BY <1>1, Zenon DEF LocalInv, IoInv, Holding
  <1>5. Held(p)' = Held(p)  BY <1>1, <1>2, Zenon DEF Held
  <1>6. kept'[p] # NoBuf => blockno[kept'[p]] # want'[p] /\ kept'[p] \in valid
    BY <1>1, Zenon DEF LocalInv
  <1>7. LocalInv' /\ OwnInv' /\ SleepersHaveReason' /\ PanicsOnlyWhenFull'
    <2> HIDE DEF IInv
    <2> QED  BY <1>1, <1>2, <1>3, <1>4, <1>5, <1>6, HoldStep, Zenon
  <1>8. TypeOK'
    <2>1. BufTypes /\ ProcTypes  BY TypeSplit, Zenon
    <2>2. BufTypes'  BY <1>1, <1>4, <2>1, Zenon DEF BufTypes
    <2>3. ProcTypes'  BY <1>1, <1>4, <2>1, Zenon DEF ProcTypes, Holding
    <2>4. TypeOK' <=> BufTypes' /\ ProcTypes'  BY TypeSplit, PTL
    <2> QED  BY <2>2, <2>3, <2>4, Zenon
  <1>9. CacheInv' /\ IoInv'
    <2> HIDE DEF IInv
    <2>1. CacheInv'  BY <1>1, <1>2, <1>3, <1>4, CacheStep, Zenon
    <2>2. pc[p] \in Holding  BY <1>1, Zenon DEF Holding
    <2>3. IoInv'  BY <1>1, <1>2, <1>3, <2>2, IoStep, Zenon
    <2> QED  BY <2>1, <2>3, Zenon
  <1>10. DataInv => DataInv'  BY <1>1, <1>3, DataStep, Zenon
  <1> QED  BY <1>7, <1>8, <1>9, <1>10, <1>3, <1>5, HeldAlone, Zenon

LEMMA log_writeInv ==
    ASSUME BioAssumption, IInv, NEW p \in Proc, log_write(p)
    PROVE  IInv' /\ (DataInv => DataInv') /\ NowHolds(p, Held(p))
  <1> USE DEF IInv
  <1>1. /\ pc[p] = "modified" /\ panicked = "" /\ pc' = [pc EXCEPT ![p] = "have"]
        /\ dirty' = dirty \cup {bp[p]} /\ pins' = pins \cup {want[p]}
        /\ UNCHANGED <<blockno, data, busy, valid, lru, idequeue, disk>>
        /\ UNCHANGED <<want, bp, kept, panicked>>
    BY Zenon DEF log_write, At, Goto
  <1>2. pc'[p] = "have"  BY <1>1, Zenon DEF TypeOK
  <1>3. Alone(p)  BY <1>1, Zenon DEF Alone, TypeOK
  <1>4. bp[p] \in Buf /\ blockno[bp[p]] = want[p] /\ bp[p] \in valid /\ want[p] \in Block
    BY <1>1, Zenon DEF LocalInv, IoInv, Holding
  <1>5. Held(p)' = Held(p)  BY <1>1, <1>2, Zenon DEF Held
  <1>6. kept'[p] # NoBuf => blockno[kept'[p]] # want'[p] /\ kept'[p] \in valid
    BY <1>1, Zenon DEF LocalInv
  <1>7. LocalInv' /\ OwnInv' /\ SleepersHaveReason' /\ PanicsOnlyWhenFull'
    <2> HIDE DEF IInv
    <2> QED  BY <1>1, <1>2, <1>3, <1>4, <1>5, <1>6, HoldStep, Zenon
  <1>8. TypeOK'
    <2>1. BufTypes /\ ProcTypes  BY TypeSplit
    <2>2. BufTypes'  BY <1>1, <1>4, <2>1, Zenon DEF BufTypes
    <2>3. ProcTypes'  BY <1>1, <1>4, <2>1, Zenon DEF ProcTypes, Holding
    <2>4. TypeOK' <=> BufTypes' /\ ProcTypes'  BY TypeSplit, PTL
    <2> QED  BY <2>2, <2>3, <2>4
  <1>9. CacheInv' /\ IoInv'
    <2> HIDE DEF IInv
    <2>1. CacheInv'  BY <1>1, <1>2, <1>3, <1>4, CacheStep, Zenon
    <2>2. pc[p] \in Holding  BY <1>1, Zenon DEF Holding
    <2>3. IoInv'  BY <1>1, <1>2, <1>3, <1>4, <2>2, IoStep, Zenon
    <2> QED  BY <2>1, <2>3
  <1>10. DataInv => DataInv'  BY <1>1, <1>3, DataStep, Zenon
  <1> QED  BY <1>7, <1>8, <1>9, <1>10, <1>3, <1>5, HeldAlone

(* The second test of the flags in iderw() always ends the loop.           *)
LEMMA IderwCheckInv ==
    ASSUME BioAssumption, IInv, NEW p \in Proc, IderwCheck(p)
    PROVE  IInv' /\ (DataInv => DataInv') /\ NowHolds(p, Held(p))
  <1> USE DEF IInv
  <1>1. /\ pc[p] = "io_check" /\ panicked = ""
        /\ pc' = [pc EXCEPT ![p] = IF bp[p] \in valid \ dirty THEN "have" ELSE "io"]
        /\ UNCHANGED <<blockno, data, busy, valid, dirty, lru, idequeue, disk>>
        /\ UNCHANGED <<want, bp, kept, pins, panicked>>
    BY Zenon DEF IderwCheck, At, Goto, buffers
  <1>2. /\ bp[p] \in Buf /\ blockno[bp[p]] = want[p] /\ want[p] \in Block
        /\ bp[p] \in valid \ dirty
    BY <1>1, Zenon DEF LocalInv, IoInv, Holding
  <1>3. pc' = [pc EXCEPT ![p] = "have"] /\ pc'[p] = "have"  BY <1>1, <1>2, Zenon DEF TypeOK
  <1>4. Alone(p)  BY <1>1, <1>3, Zenon DEF Alone, TypeOK
  <1>5. Held(p)' = Held(p)  BY <1>1, <1>3, Zenon DEF Held
  <1>6. kept'[p] # NoBuf => blockno[kept'[p]] # want'[p] /\ kept'[p] \in valid
    BY <1>1, Zenon DEF LocalInv
  <1>7. LocalInv' /\ OwnInv' /\ SleepersHaveReason' /\ PanicsOnlyWhenFull'
    <2> HIDE DEF IInv
    <2> QED  BY <1>1, <1>2, <1>3, <1>4, <1>5, <1>6, HoldStep, Zenon
  <1>8. TypeOK'
    <2>1. BufTypes /\ ProcTypes  BY TypeSplit
    <2>2. BufTypes'
      <3>1. /\ UNCHANGED <<blockno, data, busy, valid, dirty, lru, idequeue, disk>>
            /\ UNCHANGED <<pins, panicked>>
        BY <1>1, Zenon
      <3> QED  BY <2>1, <3>1, Zenon DEF BufTypes
    <2>3. ProcTypes'  BY <1>1, <1>3, <2>1, Zenon DEF ProcTypes, Holding
    <2>4. TypeOK' <=> BufTypes' /\ ProcTypes'  BY TypeSplit, PTL
    <2> QED  BY <2>2, <2>3, <2>4
  <1>9. CacheInv' /\ IoInv'
    <2> HIDE DEF IInv
    <2>1. CacheInv'  BY <1>1, <1>4, CacheStep, Zenon
    <2>2. IoInv'  BY <1>1, <1>2, <1>3, <1>4, IoStep, Zenon
    <2> QED  BY <2>1, <2>2
  <1>10. DataInv => DataInv'  BY <1>1, <1>4, DataStep, Zenon
  <1> QED  BY <1>7, <1>8, <1>9, <1>10, <1>4, <1>5, HeldAlone

LEMMA BgetHitInv ==
    ASSUME BioAssumption, IInv, NEW p \in Proc, BgetHit(p)
    PROVE  IInv' /\ (DataInv => DataInv') /\ NowHolds(p, Held(p) \cup {bp'[p]})
  <1> USE DEF IInv
  <1>1. PICK b \in Caching(want[p]) \ busy :
          /\ busy' = busy \cup {b} /\ bp' = [bp EXCEPT ![p] = b]
          /\ pc' = [pc EXCEPT ![p] = IF b \in valid THEN "have" ELSE "iderw"]
    BY Zenon DEF BgetHit, Goto
  <1>2. /\ pc[p] = "bget" /\ panicked = ""
        /\ UNCHANGED <<blockno, data, valid, dirty, lru, idequeue, disk>>
        /\ UNCHANGED <<want, kept, pins, panicked>>
    BY Zenon DEF BgetHit, At
  <1>3. /\ b \in Buf /\ b \notin busy /\ blockno[b] = want[p] /\ want[p] \in Block
    BY <1>1, <1>2, Zenon DEF Caching, LocalInv
  <1>4. /\ bp'[p] = b /\ (b \in valid => pc'[p] = "have") /\ (b \notin valid => pc'[p] = "iderw")
    BY <1>1, Zenon DEF TypeOK
  <1>5. Alone(p)  BY <1>1, <1>2, Zenon DEF Alone, TypeOK
  <1>6. Held(p)' = Held(p) \cup {b} /\ \A q \in Proc \ {p} : Held(q)' = Held(q)
    <2>1. Held(p)' = Held(p) \cup {b}  BY <1>2, <1>4, Zenon DEF Held
    <2>2. ASSUME NEW q \in Proc \ {p} PROVE Held(q)' = Held(q)
      <3>1. pc'[q] = pc[q] /\ bp'[q] = bp[q] /\ kept'[q] = kept[q]  BY <1>5, Zenon DEF Alone
      <3> QED  BY <3>1, HeldSame, Zenon
    <2> QED  BY <2>1, <2>2, Zenon
  <1>7. OwnInv'  BY <1>1, <1>3, <1>6, OwnMore, Zenon
  <1>8. LocalInv'
    <2> SUFFICES ASSUME NEW q \in Proc PROVE
          /\ pc'[q] = "idle" => kept'[q] = NoBuf
          /\ pc'[q] # "idle" => want'[q] \in Block
          /\ pc'[q] \in Holding => bp'[q] \in Buf /\ blockno'[bp'[q]] = want'[q]
          /\ pc'[q] = "bget_sleep" => bp'[q] \in Buf
          /\ kept'[q] # NoBuf => blockno'[kept'[q]] # want'[q] /\ kept'[q] \in valid'
      BY Zenon DEF LocalInv
    <2>1. CASE q = p  BY <1>2, <1>3, <1>4, <2>1, Zenon DEF LocalInv
    <2>2. CASE q # p
      <3>1. pc'[q] = pc[q] /\ bp'[q] = bp[q] /\ kept'[q] = kept[q] /\ want'[q] = want[q]
        BY <1>5, <2>2, Zenon DEF Alone
      <3> QED  BY <1>2, <3>1, Zenon DEF LocalInv
    <2> QED  BY <2>1, <2>2, Zenon
  <1>9. SleepersHaveReason'
    <2>1. \A q \in Proc : pc'[q] = "bget_sleep" => pc[q] = "bget_sleep" /\ bp'[q] = bp[q]
      BY <1>4, <1>5, Zenon DEF Alone
    <2> QED  BY <1>6, <2>1 DEF SleepersHaveReason
  <1>10. PanicsOnlyWhenFull'  BY <1>2, Zenon DEF PanicsOnlyWhenFull
  <1>11. TypeOK'
    <2>1. BufTypes /\ ProcTypes  BY TypeSplit, Zenon
    <2>2. BufTypes'  BY <1>1, <1>2, <1>3, <2>1, Zenon DEF BufTypes
    <2>3. ProcTypes'  BY <1>1, <1>2, <1>3, <2>1, Zenon DEF ProcTypes, Holding
    <2>4. TypeOK' <=> BufTypes' /\ ProcTypes'  BY TypeSplit, PTL
    <2> QED  BY <2>2, <2>3, <2>4, Zenon
  <1>12. CacheInv' /\ IoInv'
    <2> HIDE DEF IInv
    <2>1. CacheInv'  BY <1>2, <1>5, CacheStep, Zenon
    <2>2. IoInv'  BY <1>2, <1>4, <1>5, IoStep, Zenon
    <2> QED  BY <2>1, <2>2, Zenon
  <1>13. DataInv => DataInv'  BY <1>2, <1>5, DataStep, Zenon
  <1> QED  BY <1>7, <1>8, <1>9, <1>10, <1>11, <1>12, <1>13, <1>4, <1>6, Zenon
          DEF NowHolds

LEMMA BgetRecycleInv ==
    ASSUME BioAssumption, IInv, NEW p \in Proc, BgetRecycle(p)
    PROVE  IInv' /\ (DataInv => DataInv') /\ NowHolds(p, Held(p) \cup {bp'[p]})
  <1> USE DEF IInv
  <1>1. PICK b \in Victims :
          /\ blockno' = [blockno EXCEPT ![b] = want[p]]
          /\ busy' = busy \cup {b} /\ valid' = valid \ {b} /\ dirty' = dirty \ {b}
          /\ bp' = [bp EXCEPT ![p] = b]
    BY Zenon DEF BgetRecycle
  <1>2. /\ pc[p] = "bget" /\ panicked = "" /\ pc' = [pc EXCEPT ![p] = "iderw"]
        /\ Caching(want[p]) = {}
        /\ UNCHANGED <<data, lru, idequeue, disk, want, kept, pins, panicked>>
    BY Zenon DEF BgetRecycle, At, Goto
  <1>3. /\ b \in Buf /\ b \notin busy /\ b \notin dirty /\ want[p] \in Block
        /\ \A c \in Buf : blockno[c] # want[p]
    BY <1>1, <1>2, Zenon DEF Caching, Victims, Clean, LocalInv
  <1>4. bp'[p] = b /\ pc'[p] = "iderw" /\ dirty' = dirty  BY <1>1, <1>2, <1>3, Zenon DEF TypeOK
  <1>5. Alone(p)  BY <1>1, <1>2, Zenon DEF Alone, TypeOK
  <1>6. /\ \A q \in Proc : b \notin Held(q)
        /\ \A c \in Buf \ {b} : blockno'[c] = blockno[c]
        /\ blockno'[b] = want[p]
    BY <1>1, <1>3, Zenon DEF OwnInv, TypeOK
  <1>7. Held(p)' = Held(p) \cup {b} /\ \A q \in Proc \ {p} : Held(q)' = Held(q)
    <2>1. Held(p)' = Held(p) \cup {b}  BY <1>2, <1>4, Zenon DEF Held
    <2>2. ASSUME NEW q \in Proc \ {p} PROVE Held(q)' = Held(q)
      <3>1. pc'[q] = pc[q] /\ bp'[q] = bp[q] /\ kept'[q] = kept[q]  BY <1>5, Zenon DEF Alone
      <3> QED  BY <3>1, HeldSame, Zenon
    <2> QED  BY <2>1, <2>2, Zenon
  <1>8. OwnInv'  BY <1>1, <1>3, <1>7, OwnMore, Zenon
  <1>9. \A q \in Proc : kept[q] # b /\ (pc[q] \in Holding => bp[q] # b)
    <2> SUFFICES ASSUME NEW q \in Proc PROVE kept[q] # b /\ (pc[q] \in Holding => bp[q] # b)
      BY Zenon
    <2>1. b # NoBuf  BY <1>3, Zenon DEF BioAssumption
    <2> QED  BY <1>6, <2>1, Zenon DEF Held, Holding
  <1>10. LocalInv'
    <2> SUFFICES ASSUME NEW q \in Proc PROVE
          /\ pc'[q] = "idle" => kept'[q] = NoBuf
          /\ pc'[q] # "idle" => want'[q] \in Block
          /\ pc'[q] \in Holding => bp'[q] \in Buf /\ blockno'[bp'[q]] = want'[q]
          /\ pc'[q] = "bget_sleep" => bp'[q] \in Buf
          /\ kept'[q] # NoBuf => blockno'[kept'[q]] # want'[q] /\ kept'[q] \in valid'
      BY Zenon DEF LocalInv
    <2>1. kept[q] \in Buf \cup {NoBuf}  BY Zenon DEF TypeOK
    <2>2. kept'[q] # NoBuf => blockno'[kept'[q]] # want'[q] /\ kept'[q] \in valid'
      <3>1. kept'[q] = kept[q] /\ want'[q] = want[q] /\ kept[q] # b  BY <1>2, <1>9, Zenon
      <3>2. kept[q] # NoBuf => blockno[kept[q]] # want[q] /\ kept[q] \in valid  BY Zenon DEF LocalInv
      <3> QED  BY <1>1, <1>6, <2>1, <3>1, <3>2, Zenon
    <2>3. CASE q = p  BY <1>2, <1>3, <1>4, <1>6, <2>2, <2>3, Zenon
    <2>4. CASE q # p
      <3>1. pc'[q] = pc[q] /\ bp'[q] = bp[q] /\ kept'[q] = kept[q] /\ want'[q] = want[q]
        BY <1>5, <2>4, Zenon DEF Alone
      <3>2. pc[q] \in Holding => bp[q] \in Buf \ {b} /\ blockno[bp[q]] = want[q]
        BY <1>9, Zenon DEF LocalInv
      <3>3. pc'[q] \in Holding => bp'[q] \in Buf /\ blockno'[bp'[q]] = want'[q]
        BY <1>6, <3>1, <3>2, Zenon
      <3> QED  BY <2>2, <3>1, <3>3, Zenon DEF LocalInv
    <2> QED  BY <2>3, <2>4, Zenon
  <1>11. SleepersHaveReason'
    <2>1. \A q \in Proc : pc'[q] = "bget_sleep" => pc[q] = "bget_sleep" /\ bp'[q] = bp[q]
      BY <1>4, <1>5, Zenon DEF Alone
    <2> QED  BY <1>7, <2>1 DEF SleepersHaveReason
  <1>12. PanicsOnlyWhenFull'  BY <1>2, Zenon DEF PanicsOnlyWhenFull
  <1>13. TypeOK'
    <2>1. BufTypes /\ ProcTypes  BY TypeSplit, Zenon
    <2>2. BufTypes'  BY <1>1, <1>2, <1>3, <2>1, Zenon DEF BufTypes
    <2>3. ProcTypes'  BY <1>1, <1>2, <1>3, <2>1, Zenon DEF ProcTypes, Holding
    <2>4. TypeOK' <=> BufTypes' /\ ProcTypes'  BY TypeSplit, PTL
    <2> QED  BY <2>2, <2>3, <2>4, Zenon
  <1>14. CacheInv'
    <2>1. \A c, d \in Buf : blockno'[c] = blockno'[d] /\ blockno'[c] # NoBlock => c = d
      BY <1>3, <1>6 DEF CacheInv
    <2>2. \A c \in valid' : blockno'[c] \in Block  BY <1>1, <1>6, Zenon DEF CacheInv, TypeOK
    <2>3. dirty' \subseteq valid'  BY <1>1, <1>3, <1>4, Zenon DEF CacheInv
    <2>4. ASSUME NEW c \in dirty'
          PROVE  blockno'[c] \in pins' \/ \E q \in Proc : pc'[q] \in {"iderw", "io"} /\ bp'[q] = c
      <3>1. c \in dirty /\ blockno'[c] = blockno[c]  BY <1>3, <1>4, <1>6, Zenon DEF TypeOK
      <3>2. CASE blockno[c] \in pins  BY <1>2, <3>1, <3>2, Zenon
      <3>3. ASSUME NEW q \in Proc, pc[q] \in {"iderw", "io"}, bp[q] = c
            PROVE  pc'[q] \in {"iderw", "io"} /\ bp'[q] = c
        BY <1>2, <1>5, <3>3, Zenon DEF Alone
      <3> QED  BY <3>1, <3>2, <3>3, Zenon DEF CacheInv
    <2> QED  BY <2>1, <2>2, <2>3, <2>4, Zenon DEF CacheInv
  <1>15. IoInv'
    <2>1. ASSUME NEW q \in Proc PROVE
            /\ pc'[q] \in {"iderw", "io"} => bp'[q] \notin valid' \ dirty'
            /\ pc'[q] = "io_check" => bp'[q] \in valid' \ dirty'
            /\ pc'[q] \in {"have", "modified"} => bp'[q] \in valid'
      <3>1. CASE q = p  BY <1>1, <1>4, <3>1
      <3>2. CASE q # p
        <4>1. pc'[q] = pc[q] /\ bp'[q] = bp[q]  BY <1>5, <3>2, Zenon DEF Alone
        <4> QED  BY <1>1, <1>4, <1>9, <4>1 DEF IoInv, Holding
      <3> QED  BY <3>1, <3>2, Zenon
    <2>2. \A q \in Proc : /\ pc'[q] = "io" <=> pc[q] = "io"
                          /\ pc[q] = "io" => bp'[q] = bp[q]
      BY <1>2, <1>4, <1>5, Zenon DEF Alone
    <2>3. QueueSound'
      <3>1. QueueSound /\ idequeue' = idequeue  BY <1>2, Zenon DEF IoInv
      <3> QED  BY <2>2, <3>1 DEF QueueSound
    <2> QED  BY <2>1, <2>3, Zenon DEF IoInv
  <1>16. ASSUME DataInv PROVE DataInv'
    <2> SUFFICES ASSUME NEW c \in valid' \ dirty'
                 PROVE  \/ data'[c] = disk'[blockno'[c]]
                        \/ \E q \in Proc : pc'[q] = "modified" /\ bp'[q] = c
      BY Zenon DEF DataInv
    <2>1. c \in valid \ dirty /\ blockno'[c] = blockno[c]  BY <1>1, <1>4, <1>6, Zenon DEF TypeOK
    <2>2. data[c] = disk[blockno[c]] \/ \E q \in Proc : pc[q] = "modified" /\ bp[q] = c
      BY <1>16, <2>1, Zenon DEF DataInv
    <2>3. \A q \in Proc : pc[q] = "modified" => pc'[q] = pc[q] /\ bp'[q] = bp[q]
      BY <1>2, <1>5, Zenon DEF Alone
    <2> QED  BY <1>2, <2>1, <2>2, <2>3, Zenon
  <1> QED  BY <1>8, <1>10, <1>11, <1>12, <1>13, <1>14, <1>15, <1>16, <1>4, <1>7, Zenon
          DEF NowHolds

(* bget() panics only when the search of the whole list finds no buffer.   *)
LEMMA BgetPanicInv ==
    ASSUME BioAssumption, IInv, NEW p \in Proc, BgetPanic(p)
    PROVE  IInv' /\ (DataInv => DataInv')
  <1> USE DEF IInv
  <1>1. /\ \A k \in DOMAIN lru : ~Clean(lru[k])
        /\ panicked' = "bget: no buffers"
        /\ UNCHANGED <<blockno, data, busy, valid, dirty, lru, idequeue, disk>>
        /\ UNCHANGED <<pc, want, bp, kept, pins>>
    BY Zenon DEF BgetPanic, buffers
  <1>2. \A q \in Proc : Held(q)' = Held(q)  BY <1>1, Zenon DEF Held
  <1>3. ASSUME NEW b \in Buf PROVE blockno[b] \in pins \/ \E q \in Proc : b \in Held(q)
    <2>1. b \in busy \/ b \in dirty
      <3>1. \E k \in DOMAIN lru : lru[k] = b  BY Zenon DEF TypeOK, Orders
      <3> QED  BY <1>1, <3>1, Zenon DEF Clean
    <2>2. \A q \in Proc : pc[q] \in {"iderw", "io"} => bp[q] \in Held(q)  BY Zenon DEF Held
    <2> QED  BY <2>1, <2>2 DEF OwnInv, CacheInv
  <1>4. PanicsOnlyWhenFull'  BY <1>1, <1>2, <1>3, Zenon DEF PanicsOnlyWhenFull
  <1>5. TypeOK'
    <2>1. BufTypes /\ ProcTypes  BY TypeSplit
    <2>2. BufTypes' /\ ProcTypes'  BY <1>1, <2>1, Zenon DEF BufTypes, ProcTypes
    <2>3. TypeOK' <=> BufTypes' /\ ProcTypes'  BY TypeSplit, PTL
    <2> QED  BY <2>2, <2>3, Zenon
  <1>6. LocalInv'  BY <1>1, Zenon DEF LocalInv
  <1>7. OwnInv' /\ SleepersHaveReason'
    <2>1. OwnInv'  BY <1>1, <1>2, OwnSame, Zenon
    <2>2. pc' = pc /\ bp' = bp  BY <1>1, Zenon
    <2>3. SleepersHaveReason'  BY <1>2, <2>2, Zenon DEF SleepersHaveReason
    <2> QED  BY <2>1, <2>3, Zenon
  <1>8. CacheInv' /\ IoInv'  BY <1>1 DEF CacheInv, IoInv, QueueSound
  <1>9. DataInv => DataInv'  BY <1>1, Zenon DEF DataInv
  <1> QED  BY <1>4, <1>5, <1>6, <1>7, <1>8, <1>9, Zenon

(* iderw() panics for no caller: bread() and bwrite() pass a buffer that   *)
(* they hold, and that has no data yet or has been marked dirty.           *)
LEMMA iderwInv ==
    ASSUME BioAssumption, IInv, NEW p \in Proc, iderw(p)
    PROVE  IInv' /\ (DataInv => DataInv') /\ NowHolds(p, Held(p))
  <1> USE DEF IInv
  <1>1. pc[p] = "iderw" /\ panicked = ""  BY Zenon DEF iderw, At
  <1>2. /\ bp[p] \in Buf /\ blockno[bp[p]] = want[p] /\ want[p] \in Block
        /\ bp[p] \notin valid \ dirty /\ bp[p] \in Held(p)
    BY <1>1, Zenon DEF LocalInv, IoInv, Holding, Held
  <1>3. bp[p] \in busy  BY <1>2, Zenon DEF OwnInv
  <1>4. /\ idequeue' = Append(idequeue, bp[p]) /\ pc' = [pc EXCEPT ![p] = "io"]
        /\ UNCHANGED <<blockno, data, busy, valid, dirty, lru, disk>>
        /\ UNCHANGED <<want, bp, kept, pins, panicked>>
    BY <1>2, <1>3, Zenon DEF iderw, Goto, buffers
  <1>5. pc'[p] = "io"  BY <1>4, Zenon DEF TypeOK
  <1>6. Alone(p)  BY <1>4, Zenon DEF Alone, TypeOK
  <1>7. Held(p)' = Held(p)  BY <1>1, <1>4, <1>5, Zenon DEF Held
  <1>8. kept'[p] # NoBuf => blockno[kept'[p]] # want'[p] /\ kept'[p] \in valid
    BY <1>4, Zenon DEF LocalInv
  <1>9. LocalInv' /\ OwnInv' /\ SleepersHaveReason' /\ PanicsOnlyWhenFull'
    <2> HIDE DEF IInv
    <2> QED  BY <1>1, <1>2, <1>4, <1>5, <1>6, <1>7, <1>8, HoldStep, Zenon
  <1>10. TypeOK'
    <2>1. BufTypes /\ ProcTypes  BY TypeSplit
    <2>2. BufTypes'
      <3>1. idequeue' \in Seq(Buf)
        <4>1. idequeue \in Seq(Buf)  BY <2>1, Zenon DEF BufTypes
        <4> QED  BY <1>2, <1>4, <4>1, AppendFacts, Zenon
      <3> QED  BY <1>4, <2>1, <3>1, Zenon DEF BufTypes
    <2>3. ProcTypes'  BY <1>4, <2>1, Zenon DEF ProcTypes, Holding
    <2>4. TypeOK' <=> BufTypes' /\ ProcTypes'  BY TypeSplit, PTL
    <2> QED  BY <2>2, <2>3, <2>4
  <1>11. CacheInv'
    <2> HIDE DEF IInv
    <2> QED  BY <1>4, <1>5, <1>6, CacheStep, Zenon
  <1>12. IoInv'
    <2>1. ASSUME NEW q \in Proc PROVE
            /\ pc'[q] \in {"iderw", "io"} => bp'[q] \notin valid' \ dirty'
            /\ pc'[q] = "io_check" => bp'[q] \in valid' \ dirty'
            /\ pc'[q] \in {"have", "modified"} => bp'[q] \in valid'
      <3>1. CASE q = p  BY <1>2, <1>4, <1>5, <3>1, Zenon
      <3>2. CASE q # p
        <4>1. pc'[q] = pc[q] /\ bp'[q] = bp[q]  BY <1>6, <3>2, Zenon DEF Alone
        <4> QED  BY <1>4, <4>1, Zenon DEF IoInv
      <3> QED  BY <3>1, <3>2, Zenon
    <2>2. QueueSound'
      <3> DEFINE n == Len(idequeue)
      <3>1. /\ idequeue \in Seq(Buf) /\ n \in Nat /\ DOMAIN idequeue = 1 .. n
            /\ DOMAIN idequeue' = 1 .. n + 1 /\ idequeue'[n + 1] = bp[p]
            /\ \A k \in 1 .. n : idequeue'[k] = idequeue[k]
        <4>1. idequeue \in Seq(Buf)  BY Zenon DEF TypeOK
        <4>2. n \in Nat /\ DOMAIN idequeue = 1 .. n  BY <4>1
        <4>3. /\ Append(idequeue, bp[p]) \in Seq(Buf)
              /\ Len(Append(idequeue, bp[p])) = n + 1
              /\ \A k \in 1 .. n : Append(idequeue, bp[p])[k] = idequeue[k]
              /\ Append(idequeue, bp[p])[n + 1] = bp[p]
          BY <1>2, <4>1, AppendFacts
        <4>4. DOMAIN Append(idequeue, bp[p]) = 1 .. n + 1  BY <4>3
        <4> QED  BY <1>4, <4>1, <4>2, <4>3, <4>4, Zenon
      <3> HIDE DEF n
      <3>2. QueueSound  BY Zenon DEF IoInv
      <3>3. \A q \in Proc \ {p} : pc'[q] = pc[q] /\ bp'[q] = bp[q]  BY <1>6, Zenon DEF Alone
      <3>4. \A k \in 1 .. n : idequeue[k] # bp[p]
        <4> SUFFICES ASSUME NEW k \in 1 .. n, idequeue[k] = bp[p] PROVE FALSE  BY Zenon
        <4>1. PICK q \in Proc : pc[q] = "io" /\ bp[q] = bp[p]  BY <3>1, <3>2 DEF QueueSound
        <4>2. bp[p] \in Held(q) /\ q # p  BY <1>1, <4>1, Zenon DEF Held
        <4> QED  BY <1>2, <4>2, Zenon DEF OwnInv
      <3>5. \A q \in Proc : pc'[q] = "io" => \E k \in 1 .. n + 1 : idequeue'[k] = bp'[q]
        <4> SUFFICES ASSUME NEW q \in Proc, pc'[q] = "io"
                     PROVE  \E k \in 1 .. n + 1 : idequeue'[k] = bp'[q]
          BY Zenon
        <4>1. CASE q = p
          <5>1. n + 1 \in 1 .. n + 1  BY <3>1
          <5> QED  BY <1>4, <3>1, <4>1, <5>1, Zenon
        <4>2. CASE q # p
          <5>1. PICK k \in 1 .. n : idequeue[k] = bp[q]  BY <3>1, <3>2, <3>3, <4>2, Zenon DEF QueueSound
          <5>2. k \in 1 .. n + 1  BY <3>1
          <5> QED  BY <3>1, <3>3, <4>2, <5>1, <5>2, Zenon
        <4> QED  BY <4>1, <4>2, Zenon
      <3>6. \A k \in 1 .. n + 1 : \E q \in Proc : pc'[q] = "io" /\ bp'[q] = idequeue'[k]
        <4> SUFFICES ASSUME NEW k \in 1 .. n + 1
                     PROVE  \E q \in Proc : pc'[q] = "io" /\ bp'[q] = idequeue'[k]
          BY Zenon
        <4>1. CASE k = n + 1  BY <1>4, <1>5, <3>1, <4>1, Zenon
        <4>2. CASE k # n + 1
          <5>1. k \in 1 .. n  BY <3>1, <4>2
          <5>2. PICK q \in Proc : pc[q] = "io" /\ bp[q] = idequeue[k]
            BY <3>1, <3>2, <5>1, Zenon DEF QueueSound
          <5>3. q # p  BY <1>1, <5>2, Zenon
          <5> QED  BY <3>1, <3>3, <5>1, <5>2, <5>3, Zenon
        <4> QED  BY <4>1, <4>2, Zenon
      <3>7. \A j, k \in 1 .. n + 1 : idequeue'[j] = idequeue'[k] => j = k
        <4> SUFFICES ASSUME NEW j \in 1 .. n + 1, NEW k \in 1 .. n + 1,
                            idequeue'[j] = idequeue'[k]
                     PROVE  j = k
          BY Zenon
        <4>1. (j = n + 1 \/ j \in 1 .. n) /\ (k = n + 1 \/ k \in 1 .. n)  BY <3>1
        <4>2. \A i, l \in 1 .. n : idequeue[i] = idequeue[l] => i = l
          BY <3>1, <3>2, Zenon DEF QueueSound
        <4> QED  BY <3>1, <3>4, <4>1, <4>2, Zenon
      <3> QED  BY <3>1, <3>5, <3>6, <3>7, Zenon DEF QueueSound
    <2> QED  BY <2>1, <2>2, Zenon DEF IoInv
  <1>13. DataInv => DataInv'  BY <1>1, <1>4, <1>6, DataStep, Zenon
  <1> QED  BY <1>9, <1>10, <1>11, <1>12, <1>13, <1>6, <1>7, HeldAlone, Zenon

LEMMA WakeupFacts ==
    ASSUME NEW b, NEW f, NEW q \in Proc
    PROVE  /\ f[q] = "bget_sleep" /\ bp[q] = b => Wakeup(b, f)[q] = "bget"
           /\ f[q] = "io" /\ bp[q] = b => Wakeup(b, f)[q] = "io_check"
           /\ ~(f[q] \in {"bget_sleep", "io"} /\ bp[q] = b) => Wakeup(b, f)[q] = f[q]
  BY Zenon DEF Wakeup

LEMMA WakeupType ==
    ASSUME NEW b, NEW f \in [Proc -> {"idle", "bget", "bget_sleep"} \cup Holding]
    PROVE  Wakeup(b, f) \in [Proc -> {"idle", "bget", "bget_sleep"} \cup Holding]
  <1>1. ASSUME NEW q \in Proc
        PROVE  Wakeup(b, f)[q] \in {"idle", "bget", "bget_sleep"} \cup Holding
    BY WakeupFacts DEF Holding
  <1>2. Wakeup(b, f) = [q \in Proc |-> Wakeup(b, f)[q]]  BY Zenon DEF Wakeup
  <1> QED  BY <1>1, <1>2, Zenon

(* ideintr() serves the request of the one process that waits for it.      *)
LEMMA ideintrInv ==
    ASSUME BioAssumption, IInv, ideintr
    PROVE  /\ IInv' /\ (Outcome = {"ok"} /\ DataInv => DataInv')
           /\ \A q \in Proc : Held(q)' = Held(q)
  <1> USE DEF IInv
  <1> DEFINE b == Head(idequeue)
             n == Len(idequeue)
  <1>1. /\ panicked = "" /\ idequeue # <<>> /\ idequeue' = Tail(idequeue)
        /\ valid' = valid \cup {b} /\ dirty' = dirty \ {b}
        /\ pc' = Wakeup(b, pc) /\ pins' = pins \ {blockno[b]}
        /\ UNCHANGED <<blockno, busy, lru, want, bp, kept, panicked>>
    BY Zenon DEF ideintr, RestOfQueue
  <1>2. \/ b \in dirty /\ disk' = [disk EXCEPT ![blockno[b]] = data[b]] /\ data' = data
        \/ /\ b \notin dirty /\ disk' = disk
           /\ \E r \in Outcome : data' = [data EXCEPT ![b] =
                                   IF r = "ok" THEN disk[blockno[b]] ELSE data[b]]
    BY Zenon DEF ideintr
  <1>3. /\ idequeue \in Seq(Buf) /\ b \in Buf /\ n \in Nat \ {0} /\ DOMAIN idequeue = 1 .. n
        /\ idequeue[1] = b
        /\ idequeue' \in Seq(Buf) /\ DOMAIN idequeue' = 1 .. n - 1
        /\ \A k \in 1 .. n - 1 : idequeue'[k] = idequeue[k + 1]
    <2>1. idequeue \in Seq(Buf)  BY Zenon DEF TypeOK
    <2>2. /\ b \in Buf /\ Tail(idequeue) \in Seq(Buf) /\ Len(Tail(idequeue)) = n - 1
          /\ \A k \in 1 .. Len(Tail(idequeue)) : Tail(idequeue)[k] = idequeue[k + 1]
      BY <1>1, <2>1, TailFacts, Zenon
    <2>3. n \in Nat \ {0} /\ DOMAIN idequeue = 1 .. n /\ idequeue[1] = b
      <3>1. Len(idequeue) # 0  BY <1>1, <2>1, EmptyFacts, Zenon
      <3>2. Len(idequeue) \in Nat /\ DOMAIN idequeue = 1 .. Len(idequeue)  BY <2>1
      <3>3. idequeue[1] = Head(idequeue)  BY <2>1
      <3> QED  BY <3>1, <3>2, <3>3, Zenon
    <2>4. DOMAIN Tail(idequeue) = 1 .. n - 1  BY <2>2
    <2> QED  BY <1>1, <2>1, <2>2, <2>3, <2>4, Zenon
  <1>4. QueueSound  BY Zenon DEF IoInv
  <1>5. PICK p \in Proc : pc[p] = "io" /\ bp[p] = b
    <2>1. 1 \in DOMAIN idequeue  BY <1>3
    <2> QED  BY <1>3, <1>4, <2>1 DEF QueueSound
  <1> HIDE DEF b, n
  <1>6. b \in Held(p) /\ blockno[b] = want[p] /\ want[p] \in Block
    BY <1>5, Zenon DEF Held, LocalInv, Holding
  <1>7. \A q \in Proc \ {p} : pc[q] \in Holding => bp[q] # b
    <2>1. \A q \in Proc : pc[q] \in Holding => bp[q] \in Held(q)  BY Zenon DEF Held, Holding
    <2> QED  BY <1>6, <2>1 DEF OwnInv
  <1>8. pc'[p] = "io_check"  BY <1>1, <1>5, WakeupFacts
  <1>9. ASSUME NEW q \in Proc \ {p}
        PROVE  pc'[q] = pc[q] \/ (pc[q] = "bget_sleep" /\ bp[q] = b /\ pc'[q] = "bget")
    <2>1. pc[q] = "io" => bp[q] # b  BY <1>7, Zenon DEF Holding
    <2>2. /\ pc[q] = "bget_sleep" /\ bp[q] = b => Wakeup(b, pc)[q] = "bget"
          /\ ~(pc[q] \in {"bget_sleep", "io"} /\ bp[q] = b) => Wakeup(b, pc)[q] = pc[q]
      BY WakeupFacts
    <2> QED  BY <1>1, <2>1, <2>2, Zenon
  <1>10. \A q \in Proc : Held(q)' = Held(q)
    <2> SUFFICES ASSUME NEW q \in Proc PROVE Held(q)' = Held(q)  BY Zenon
    <2>1. bp'[q] = bp[q] /\ kept'[q] = kept[q]  BY <1>1, Zenon
    <2>2. pc'[q] \in Holding <=> pc[q] \in Holding  BY <1>5, <1>8, <1>9, Zenon DEF Holding
    <2> QED  BY <2>1, <2>2, HeldSame, Zenon
  <1>11. OwnInv'  BY <1>1, <1>10, OwnSame, Zenon
  <1>12. LocalInv'
    <2> SUFFICES ASSUME NEW q \in Proc PROVE
          /\ pc'[q] = "idle" => kept'[q] = NoBuf
          /\ pc'[q] # "idle" => want'[q] \in Block
          /\ pc'[q] \in Holding => bp'[q] \in Buf /\ blockno'[bp'[q]] = want'[q]
          /\ pc'[q] = "bget_sleep" => bp'[q] \in Buf
          /\ kept'[q] # NoBuf => blockno'[kept'[q]] # want'[q] /\ kept'[q] \in valid'
      BY Zenon DEF LocalInv
    <2>1. /\ pc'[q] = "idle" => pc[q] = "idle"
          /\ pc'[q] # "idle" => pc[q] # "idle"
          /\ pc'[q] \in Holding => pc[q] \in Holding
          /\ pc'[q] = "bget_sleep" => pc[q] = "bget_sleep"
      BY <1>5, <1>8, <1>9, Zenon DEF Holding
    <2>2. bp' = bp /\ kept' = kept /\ want' = want /\ blockno' = blockno /\ valid \subseteq valid'
      BY <1>1, Zenon
    <2> QED  BY <2>1, <2>2, Zenon DEF LocalInv
  <1>13. SleepersHaveReason'
    <2>1. \A q \in Proc : pc'[q] = "bget_sleep" => pc[q] = "bget_sleep" /\ bp'[q] = bp[q]
      BY <1>1, <1>8, <1>9, Zenon
    <2> QED  BY <1>10, <2>1, Zenon DEF SleepersHaveReason
  <1>14. PanicsOnlyWhenFull'  BY <1>1, Zenon DEF PanicsOnlyWhenFull
  <1>15. TypeOK'
    <2>1. BufTypes /\ ProcTypes  BY TypeSplit, Zenon
    <2>2. pc' \in [Proc -> {"idle", "bget", "bget_sleep"} \cup Holding]
      BY <1>1, <2>1, WakeupType, Zenon DEF ProcTypes
    <2>3. ProcTypes'  BY <1>1, <2>1, <2>2, Zenon DEF ProcTypes
    <2>4. disk' \in [Block -> Value] /\ data' \in [Buf -> Value]
      BY <1>2, <1>3, <1>6, <2>1, Zenon DEF BufTypes
    <2>5. BufTypes'  BY <1>1, <1>3, <2>1, <2>4, Zenon DEF BufTypes
    <2>6. TypeOK' <=> BufTypes' /\ ProcTypes'  BY TypeSplit, PTL
    <2> QED  BY <2>3, <2>5, <2>6, Zenon
  <1>16. CacheInv'
    <2>1. \A c \in valid' : blockno'[c] \in Block  BY <1>1, <1>6, Zenon DEF CacheInv
    <2>2. dirty' \subseteq valid'  BY <1>1, Zenon DEF CacheInv
    <2>3. ASSUME NEW c \in dirty'
          PROVE  blockno'[c] \in pins' \/ \E q \in Proc : pc'[q] \in {"iderw", "io"} /\ bp'[q] = c
      <3>1. c \in dirty /\ c # b /\ c \in Buf /\ c \in valid  BY <1>1, Zenon DEF CacheInv, TypeOK
      <3>2. blockno[c] \in Block /\ blockno[c] # NoBlock  BY <3>1, Zenon DEF CacheInv, BioAssumption
      <3>3. blockno[c] # blockno[b]  BY <1>3, <3>1, <3>2, Zenon DEF CacheInv
      <3>4. CASE blockno[c] \in pins  BY <1>1, <3>3, <3>4, Zenon
      <3>5. ASSUME NEW q \in Proc, pc[q] \in {"iderw", "io"}, bp[q] = c
            PROVE  pc'[q] \in {"iderw", "io"} /\ bp'[q] = c
        BY <1>1, <1>5, <1>9, <3>1, <3>5, Zenon
      <3> QED  BY <3>1, <3>4, <3>5, Zenon DEF CacheInv
    <2>4. blockno' = blockno  BY <1>1, Zenon
    <2> QED  BY <2>1, <2>2, <2>3, <2>4, Zenon DEF CacheInv
  <1>17. ASSUME NEW q \in Proc PROVE
           /\ pc'[q] \in {"iderw", "io"} => bp'[q] \notin valid' \ dirty'
           /\ pc'[q] = "io_check" => bp'[q] \in valid' \ dirty'
           /\ pc'[q] \in {"have", "modified"} => bp'[q] \in valid'
    <2>1. CASE q = p  BY <1>1, <1>5, <1>8, <2>1, Zenon
    <2>2. CASE q # p
      <3>1. pc[q] \in Holding => bp[q] # b  BY <1>7, <2>2, Zenon
      <3>2. /\ pc[q] \in {"iderw", "io"} => bp[q] \notin valid \ dirty
            /\ pc[q] = "io_check" => bp[q] \in valid \ dirty
            /\ pc[q] \in {"have", "modified"} => bp[q] \in valid
        BY Zenon DEF IoInv
      <3>3. bp'[q] = bp[q]  BY <1>1, Zenon
      <3> QED  BY <1>1, <1>9, <2>2, <3>1, <3>2, <3>3, Zenon DEF Holding
    <2> QED  BY <2>1, <2>2, Zenon
  <1>18. QueueSound'
    <2>1. \A q \in Proc : pc'[q] = "io" => \E k \in 1 .. n - 1 : idequeue'[k] = bp'[q]
      <3> SUFFICES ASSUME NEW q \in Proc, pc'[q] = "io"
                   PROVE  \E k \in 1 .. n - 1 : idequeue'[k] = bp'[q]
        BY Zenon
      <3>1. q # p /\ pc[q] = "io" /\ bp'[q] = bp[q]  BY <1>1, <1>8, <1>9, Zenon
      <3>2. bp[q] # b  BY <1>7, <3>1, Zenon DEF Holding
      <3>3. PICK k \in 1 .. n : idequeue[k] = bp[q]  BY <1>3, <1>4, <3>1, Zenon DEF QueueSound
      <3>4. k - 1 \in 1 .. n - 1 /\ (k - 1) + 1 = k
        <4>1. k # 1  BY <1>3, <3>2, <3>3, Zenon
        <4> QED  BY <1>3, <4>1
      <3> QED  BY <1>3, <3>1, <3>3, <3>4, Zenon
    <2>2. \A k \in 1 .. n - 1 : \E q \in Proc : pc'[q] = "io" /\ bp'[q] = idequeue'[k]
      <3> SUFFICES ASSUME NEW k \in 1 .. n - 1
                   PROVE  \E q \in Proc : pc'[q] = "io" /\ bp'[q] = idequeue'[k]
        BY Zenon
      <3>1. k + 1 \in 1 .. n /\ 1 \in 1 .. n /\ k + 1 # 1  BY <1>3
      <3>2. PICK q \in Proc : pc[q] = "io" /\ bp[q] = idequeue[k + 1]
        BY <1>3, <1>4, <3>1, Zenon DEF QueueSound
      <3>3. idequeue[k + 1] # b  BY <1>3, <1>4, <3>1, Zenon DEF QueueSound
      <3>4. q # p  BY <1>5, <3>2, <3>3, Zenon
      <3> QED  BY <1>1, <1>3, <1>9, <3>2, <3>4, Zenon
    <2>3. \A j, k \in 1 .. n - 1 : idequeue'[j] = idequeue'[k] => j = k
      <3> SUFFICES ASSUME NEW j \in 1 .. n - 1, NEW k \in 1 .. n - 1, idequeue'[j] = idequeue'[k]
                   PROVE  j = k
        BY Zenon
      <3>1. j + 1 \in 1 .. n /\ k + 1 \in 1 .. n  BY <1>3
      <3>2. idequeue[j + 1] = idequeue[k + 1]  BY <1>3, Zenon
      <3>3. j + 1 = k + 1  BY <1>3, <1>4, <3>1, <3>2, Zenon DEF QueueSound
      <3> QED  BY <3>3
    <2> QED  BY <1>3, <2>1, <2>2, <2>3, Zenon DEF QueueSound
  <1>19. IoInv'  BY <1>17, <1>18, Zenon DEF IoInv
  <1>20. ASSUME Outcome = {"ok"}, DataInv PROVE DataInv'
    <2> SUFFICES ASSUME NEW c \in valid' \ dirty'
                 PROVE  \/ data'[c] = disk'[blockno'[c]]
                        \/ \E q \in Proc : pc'[q] = "modified" /\ bp'[q] = c
      BY Zenon DEF DataInv
    <2>1. c \in Buf /\ blockno'[c] = blockno[c] /\ data \in [Buf -> Value] /\ disk \in [Block -> Value]
      BY <1>1, <1>3, Zenon DEF TypeOK
    <2>2. CASE c = b  BY <1>2, <1>20, <1>6, <2>1, <2>2, Zenon
    <2>3. CASE c # b
      <3>1. c \in valid \ dirty  BY <1>1, <2>3, Zenon
      <3>2. blockno[c] # blockno[b]
        <4>1. blockno[c] # NoBlock  BY <3>1, Zenon DEF CacheInv, BioAssumption
        <4> QED  BY <1>3, <2>1, <2>3, <4>1, Zenon DEF CacheInv
      <3>3. data'[c] = data[c] /\ disk'[blockno[c]] = disk[blockno[c]]
        <4>1. blockno[c] \in Block  BY <3>1, Zenon DEF CacheInv
        <4> QED  BY <1>2, <2>1, <2>3, <3>2, <4>1, Zenon
      <3>4. data[c] = disk[blockno[c]] \/ \E q \in Proc : pc[q] = "modified" /\ bp[q] = c
        BY <1>20, <3>1, Zenon DEF DataInv
      <3>5. \A q \in Proc : pc[q] = "modified" => pc'[q] = "modified" /\ bp'[q] = bp[q]
        BY <1>1, <1>5, <1>9, Zenon
      <3> QED  BY <2>1, <3>3, <3>4, <3>5, Zenon
    <2> QED  BY <2>2, <2>3, Zenon
  <1> QED  BY <1>11, <1>12, <1>13, <1>14, <1>15, <1>16, <1>19, <1>20, <1>10, Zenon

LEMMA brelseInv ==
    ASSUME BioAssumption, IInv, NEW p \in Proc, brelse(p)
    PROVE  IInv' /\ (DataInv => DataInv') /\ NowHolds(p, Held(p) \ {bp[p]})
  <1> USE DEF IInv
  <1> DEFINE b == bp[p]
             f == [pc EXCEPT ![p] = IF kept[p] = NoBuf THEN "idle" ELSE "have"]
  <1>1. pc[p] = "have" /\ panicked = ""  BY Zenon DEF brelse, At
  <1>2. b \in Buf /\ blockno[b] = want[p] /\ b \in Held(p) /\ b \in busy
    <2>1. b \in Buf /\ blockno[b] = want[p] /\ b \in Held(p)
      BY <1>1, Zenon DEF LocalInv, Held, Holding
    <2> QED  BY <2>1, Zenon DEF OwnInv
  <1>3. /\ lru' = MoveToFront(b) /\ busy' = busy \ {b}
        /\ bp' = [bp EXCEPT ![p] = kept[p]] /\ kept' = [kept EXCEPT ![p] = NoBuf]
        /\ want' = [want EXCEPT ![p] = IF kept[p] = NoBuf THEN NoBlock ELSE blockno[kept[p]]]
        /\ pc' = Wakeup(b, f)
        /\ UNCHANGED <<blockno, data, valid, dirty, idequeue, disk, pins, panicked>>
    BY <1>2, Zenon DEF brelse
  <1>4. /\ bp'[p] = kept[p] /\ kept'[p] = NoBuf
        /\ want'[p] = IF kept[p] = NoBuf THEN NoBlock ELSE blockno[kept[p]]
        /\ f[p] = IF kept[p] = NoBuf THEN "idle" ELSE "have"
        /\ \A q \in Proc \ {p} : /\ bp'[q] = bp[q] /\ kept'[q] = kept[q]
                                 /\ want'[q] = want[q] /\ f[q] = pc[q]
    BY <1>3, Zenon DEF TypeOK
  <1>5. f \in [Proc -> {"idle", "bget", "bget_sleep"} \cup Holding]
    <2>1. pc \in [Proc -> {"idle", "bget", "bget_sleep"} \cup Holding]
      BY TypeSplit, Zenon DEF ProcTypes
    <2> QED  BY <2>1, Zenon DEF Holding
  <1>6. /\ kept[p] \in Buf \cup {NoBuf}
        /\ kept[p] # NoBuf => blockno[kept[p]] # want[p] /\ kept[p] \in valid
    BY Zenon DEF TypeOK, LocalInv
  <1>7. kept[p] # NoBuf => kept[p] # b /\ kept[p] \in Buf /\ blockno[kept[p]] \in Block
    BY <1>2, <1>6, Zenon DEF CacheInv
  <1> HIDE DEF b, f
  <1>8. \A q \in Proc \ {p} : pc[q] \in Holding => bp[q] # b
    <2>1. \A q \in Proc : pc[q] \in Holding => bp[q] \in Held(q)  BY Zenon DEF Held, Holding
    <2> QED  BY <1>2, <2>1 DEF OwnInv
  <1>9. pc'[p] = IF kept[p] = NoBuf THEN "idle" ELSE "have"
    <2>1. f[p] \notin {"bget_sleep", "io"}  BY <1>4, Zenon
    <2>2. Wakeup(b, f)[p] = f[p]  BY <2>1, WakeupFacts, Zenon
    <2> QED  BY <1>3, <1>4, <2>2, Zenon
  <1>10. ASSUME NEW q \in Proc \ {p}
         PROVE  \/ pc'[q] = pc[q] /\ (pc[q] = "bget_sleep" => bp[q] # b)
                \/ pc[q] = "bget_sleep" /\ bp[q] = b /\ pc'[q] = "bget"
    <2>1. f[q] = pc[q]  BY <1>4, Zenon
    <2>2. /\ f[q] = "bget_sleep" /\ bp[q] = b => Wakeup(b, f)[q] = "bget"
          /\ ~(f[q] \in {"bget_sleep", "io"} /\ bp[q] = b) => Wakeup(b, f)[q] = f[q]
      BY WakeupFacts
    <2>3. pc[q] = "io" => bp[q] # b  BY <1>8, Zenon DEF Holding
    <2> QED  BY <1>3, <2>1, <2>2, <2>3, Zenon
  <1>11. Held(p)' = Held(p) \ {b} /\ \A q \in Proc \ {p} : Held(q)' = Held(q)
    <2>1. ASSUME kept[p] = NoBuf PROVE Held(p)' = Held(p) \ {b}
      <3>1. Held(p) = {b}  BY <1>1, <2>1, Zenon DEF Held, b
      <3>2. Held(p)' = {}  BY <1>4, <1>9, <2>1, Zenon DEF Held
      <3> QED  BY <3>1, <3>2, Zenon
    <2>2. ASSUME kept[p] # NoBuf PROVE Held(p)' = Held(p) \ {b}
      <3>1. Held(p) = {kept[p], b}  BY <1>1, <2>2, Zenon DEF Held, b
      <3>2. Held(p)' = {kept[p]}  BY <1>4, <1>9, <2>2, Zenon DEF Held
      <3> QED  BY <1>7, <2>2, <3>1, <3>2, Zenon
    <2>3. ASSUME NEW q \in Proc \ {p} PROVE Held(q)' = Held(q)
      <3>1. bp'[q] = bp[q] /\ kept'[q] = kept[q]  BY <1>4, Zenon
      <3>2. pc'[q] \in Holding <=> pc[q] \in Holding  BY <1>10, Zenon DEF Holding
      <3> QED  BY <3>1, <3>2, HeldSame, Zenon
    <2>4. Held(p)' = Held(p) \ {b}  BY <2>1, <2>2, Zenon
    <2> QED  BY <2>3, <2>4, Zenon
  <1>12. OwnInv'  BY <1>2, <1>3, <1>11, OwnLess, Zenon
  <1>13. LocalInv'
    <2> SUFFICES ASSUME NEW q \in Proc PROVE
          /\ pc'[q] = "idle" => kept'[q] = NoBuf
          /\ pc'[q] # "idle" => want'[q] \in Block
          /\ pc'[q] \in Holding => bp'[q] \in Buf /\ blockno'[bp'[q]] = want'[q]
          /\ pc'[q] = "bget_sleep" => bp'[q] \in Buf
          /\ kept'[q] # NoBuf => blockno'[kept'[q]] # want'[q] /\ kept'[q] \in valid'
      BY Zenon DEF LocalInv
    <2>1. CASE q = p
      <3>1. CASE kept[p] = NoBuf  BY <1>4, <1>9, <2>1, <3>1, Zenon DEF Holding
      <3>2. CASE kept[p] # NoBuf  BY <1>3, <1>4, <1>7, <1>9, <2>1, <3>2
      <3> QED  BY <3>1, <3>2, Zenon
    <2>2. CASE q # p
      <3>1. /\ pc'[q] = "idle" => pc[q] = "idle"
            /\ pc'[q] # "idle" => pc[q] # "idle"
            /\ pc'[q] \in Holding => pc[q] \in Holding
            /\ pc'[q] = "bget_sleep" => pc[q] = "bget_sleep"
        BY <1>10, <2>2, Zenon DEF Holding
      <3>2. bp'[q] = bp[q] /\ kept'[q] = kept[q] /\ want'[q] = want[q]  BY <1>4, <2>2, Zenon
      <3>3. blockno' = blockno /\ valid' = valid  BY <1>3, Zenon
      <3> QED  BY <3>1, <3>2, <3>3, Zenon DEF LocalInv
    <2> QED  BY <2>1, <2>2, Zenon
  <1>14. SleepersHaveReason'
    <2> SUFFICES ASSUME NEW q \in Proc, pc'[q] = "bget_sleep"
                 PROVE  \E s \in Proc \ {q} : bp'[q] \in Held(s)'
      BY Zenon DEF SleepersHaveReason
    <2>1. q # p /\ pc[q] = "bget_sleep" /\ bp[q] # b /\ bp'[q] = bp[q]  BY <1>4, <1>9, <1>10, Zenon
    <2>2. PICK s \in Proc \ {q} : bp[q] \in Held(s)  BY <2>1, Zenon DEF SleepersHaveReason
    <2>3. bp[q] \in Held(s)'  BY <1>11, <2>1, <2>2, Zenon
    <2> QED  BY <2>1, <2>3, Zenon
  <1>15. PanicsOnlyWhenFull'  BY <1>1, <1>3, Zenon DEF PanicsOnlyWhenFull
  <1>16. lru' \in Orders
    <2>1. lru \in Orders  BY Zenon DEF TypeOK
    <2> QED  BY <1>2, <1>3, <2>1, FrontFacts, Zenon
  <1>17. TypeOK'
    <2>1. BufTypes /\ ProcTypes  BY TypeSplit
    <2>2. pc' \in [Proc -> {"idle", "bget", "bget_sleep"} \cup Holding]
      BY <1>3, <1>5, WakeupType, Zenon
    <2>3. want' \in [Proc -> Block \cup {NoBlock}]  BY <1>3, <1>7, <2>1, Zenon DEF ProcTypes
    <2>4. ProcTypes'  BY <1>3, <1>6, <2>1, <2>2, <2>3, Zenon DEF ProcTypes
    <2>5. BufTypes'  BY <1>3, <1>16, <2>1, Zenon DEF BufTypes
    <2>6. TypeOK' <=> BufTypes' /\ ProcTypes'  BY TypeSplit, PTL
    <2> QED  BY <2>4, <2>5, <2>6, Zenon
  <1>18. \A q \in Proc : pc[q] \in {"iderw", "io", "modified"} => pc'[q] = pc[q] /\ bp'[q] = bp[q]
    BY <1>1, <1>4, <1>10, Zenon
  <1>19. CacheInv'
    <2>1. UNCHANGED <<blockno, valid, dirty, pins>>  BY <1>3, Zenon
    <2> QED  BY <1>18, <2>1 DEF CacheInv
  <1>20. ASSUME NEW q \in Proc PROVE
           /\ pc'[q] \in {"iderw", "io"} => bp'[q] \notin valid' \ dirty'
           /\ pc'[q] = "io_check" => bp'[q] \in valid' \ dirty'
           /\ pc'[q] \in {"have", "modified"} => bp'[q] \in valid'
    <2>1. valid' = valid /\ dirty' = dirty  BY <1>3, Zenon
    <2>2. CASE q = p  BY <1>4, <1>6, <1>9, <2>1, <2>2, Zenon
    <2>3. CASE q # p
      <3>1. pc'[q] = "bget" \/ pc'[q] = pc[q]  BY <1>10, <2>3, Zenon
      <3>2. bp'[q] = bp[q]  BY <1>4, <2>3, Zenon
      <3> QED  BY <2>1, <3>1, <3>2, Zenon DEF IoInv
    <2> QED  BY <2>2, <2>3
  <1>21. QueueSound'
    <2>1. QueueSound /\ idequeue' = idequeue  BY <1>3, Zenon DEF IoInv
    <2>2. \A q \in Proc : pc'[q] = "io" <=> pc[q] = "io"  BY <1>1, <1>9, <1>10, Zenon
    <2> QED  BY <1>18, <2>1, <2>2 DEF QueueSound
  <1>22. DataInv => DataInv'
    <2>1. UNCHANGED <<blockno, data, valid, dirty, disk>>  BY <1>3, Zenon
    <2> QED  BY <1>18, <2>1 DEF DataInv
  <1>23. IoInv'  BY <1>20, <1>21 DEF IoInv
  <1> QED  BY <1>12, <1>13, <1>14, <1>15, <1>16, <1>17, <1>19, <1>22, <1>23, <1>11, Zenon
          DEF NowHolds, b

----------------------------------------------------------------------------
LEMMA StutterInv ==
    ASSUME IInv, UNCHANGED vars
    PROVE  IInv' /\ (DataInv => DataInv')
  <1> USE DEF IInv, vars, buffers
  <1>1. \A q \in Proc : Held(q)' = Held(q)  BY Zenon DEF Held
  <1>2. TypeOK'
    <2>1. BufTypes /\ ProcTypes  BY TypeSplit, Zenon
    <2>2. BufTypes' /\ ProcTypes'  BY <2>1, Zenon DEF BufTypes, ProcTypes
    <2>3. TypeOK' <=> BufTypes' /\ ProcTypes'  BY TypeSplit, PTL
    <2> QED  BY <2>2, <2>3, Zenon
  <1>3. LocalInv' /\ CacheInv'  BY Zenon DEF LocalInv, CacheInv
  <1>4. OwnInv'  BY <1>1, OwnSame, Zenon
  <1>5. IoInv'  BY Zenon DEF IoInv, QueueSound
  <1>6. SleepersHaveReason'  BY <1>1, Zenon DEF SleepersHaveReason
  <1>7. PanicsOnlyWhenFull'  BY <1>1, Zenon DEF PanicsOnlyWhenFull
  <1>8. DataInv => DataInv'  BY Zenon DEF DataInv
  <1> QED  BY <1>2, <1>3, <1>4, <1>5, <1>6, <1>7, <1>8, Zenon

LEMMA NextInv ==
    ASSUME BioAssumption, IInv, [Next]_vars
    PROVE  IInv' /\ (Outcome = {"ok"} /\ DataInv => DataInv')
  <1>1. CASE UNCHANGED vars  BY <1>1, StutterInv, Zenon
  <1>2. CASE ideintr  BY <1>2, ideintrInv, Zenon
  <1>3. CASE Panic  BY <1>3, StutterInv, Zenon DEF Panic
  <1>4. ASSUME NEW p \in Proc,
               \/ bread(p) \/ NestedBread(p)
               \/ BgetHit(p) \/ BgetSleep(p) \/ BgetRecycle(p) \/ BgetPanic(p)
               \/ iderw(p) \/ IderwCheck(p)
               \/ Modify(p) \/ bwrite(p) \/ log_write(p) \/ brelse(p)
        PROVE  IInv' /\ (DataInv => DataInv')
    <2>1. CASE bread(p)  BY <2>1, breadInv, Zenon
    <2>2. CASE NestedBread(p)  BY <2>2, NestedBreadInv, Zenon
    <2>3. CASE BgetHit(p)  BY <2>3, BgetHitInv, Zenon
    <2>4. CASE BgetSleep(p)  BY <2>4, BgetSleepInv
    <2>5. CASE BgetRecycle(p)  BY <2>5, BgetRecycleInv, Zenon
    <2>6. CASE BgetPanic(p)  BY <2>6, BgetPanicInv, Zenon
    <2>7. CASE iderw(p)  BY <2>7, iderwInv
    <2>8. CASE IderwCheck(p)  BY <2>8, IderwCheckInv
    <2>9. CASE Modify(p)  BY <2>9, ModifyInv
    <2>10. CASE bwrite(p)  BY <2>10, bwriteInv
    <2>11. CASE log_write(p)  BY <2>11, log_writeInv
    <2>12. CASE brelse(p)  BY <2>12, brelseInv, Zenon
    <2> QED  BY <1>4, <2>1, <2>2, <2>3, <2>4, <2>5, <2>6, <2>7, <2>8, <2>9, <2>10, <2>11, <2>12, Zenon
  <1> QED  BY <1>1, <1>2, <1>3, <1>4, Zenon DEF Next

----------------------------------------------------------------------------
(* The block store that the cache and the disk amount to, as Store maps    *)
(* them, from the blocks bn and data dt of the buffers, the valid buffers  *)
(* vl and the disk dk.                                                     *)
MemOf(bn, dt, vl, dk) ==
    [k \in Block |-> IF \E b \in vl : bn[b] = k THEN dt[CHOOSE b \in vl : bn[b] = k] ELSE dk[k]]

ViewOf(bn, dt, own) == [k \in {bn[b] : b \in own} |-> dt[CHOOSE b \in own : bn[b] = k]]

Mem  == MemOf(blockno, data, valid, disk)
View == [p \in Proc |-> ViewOf(blockno, data, Held(p) \cap valid)]

BlocksOf(bn, own) == {bn[b] : b \in own}

OnePlace(bn, vl) == \A b, c \in vl : bn[b] = bn[c] => b = c

LEMMA MemAt ==
    ASSUME NEW bn, NEW dt, NEW vl, NEW dk, OnePlace(bn, vl), \A b \in vl : bn[b] \in Block
    PROVE  /\ \A b \in vl : MemOf(bn, dt, vl, dk)[bn[b]] = dt[b]
           /\ \A k \in Block : (\A b \in vl : bn[b] # k) => MemOf(bn, dt, vl, dk)[k] = dk[k]
  <1>1. ASSUME NEW b \in vl PROVE MemOf(bn, dt, vl, dk)[bn[b]] = dt[b]
    <2> DEFINE c == CHOOSE x \in vl : bn[x] = bn[b]
    <2>1. c \in vl /\ bn[c] = bn[b]  BY Zenon
    <2>2. c = b  BY <2>1, Zenon DEF OnePlace
    <2>3. MemOf(bn, dt, vl, dk)[bn[b]] = dt[c]  BY Zenon DEF MemOf
    <2> QED  BY <2>2, <2>3, Zenon
  <1>2. ASSUME NEW k \in Block, \A b \in vl : bn[b] # k
        PROVE  MemOf(bn, dt, vl, dk)[k] = dk[k]
    BY <1>2, Zenon DEF MemOf
  <1> QED  BY <1>1, <1>2, Zenon

LEMMA ViewAt ==
    ASSUME NEW bn, NEW dt, NEW own, OnePlace(bn, own)
    PROVE  /\ DOMAIN ViewOf(bn, dt, own) = BlocksOf(bn, own)
           /\ \A b \in own : ViewOf(bn, dt, own)[bn[b]] = dt[b]
  <1>1. ASSUME NEW b \in own PROVE ViewOf(bn, dt, own)[bn[b]] = dt[b]
    <2> DEFINE c == CHOOSE x \in own : bn[x] = bn[b]
    <2>1. c \in own /\ bn[c] = bn[b]  BY Zenon
    <2>2. c = b  BY <2>1, Zenon DEF OnePlace
    <2>3. ViewOf(bn, dt, own)[bn[b]] = dt[c]  BY Zenon DEF ViewOf
    <2> QED  BY <2>2, <2>3, Zenon
  <1>2. DOMAIN ViewOf(bn, dt, own) = BlocksOf(bn, own)  BY Zenon DEF ViewOf, BlocksOf
  <1> QED  BY <1>1, <1>2, Zenon

LEMMA MemSame ==
    ASSUME NEW f, NEW g, f = [k \in Block |-> f[k]], g = [k \in Block |-> g[k]],
           \A k \in Block : f[k] = g[k]
    PROVE  f = g
  BY Zenon

(* The blocks with a value in the cache are in one buffer each.            *)
LEMMA Places ==
    ASSUME BioAssumption, IInv
    PROVE  /\ OnePlace(blockno, valid) /\ \A b \in valid : b \in Buf /\ blockno[b] \in Block
           /\ \A b, c \in Buf : blockno[b] = blockno[c] /\ blockno[b] \in Block => b = c
  <1>1. \A b \in valid : b \in Buf /\ blockno[b] \in Block  BY Zenon DEF IInv, TypeOK, CacheInv
  <1>2. \A b, c \in Buf : blockno[b] = blockno[c] /\ blockno[b] # NoBlock => b = c
    BY Zenon DEF IInv, CacheInv
  <1>3. NoBlock \notin Block  BY Zenon DEF BioAssumption
  <1>4. \A b, c \in Buf : blockno[b] = blockno[c] /\ blockno[b] \in Block => b = c
    BY <1>2, <1>3, Zenon
  <1>5. OnePlace(blockno, valid)  BY <1>1, <1>4, Zenon DEF OnePlace
  <1> QED  BY <1>1, <1>4, <1>5, Zenon

LEMMA PlacesNext ==
    ASSUME BioAssumption, IInv'
    PROVE  /\ OnePlace(blockno', valid') /\ \A b \in valid' : b \in Buf /\ blockno'[b] \in Block
           /\ \A b, c \in Buf : blockno'[b] = blockno'[c] /\ blockno'[b] \in Block => b = c
  <1>1. \A b \in valid' : b \in Buf /\ blockno'[b] \in Block  BY Zenon DEF IInv, TypeOK, CacheInv
  <1>2. \A b, c \in Buf : blockno'[b] = blockno'[c] /\ blockno'[b] # NoBlock => b = c
    BY Zenon DEF IInv, CacheInv
  <1>3. NoBlock \notin Block  BY Zenon DEF BioAssumption
  <1>4. \A b, c \in Buf : blockno'[b] = blockno'[c] /\ blockno'[b] \in Block => b = c
    BY <1>2, <1>3, Zenon
  <1>5. OnePlace(blockno', valid')  BY <1>1, <1>4, Zenon DEF OnePlace
  <1> QED  BY <1>1, <1>4, <1>5, Zenon

(* A step that changes no value and no held buffer with data.              *)
LEMMA QuietRefines ==
    ASSUME UNCHANGED <<blockno, data, valid, disk>>,
           \A q \in Proc : Held(q)' \cap valid = Held(q) \cap valid
    PROVE  UNCHANGED <<Mem, View>>
  <1>1. Mem' = Mem  BY Zenon DEF Mem
  <1>2. \A q \in Proc : ViewOf(blockno', data', Held(q)' \cap valid')
                          = ViewOf(blockno, data, Held(q) \cap valid)
    BY Zenon
  <1>3. View' = View  BY <1>2, Zenon DEF View
  <1> QED  BY <1>1, <1>3, Zenon

With(s, k, v) == [j \in DOMAIN s \cup {k} |-> IF j = k THEN v ELSE s[j]]
Without(s, k) == [j \in DOMAIN s \ {k} |-> s[j]]

LEMMA GrabStep ==
    ASSUME NEW p \in Proc, NEW k \in Block, \A q \in Proc : k \notin DOMAIN View[q],
           View' = [View EXCEPT ![p] = With(View[p], k, Mem[k])], Mem' = Mem
    PROVE  Store!StoreNext
  BY Zenon DEF Store!StoreNext, Store!Grab, Store!With, Mem, View, With, MemOf, ViewOf

LEMMA DropStep ==
    ASSUME NEW p \in Proc, NEW k \in Block, k \in DOMAIN View[p],
           View' = [View EXCEPT ![p] = Without(View[p], k)], Mem' = Mem
    PROVE  Store!StoreNext
  BY Zenon DEF Store!StoreNext, Store!Drop, Store!Without, Mem, View, Without, MemOf, ViewOf

LEMMA UpdateStep ==
    ASSUME NEW p \in Proc, NEW k \in Block, NEW v \in Value, k \in DOMAIN View[p],
           View' = [View EXCEPT ![p] = With(View[p], k, v)], Mem' = [Mem EXCEPT ![k] = v]
    PROVE  Store!StoreNext
  <1>1. Store!Update(p, k, v, Mem, View, Mem', View')
    BY Zenon DEF Store!Update, Store!With, With
  <1>2. \E v1 \in Value : Store!Update(p, k, v1, Mem, View, Mem', View')  BY <1>1, Zenon
  <1> QED  BY <1>2, Zenon DEF Store!StoreNext, Mem, View, MemOf, ViewOf

(* How a view changes with the buffers it is of, and with their data.      *)
LEMMA ViewWith ==
    ASSUME NEW bn, NEW dt, NEW own, NEW dt2, NEW b, OnePlace(bn, own \cup {b}),
           \A c \in own \ {b} : dt2[c] = dt[c]
    PROVE  ViewOf(bn, dt2, own \cup {b}) = With(ViewOf(bn, dt, own), bn[b], dt2[b])
  <1> DEFINE f == ViewOf(bn, dt2, own \cup {b})
             g == With(ViewOf(bn, dt, own), bn[b], dt2[b])
  <1>1. OnePlace(bn, own)  BY Zenon DEF OnePlace
  <1>2. /\ DOMAIN ViewOf(bn, dt, own) = BlocksOf(bn, own)
        /\ \A c \in own : ViewOf(bn, dt, own)[bn[c]] = dt[c]
    BY <1>1, ViewAt
  <1>3. DOMAIN f = BlocksOf(bn, own \cup {b}) /\ \A c \in own \cup {b} : f[bn[c]] = dt2[c]
    BY ViewAt
  <1>4. f = [k \in DOMAIN f |-> f[k]]  BY DEF ViewOf
  <1>5. /\ g = [k \in DOMAIN g |-> g[k]] /\ DOMAIN g = BlocksOf(bn, own) \cup {bn[b]}
        /\ g[bn[b]] = dt2[b]
        /\ \A c \in own : bn[c] # bn[b] => g[bn[c]] = dt[c]
    BY <1>2, Zenon DEF With, BlocksOf
  <1> HIDE DEF f, g
  <1>6. DOMAIN f = DOMAIN g  BY <1>3, <1>5 DEF BlocksOf
  <1>7. ASSUME NEW c \in own \cup {b} PROVE f[bn[c]] = g[bn[c]]
    <2>1. CASE c = b  BY <1>3, <1>5, <2>1, Zenon
    <2>2. CASE c # b
      <3>1. bn[c] # bn[b]  BY <2>2, Zenon DEF OnePlace
      <3> QED  BY <1>3, <1>5, <2>2, <3>1, Zenon
    <2> QED  BY <2>1, <2>2, Zenon
  <1>8. \A k \in DOMAIN f : f[k] = g[k]  BY <1>3, <1>7 DEF BlocksOf
  <1>9. f = g  BY <1>4, <1>5, <1>6, <1>8, Zenon
  <1> QED  BY <1>9, Zenon DEF f, g

LEMMA ViewWithout ==
    ASSUME NEW bn, NEW dt, NEW own, NEW b \in own, OnePlace(bn, own)
    PROVE  ViewOf(bn, dt, own \ {b}) = Without(ViewOf(bn, dt, own), bn[b])
  <1> DEFINE f == ViewOf(bn, dt, own \ {b})
             g == Without(ViewOf(bn, dt, own), bn[b])
  <1>1. OnePlace(bn, own \ {b})  BY Zenon DEF OnePlace
  <1>2. /\ DOMAIN ViewOf(bn, dt, own) = BlocksOf(bn, own)
        /\ \A c \in own : ViewOf(bn, dt, own)[bn[c]] = dt[c]
    BY ViewAt
  <1>3. DOMAIN f = BlocksOf(bn, own \ {b}) /\ \A c \in own \ {b} : f[bn[c]] = dt[c]
    BY <1>1, ViewAt
  <1>4. f = [k \in DOMAIN f |-> f[k]]  BY DEF ViewOf
  <1>5. /\ g = [k \in DOMAIN g |-> g[k]] /\ DOMAIN g = BlocksOf(bn, own) \ {bn[b]}
        /\ \A c \in own : bn[c] # bn[b] => g[bn[c]] = dt[c]
    BY <1>2, Zenon DEF Without, BlocksOf
  <1> HIDE DEF f, g
  <1>6. \A c \in own : c # b => bn[c] # bn[b]  BY Zenon DEF OnePlace
  <1>7. DOMAIN f = DOMAIN g  BY <1>3, <1>5, <1>6 DEF BlocksOf
  <1>8. \A c \in own \ {b} : f[bn[c]] = g[bn[c]]  BY <1>3, <1>5, <1>6, Zenon
  <1>9. \A k \in DOMAIN f : f[k] = g[k]  BY <1>3, <1>8, Zenon DEF BlocksOf
  <1>10. f = g  BY <1>4, <1>5, <1>7, <1>9, Zenon
  <1> QED  BY <1>10, Zenon DEF f, g

LEMMA ViewKept ==
    ASSUME NEW bn, NEW dt, NEW own, NEW bn2, NEW dt2, OnePlace(bn, own),
           \A c \in own : bn2[c] = bn[c] /\ dt2[c] = dt[c]
    PROVE  ViewOf(bn2, dt2, own) = ViewOf(bn, dt, own)
  <1> DEFINE f == ViewOf(bn2, dt2, own)
             g == ViewOf(bn, dt, own)
  <1>1. OnePlace(bn2, own)  BY Zenon DEF OnePlace
  <1>2. DOMAIN f = BlocksOf(bn2, own) /\ \A c \in own : f[bn2[c]] = dt2[c]  BY <1>1, ViewAt
  <1>3. DOMAIN g = BlocksOf(bn, own) /\ \A c \in own : g[bn[c]] = dt[c]  BY ViewAt
  <1>4. f = [k \in DOMAIN f |-> f[k]] /\ g = [k \in DOMAIN g |-> g[k]]  BY Zenon DEF ViewOf
  <1> HIDE DEF f, g
  <1>5. DOMAIN f = DOMAIN g  BY <1>2, <1>3 DEF BlocksOf
  <1>6. \A k \in DOMAIN f : f[k] = g[k]  BY <1>2, <1>3 DEF BlocksOf
  <1>7. f = g  BY <1>4, <1>5, <1>6, Zenon
  <1> QED  BY <1>7, Zenon DEF f, g

(* The buffers p holds with data in them.                                  *)
LEMMA OwnPlace ==
    ASSUME BioAssumption, IInv, NEW S, S \subseteq valid
    PROVE  OnePlace(blockno, S)
  BY Places, Zenon DEF OnePlace

LEMMA ViewIs ==
    ASSUME BioAssumption, IInv, NEW q \in Proc
    PROVE  /\ View[q] = ViewOf(blockno, data, Held(q) \cap valid)
           /\ DOMAIN View[q] = BlocksOf(blockno, Held(q) \cap valid)
  <1>1. OnePlace(blockno, Held(q) \cap valid)  BY OwnPlace, Zenon
  <1>2. View[q] = ViewOf(blockno, data, Held(q) \cap valid)  BY Zenon DEF View
  <1> QED  BY <1>1, <1>2, ViewAt, Zenon

(* The views after a step that is p's own.                                 *)
LEMMA ViewOwn ==
    ASSUME NEW p \in Proc, NEW s, ViewOf(blockno', data', Held(p)' \cap valid') = s,
           \A q \in Proc \ {p} : ViewOf(blockno', data', Held(q)' \cap valid')
                                   = ViewOf(blockno, data, Held(q) \cap valid)
    PROVE  View' = [View EXCEPT ![p] = s]
  BY Zenon DEF View

(* bget() finds the block with its data.                                   *)
LEMMA BgetHitRefines ==
    ASSUME BioAssumption, IInv, NEW p \in Proc, BgetHit(p)
    PROVE  Store!StoreNext \/ UNCHANGED <<Mem, View>>
  <1>1. PICK b \in Caching(want[p]) \ busy : bp' = [bp EXCEPT ![p] = b]  BY Zenon DEF BgetHit
  <1>2. UNCHANGED <<blockno, data, valid, disk>> /\ pc[p] = "bget"  BY Zenon DEF BgetHit, At
  <1>3. bp'[p] = b /\ b \in Buf /\ b \notin busy /\ blockno[b] \in Block
    BY <1>1, <1>2, Zenon DEF IInv, TypeOK, LocalInv, Caching
  <1>4. Held(p)' = Held(p) \cup {b} /\ \A q \in Proc \ {p} : Held(q)' = Held(q)
    BY <1>3, BgetHitInv, Zenon DEF NowHolds
  <1>5. \A q \in Proc : b \notin Held(q)  BY <1>3, Zenon DEF IInv, OwnInv
  <1>6. CASE b \notin valid
    <2>1. \A q \in Proc : Held(q)' \cap valid = Held(q) \cap valid  BY <1>4, <1>6, Zenon
    <2> QED  BY <1>2, <2>1, QuietRefines, Zenon
  <1>7. CASE b \in valid
    <2> DEFINE k == blockno[b]
               own == Held(p) \cap valid
    <2>1. \A q \in Proc : k \notin DOMAIN View[q]
      <3> SUFFICES ASSUME NEW q \in Proc, k \in DOMAIN View[q] PROVE FALSE  BY Zenon
      <3>0. k \in BlocksOf(blockno, Held(q) \cap valid)  BY ViewIs, Zenon
      <3>1. PICK c \in Held(q) \cap valid : blockno[c] = blockno[b]  BY <3>0, Zenon DEF BlocksOf
      <3>2. c = b  BY <1>7, <3>1, Places, Zenon DEF OnePlace
      <3> QED  BY <1>5, <3>1, <3>2, Zenon
    <2>2. Mem' = Mem  BY <1>2, Zenon DEF Mem
    <2>3. Mem[k] = data[b]
      <3>1. OnePlace(blockno, valid) /\ \A c \in valid : blockno[c] \in Block  BY Places, Zenon
      <3> QED  BY <1>7, <3>1, MemAt DEF Mem
    <2>4. ViewOf(blockno, data, own \cup {b}) = With(ViewOf(blockno, data, own), k, data[b])
      <3>1. OnePlace(blockno, own \cup {b})  BY <1>7, OwnPlace, Zenon
      <3> HIDE DEF own
      <3> QED  BY <3>1, ViewWith
    <2>5. Held(p)' \cap valid' = own \cup {b}  BY <1>2, <1>4, <1>7, Zenon
    <2>6. ViewOf(blockno', data', Held(p)' \cap valid') = With(View[p], k, Mem[k])
      BY <1>2, <2>3, <2>4, <2>5, ViewIs, Zenon
    <2>7. \A q \in Proc \ {p} : ViewOf(blockno', data', Held(q)' \cap valid')
                                  = ViewOf(blockno, data, Held(q) \cap valid)
      BY <1>2, <1>4, Zenon
    <2>8. View' = [View EXCEPT ![p] = With(View[p], k, Mem[k])]  BY <2>6, <2>7, ViewOwn, Zenon
    <2> HIDE DEF k
    <2> QED  BY <1>3, <2>1, <2>2, <2>8, GrabStep, Zenon DEF k
  <1> QED  BY <1>6, <1>7, Zenon

(* A value changes place, from the cache to the disk or back.              *)
LEMMA MemKept ==
    ASSUME BioAssumption, IInv, IInv',
           \A k \in Block : \/ \E b \in valid, c \in valid' :
                                 blockno[b] = k /\ blockno'[c] = k /\ data'[c] = data[b]
                            \/ \E b \in valid : /\ blockno[b] = k /\ data[b] = disk'[k]
                                                /\ \A c \in valid' : blockno'[c] # k
                            \/ \E c \in valid' : /\ blockno'[c] = k /\ data'[c] = disk[k]
                                                 /\ \A b \in valid : blockno[b] # k
                            \/ /\ disk'[k] = disk[k] /\ \A b \in valid : blockno[b] # k
                               /\ \A c \in valid' : blockno'[c] # k
    PROVE  Mem' = Mem
  <1>1. OnePlace(blockno, valid) /\ \A b \in valid : blockno[b] \in Block  BY Places, Zenon
  <1>2. OnePlace(blockno', valid') /\ \A b \in valid' : blockno'[b] \in Block  BY PlacesNext, Zenon
  <1>3. /\ \A b \in valid : Mem[blockno[b]] = data[b]
        /\ \A k \in Block : (\A b \in valid : blockno[b] # k) => Mem[k] = disk[k]
    BY <1>1, MemAt DEF Mem
  <1>4. /\ \A c \in valid' : Mem'[blockno'[c]] = data'[c]
        /\ \A k \in Block : (\A c \in valid' : blockno'[c] # k) => Mem'[k] = disk'[k]
    BY <1>2, MemAt DEF Mem
  <1>5. Mem = [k \in Block |-> Mem[k]] /\ Mem' = [k \in Block |-> Mem'[k]]  BY Zenon DEF Mem, MemOf
  <1>6. \A k \in Block : Mem'[k] = Mem[k]
    <2> SUFFICES ASSUME NEW k \in Block PROVE Mem'[k] = Mem[k]  BY Zenon
    <2> QED  BY <1>3, <1>4
  <1> QED  BY <1>5, <1>6, MemSame, Zenon

(* A buffer that is recycled holds what is on disk.                        *)
LEMMA BgetRecycleRefines ==
    ASSUME BioAssumption, IInv, DataInv, IInv', NEW p \in Proc, BgetRecycle(p)
    PROVE  UNCHANGED <<Mem, View>>
  <1>1. PICK b \in Victims :
          /\ blockno' = [blockno EXCEPT ![b] = want[p]]
          /\ valid' = valid \ {b} /\ bp' = [bp EXCEPT ![p] = b]
    BY Zenon DEF BgetRecycle
  <1>2. UNCHANGED <<data, disk>>  BY Zenon DEF BgetRecycle
  <1>3. bp'[p] = b /\ b \in Buf /\ b \notin busy /\ b \notin dirty
    BY <1>1, Zenon DEF IInv, TypeOK, Victims, Clean
  <1>4. Held(p)' = Held(p) \cup {b} /\ \A q \in Proc \ {p} : Held(q)' = Held(q)
    BY <1>3, BgetRecycleInv, Zenon DEF NowHolds
  <1>5. \A q \in Proc : b \notin Held(q)  BY <1>3, Zenon DEF IInv, OwnInv
  <1>6. \A q \in Proc : Held(q)' \cap valid' = Held(q) \cap valid  BY <1>1, <1>4, <1>5, Zenon
  <1>7. \A c \in valid \ {b} : blockno'[c] = blockno[c]  BY <1>1, <1>3, Zenon DEF IInv, TypeOK
  <1>8. b \in valid => data[b] = disk[blockno[b]]
    <2>1. \A q \in Proc : pc[q] = "modified" => bp[q] # b  BY <1>5, Zenon DEF Held
    <2> QED  BY <1>3, <2>1, Zenon DEF DataInv
  <1>9. Mem' = Mem
    <2>1. \A c, d \in valid : blockno[c] = blockno[d] => c = d  BY Places, Zenon DEF OnePlace
    <2>2. ASSUME NEW k \in Block
          PROVE  \/ \E e \in valid, c \in valid' :
                      blockno[e] = k /\ blockno'[c] = k /\ data'[c] = data[e]
                 \/ \E e \in valid : /\ blockno[e] = k /\ data[e] = disk'[k]
                                     /\ \A c \in valid' : blockno'[c] # k
                 \/ \E c \in valid' : /\ blockno'[c] = k /\ data'[c] = disk[k]
                                      /\ \A e \in valid : blockno[e] # k
                 \/ /\ disk'[k] = disk[k] /\ \A e \in valid : blockno[e] # k
                    /\ \A c \in valid' : blockno'[c] # k
      <3>1. CASE \E e \in valid \ {b} : blockno[e] = k
        <4>1. PICK e \in valid \ {b} : blockno[e] = k  BY <3>1, Zenon
        <4>2. e \in valid' /\ blockno'[e] = k /\ data'[e] = data[e]  BY <1>1, <1>2, <1>7, <4>1, Zenon
        <4> QED  BY <4>1, <4>2, Zenon
      <3>2. CASE b \in valid /\ blockno[b] = k
        <4>1. \A c \in valid' : blockno'[c] # k  BY <1>1, <1>7, <2>1, <3>2, Zenon
        <4>2. data[b] = disk'[k]  BY <1>2, <1>8, <3>2, Zenon
        <4> QED  BY <3>2, <4>1, <4>2, Zenon
      <3>3. CASE \A e \in valid : blockno[e] # k
        <4>1. \A c \in valid' : blockno'[c] # k  BY <1>1, <1>7, <3>3, Zenon
        <4> QED  BY <1>2, <3>3, <4>1, Zenon
      <3> QED  BY <3>1, <3>2, <3>3, Zenon
    <2> QED  BY <2>2, MemKept, Zenon
  <1>10. View' = View
    <2>1. ASSUME NEW q \in Proc
          PROVE  ViewOf(blockno', data', Held(q)' \cap valid')
                   = ViewOf(blockno, data, Held(q) \cap valid)
      <3> DEFINE own == Held(q) \cap valid
      <3>1. OnePlace(blockno, own)  BY OwnPlace, Zenon
      <3>2. \A c \in own : blockno'[c] = blockno[c] /\ data'[c] = data[c]  BY <1>2, <1>5, <1>7, Zenon
      <3>3. ViewOf(blockno', data', own) = ViewOf(blockno, data, own)
        <4> HIDE DEF own
        <4> QED  BY <3>1, <3>2, ViewKept
      <3> QED  BY <1>6, <3>3, Zenon
    <2> QED  BY <2>1, Zenon DEF View
  <1> QED  BY <1>9, <1>10, Zenon

(* ideintr() has written a buffer back, or has read it: only now is the    *)
(* block the reader's.                                                     *)
LEMMA ideintrRefines ==
    ASSUME BioAssumption, Outcome = {"ok"}, IInv, DataInv, IInv', ideintr
    PROVE  Store!StoreNext \/ UNCHANGED <<Mem, View>>
  <1> DEFINE b == Head(idequeue)
             k == blockno[b]
  <1>1. /\ idequeue # <<>> /\ valid' = valid \cup {b} /\ blockno' = blockno
        /\ \/ b \in dirty /\ disk' = [disk EXCEPT ![blockno[b]] = data[b]] /\ data' = data
           \/ /\ b \notin dirty /\ disk' = disk
              /\ data' = [data EXCEPT ![b] = disk[blockno[b]]]
    BY Zenon DEF ideintr
  <1>2. PICK p \in Proc : pc[p] = "io" /\ bp[p] = b
    <2>1. idequeue \in Seq(Buf) /\ idequeue # <<>>  BY <1>1, Zenon DEF IInv, TypeOK
    <2>2. 1 \in DOMAIN idequeue /\ idequeue[1] = b  BY <2>1
    <2> HIDE DEF b
    <2> QED  BY <2>2, Zenon DEF IInv, IoInv, QueueSound
  <1> HIDE DEF b
  <1>3. /\ b \in Held(p) /\ b \in Buf /\ k \in Block /\ b \notin valid \ dirty
    BY <1>2, Zenon DEF IInv, IoInv, LocalInv, Held, Holding
  <1>4. \A q \in Proc : Held(q)' = Held(q)  BY ideintrInv, Zenon
  <1>5. \A q \in Proc \ {p} : b \notin Held(q)  BY <1>3, Zenon DEF IInv, OwnInv
  <1>6. /\ data \in [Buf -> Value] /\ disk \in [Block -> Value] /\ valid \subseteq Buf
        /\ dirty \subseteq valid
    BY Zenon DEF IInv, TypeOK, CacheInv
  <1>7. \A c, d \in Buf : blockno[c] = blockno[d] /\ blockno[c] \in Block => c = d  BY Places, Zenon
  <1>8. ASSUME NEW q \in Proc \ {p}
        PROVE  ViewOf(blockno', data', Held(q)' \cap valid')
                 = ViewOf(blockno, data, Held(q) \cap valid)
    <2> DEFINE own == Held(q) \cap valid
    <2>1. OnePlace(blockno, own)  BY OwnPlace, Zenon
    <2>2. \A c \in own : blockno'[c] = blockno[c] /\ data'[c] = data[c]  BY <1>1, <1>5, <1>6, Zenon
    <2>3. ViewOf(blockno', data', own) = ViewOf(blockno, data, own)
      <3> HIDE DEF own
      <3> QED  BY <2>1, <2>2, ViewKept
    <2>4. Held(q)' \cap valid' = own  BY <1>1, <1>4, <1>5, Zenon
    <2> QED  BY <2>3, <2>4, Zenon
  <1>9. Mem' = Mem
    <2>1. ASSUME NEW j \in Block
          PROVE  \/ \E e \in valid, c \in valid' :
                      blockno[e] = j /\ blockno'[c] = j /\ data'[c] = data[e]
                 \/ \E e \in valid : /\ blockno[e] = j /\ data[e] = disk'[j]
                                     /\ \A c \in valid' : blockno'[c] # j
                 \/ \E c \in valid' : /\ blockno'[c] = j /\ data'[c] = disk[j]
                                      /\ \A e \in valid : blockno[e] # j
                 \/ /\ disk'[j] = disk[j] /\ \A e \in valid : blockno[e] # j
                    /\ \A c \in valid' : blockno'[c] # j
      <3>1. CASE \E e \in valid : blockno[e] = j
        <4>1. PICK e \in valid : blockno[e] = j  BY <3>1, Zenon
        <4>2. e \in valid' /\ blockno'[e] = j  BY <1>1, <4>1, Zenon
        <4>3. data'[e] = data[e]  BY <1>1, <1>3, <1>6, Zenon
        <4> QED  BY <4>1, <4>2, <4>3, Zenon
      <3>2. CASE (\A e \in valid : blockno[e] # j) /\ j = k
        <4>1. b \notin valid /\ b \notin dirty  BY <1>6, <3>2, Zenon
        <4>2. b \in valid' /\ blockno'[b] = j /\ data'[b] = disk[j]
          BY <1>1, <1>3, <1>6, <3>2, <4>1, Zenon
        <4> QED  BY <3>2, <4>2, Zenon
      <3>3. CASE (\A e \in valid : blockno[e] # j) /\ j # k
        <4>1. disk'[j] = disk[j]  BY <1>1, <1>3, <1>6, <3>3, Zenon
        <4>2. \A c \in valid' : blockno'[c] # j  BY <1>1, <3>3, Zenon
        <4> QED  BY <3>3, <4>1, <4>2, Zenon
      <3> QED  BY <3>1, <3>2, <3>3, Zenon
    <2> QED  BY <2>1, MemKept, Zenon
  <1>10. CASE b \in valid
    <2>1. data' = data /\ valid' = valid  BY <1>1, <1>3, <1>10, Zenon
    <2>2. ViewOf(blockno', data', Held(p)' \cap valid') = ViewOf(blockno, data, Held(p) \cap valid)
      BY <1>1, <1>4, <2>1, Zenon
    <2>3. View' = View  BY <1>8, <2>2, Zenon DEF View
    <2> QED  BY <1>9, <2>3, Zenon
  <1>11. CASE b \notin valid
    <2> DEFINE own == Held(p) \cap valid
    <2>1. b \notin dirty /\ data' = [data EXCEPT ![b] = disk[blockno[b]]]  BY <1>1, <1>6, <1>11, Zenon
    <2>2. Mem[k] = disk[k]
      <3>1. OnePlace(blockno, valid) /\ \A c \in valid : blockno[c] \in Block  BY Places, Zenon
      <3>2. \A c \in valid : blockno[c] # k  BY <1>3, <1>6, <1>7, <1>11, Zenon
      <3> HIDE DEF k
      <3> QED  BY <1>3, <3>1, <3>2, MemAt DEF Mem
    <2>3. data'[b] = Mem[k] /\ \A c \in own \ {b} : data'[c] = data[c]
      BY <1>3, <1>6, <2>1, <2>2, Zenon
    <2>4. ViewOf(blockno, data', own \cup {b}) = With(ViewOf(blockno, data, own), k, data'[b])
      <3>1. OnePlace(blockno, own \cup {b})  BY <1>3, <1>6, <1>7, Places, Zenon DEF OnePlace
      <3>2. \A c \in own \ {b} : data'[c] = data[c]  BY <2>3, Zenon
      <3> HIDE DEF own
      <3> QED  BY <3>1, <3>2, ViewWith
    <2>5. Held(p)' \cap valid' = own \cup {b}  BY <1>1, <1>3, <1>4, Zenon
    <2>6. ViewOf(blockno', data', Held(p)' \cap valid') = With(View[p], k, Mem[k])
      BY <1>1, <2>3, <2>4, <2>5, ViewIs, Zenon
    <2>7. View' = [View EXCEPT ![p] = With(View[p], k, Mem[k])]  BY <1>8, <2>6, ViewOwn, Zenon
    <2>8. \A q \in Proc : k \notin DOMAIN View[q]
      <3> SUFFICES ASSUME NEW q \in Proc, k \in DOMAIN View[q] PROVE FALSE  BY Zenon
      <3>1. k \in BlocksOf(blockno, Held(q) \cap valid)  BY ViewIs, Zenon
      <3>2. PICK c \in Held(q) \cap valid : blockno[c] = k  BY <3>1, Zenon DEF BlocksOf
      <3> QED  BY <1>3, <1>6, <1>7, <1>11, <3>2, Zenon
    <2> HIDE DEF k
    <2> QED  BY <1>3, <1>9, <2>7, <2>8, GrabStep, Zenon DEF k
  <1> QED  BY <1>10, <1>11, Zenon

LEMMA ModifyRefines ==
    ASSUME BioAssumption, IInv, IInv', NEW p \in Proc, Modify(p)
    PROVE  Store!StoreNext
  <1> DEFINE b == bp[p]
             k == blockno[b]
             own == Held(p) \cap valid
  <1>1. PICK v \in Value : data' = [data EXCEPT ![b] = v]  BY Zenon DEF Modify
  <1>2. UNCHANGED <<blockno, valid, disk>> /\ pc[p] = "have"  BY Zenon DEF Modify, At
  <1>3. b \in Held(p) /\ b \in valid /\ b \in Buf /\ k \in Block
    BY <1>2, Zenon DEF IInv, IoInv, LocalInv, Held, Holding
  <1>4. \A q \in Proc : Held(q)' = Held(q)  BY ModifyInv, Zenon DEF NowHolds
  <1> HIDE DEF b
  <1>5. data'[b] = v /\ \A c \in valid \ {b} : data'[c] = data[c]
    BY <1>1, <1>3, Zenon DEF IInv, TypeOK
  <1>6. \A q \in Proc \ {p} : b \notin Held(q)  BY <1>3, Zenon DEF IInv, OwnInv
  <1>7. \A c, d \in valid : blockno[c] = blockno[d] => c = d  BY Places, Zenon DEF OnePlace
  <1>8. Mem' = [Mem EXCEPT ![k] = v]
    <2>1. OnePlace(blockno, valid) /\ \A c \in valid : blockno[c] \in Block  BY Places, Zenon
    <2>2. /\ \A c \in valid : Mem[blockno[c]] = data[c]
          /\ \A j \in Block : (\A c \in valid : blockno[c] # j) => Mem[j] = disk[j]
      BY <2>1, MemAt DEF Mem
    <2>3. /\ \A c \in valid : Mem'[blockno[c]] = data'[c]
          /\ \A j \in Block : (\A c \in valid : blockno[c] # j) => Mem'[j] = disk[j]
      <3>1. Mem' = MemOf(blockno, data', valid, disk)  BY <1>2, Zenon DEF Mem
      <3> QED  BY <2>1, <3>1, MemAt
    <2>4. Mem = [j \in Block |-> Mem[j]] /\ Mem' = [j \in Block |-> Mem'[j]]  BY Zenon DEF Mem, MemOf
    <2>5. Mem'[k] = v  BY <1>3, <1>5, <2>3, Zenon
    <2>6. ASSUME NEW j \in Block, j # k PROVE Mem'[j] = Mem[j]
      <3>1. CASE \A c \in valid : blockno[c] # j  BY <2>2, <2>3, <3>1, Zenon
      <3>2. CASE \E c \in valid : blockno[c] = j
        <4>1. PICK c \in valid : blockno[c] = j  BY <3>2, Zenon
        <4>2. c # b  BY <2>6, <4>1, Zenon
        <4> QED  BY <1>5, <2>2, <2>3, <4>1, <4>2
      <3> QED  BY <3>1, <3>2, Zenon
    <2> HIDE DEF k
    <2> QED  BY <2>4, <2>5, <2>6, Zenon
  <1>9. ASSUME NEW q \in Proc \ {p}
        PROVE  ViewOf(blockno', data', Held(q)' \cap valid')
                 = ViewOf(blockno, data, Held(q) \cap valid)
    <2> DEFINE his == Held(q) \cap valid
    <2>1. OnePlace(blockno, his)  BY OwnPlace, Zenon
    <2>2. \A c \in his : blockno'[c] = blockno[c] /\ data'[c] = data[c]  BY <1>2, <1>5, <1>6, Zenon
    <2>3. ViewOf(blockno', data', his) = ViewOf(blockno, data, his)
      <3> HIDE DEF his
      <3> QED  BY <2>1, <2>2, ViewKept
    <2>4. Held(q)' \cap valid' = his  BY <1>2, <1>4, Zenon
    <2> QED  BY <2>3, <2>4, Zenon
  <1>10. ViewOf(blockno', data', Held(p)' \cap valid') = With(View[p], k, v)
    <2>1. own \cup {b} = own /\ Held(p)' \cap valid' = own  BY <1>2, <1>3, <1>4, Zenon
    <2>2. OnePlace(blockno, own \cup {b}) /\ \A c \in own \ {b} : data'[c] = data[c]
      BY <1>5, <2>1, OwnPlace, Zenon
    <2>3. ViewOf(blockno, data', own \cup {b}) = With(ViewOf(blockno, data, own), k, data'[b])
      <3>1. OnePlace(blockno, own \cup {b})  BY <2>2, Zenon
      <3>2. \A c \in own \ {b} : data'[c] = data[c]  BY <2>2, Zenon
      <3> DEFINE d == data'
      <3>3. \A c \in own \ {b} : d[c] = data[c]  BY <3>2, Zenon
      <3> HIDE DEF own, d
      <3>4. ViewOf(blockno, d, own \cup {b}) = With(ViewOf(blockno, data, own), blockno[b], d[b])
        BY <3>1, <3>3, ViewWith
      <3> QED  BY <3>4, Zenon DEF d
    <2> QED  BY <1>2, <1>5, <2>1, <2>3, ViewIs, Zenon
  <1>11. View' = [View EXCEPT ![p] = With(View[p], k, v)]  BY <1>9, <1>10, ViewOwn, Zenon
  <1>12. k \in DOMAIN View[p]
    <2>1. k \in BlocksOf(blockno, Held(p) \cap valid)  BY <1>3, Zenon DEF BlocksOf
    <2> QED  BY <2>1, ViewIs, Zenon
  <1> HIDE DEF k
  <1> QED  BY <1>3, <1>8, <1>11, <1>12, UpdateStep, Zenon DEF k

LEMMA brelseRefines ==
    ASSUME BioAssumption, IInv, IInv', NEW p \in Proc, brelse(p)
    PROVE  Store!StoreNext
  <1> DEFINE b == bp[p]
             k == blockno[b]
             own == Held(p) \cap valid
  <1>1. UNCHANGED <<blockno, data, valid, disk>> /\ pc[p] = "have"  BY Zenon DEF brelse, At
  <1>2. b \in Held(p) /\ b \in valid /\ b \in Buf /\ k \in Block
    BY <1>1, Zenon DEF IInv, IoInv, LocalInv, Held, Holding
  <1>3. Held(p)' = Held(p) \ {b} /\ \A q \in Proc \ {p} : Held(q)' = Held(q)
    BY brelseInv, Zenon DEF NowHolds
  <1> HIDE DEF b
  <1>4. Mem' = Mem  BY <1>1, Zenon DEF Mem
  <1>5. \A q \in Proc \ {p} : ViewOf(blockno', data', Held(q)' \cap valid')
                                = ViewOf(blockno, data, Held(q) \cap valid)
    BY <1>1, <1>3, Zenon
  <1>6. ViewOf(blockno', data', Held(p)' \cap valid') = Without(View[p], k)
    <2>1. Held(p)' \cap valid' = own \ {b}  BY <1>1, <1>3, Zenon
    <2>2. OnePlace(blockno, own) /\ b \in own  BY <1>2, OwnPlace, Zenon
    <2>3. ViewOf(blockno, data, own \ {b}) = Without(ViewOf(blockno, data, own), k)
      <3> HIDE DEF own
      <3> QED  BY <2>2, ViewWithout
    <2> QED  BY <1>1, <2>1, <2>3, ViewIs, Zenon
  <1>7. View' = [View EXCEPT ![p] = Without(View[p], k)]  BY <1>5, <1>6, ViewOwn, Zenon
  <1>8. k \in DOMAIN View[p]
    <2>1. k \in BlocksOf(blockno, Held(p) \cap valid)  BY <1>2, Zenon DEF BlocksOf
    <2> QED  BY <2>1, ViewIs, Zenon
  <1> HIDE DEF k
  <1> QED  BY <1>2, <1>4, <1>7, <1>8, DropStep, Zenon DEF k

(* Every other step only moves a process about.                            *)
LEMMA OthersRefine ==
    ASSUME BioAssumption, IInv, NEW p \in Proc,
           \/ bread(p) \/ NestedBread(p) \/ BgetSleep(p) \/ BgetPanic(p)
           \/ iderw(p) \/ IderwCheck(p) \/ bwrite(p) \/ log_write(p)
    PROVE  UNCHANGED <<Mem, View>>
  <1>1. UNCHANGED <<blockno, data, valid, disk>>
    BY Zenon DEF bread, NestedBread, BgetSleep, BgetPanic, iderw, IderwCheck, bwrite, log_write, buffers
  <1>2. \A q \in Proc : Held(q)' = Held(q)
    <2>1. CASE bread(p)  BY <2>1, breadInv, Zenon DEF NowHolds
    <2>2. CASE NestedBread(p)  BY <2>2, NestedBreadInv, Zenon DEF NowHolds
    <2>3. CASE BgetSleep(p)  BY <2>3, BgetSleepInv, Zenon DEF NowHolds
    <2>4. CASE BgetPanic(p)  BY <2>4, Zenon DEF BgetPanic, Held
    <2>5. CASE iderw(p)  BY <2>5, iderwInv, Zenon DEF NowHolds
    <2>6. CASE IderwCheck(p)  BY <2>6, IderwCheckInv, Zenon DEF NowHolds
    <2>7. CASE bwrite(p)  BY <2>7, bwriteInv, Zenon DEF NowHolds
    <2>8. CASE log_write(p)  BY <2>8, log_writeInv, Zenon DEF NowHolds
    <2> QED  BY <2>1, <2>2, <2>3, <2>4, <2>5, <2>6, <2>7, <2>8, Zenon
  <1> QED  BY <1>1, <1>2, QuietRefines, Zenon

LEMMA NextRefines ==
    ASSUME BioAssumption, Outcome = {"ok"}, IInv, DataInv, IInv', [Next]_vars
    PROVE  Store!StoreNext \/ UNCHANGED <<Mem, View>>
  <1>1. CASE UNCHANGED vars
    <2>1. UNCHANGED <<blockno, data, valid, disk, pc, bp, kept>>  BY <1>1, Zenon DEF vars, buffers
    <2>2. \A q \in Proc : Held(q)' = Held(q)  BY <2>1, Zenon DEF Held
    <2> QED  BY <2>1, <2>2, QuietRefines, Zenon
  <1>2. CASE ideintr  BY <1>2, ideintrRefines, Zenon
  <1>3. CASE Panic  BY <1>1, <1>3, Zenon DEF Panic
  <1>4. ASSUME NEW p \in Proc, BgetHit(p) \/ BgetRecycle(p) \/ Modify(p) \/ brelse(p)
        PROVE  Store!StoreNext \/ UNCHANGED <<Mem, View>>
    <2>1. CASE BgetHit(p)  BY <2>1, BgetHitRefines, Zenon
    <2>2. CASE BgetRecycle(p)  BY <2>2, BgetRecycleRefines, Zenon
    <2>3. CASE Modify(p)  BY <2>3, ModifyRefines, Zenon
    <2>4. CASE brelse(p)  BY <2>4, brelseRefines, Zenon
    <2> QED  BY <1>4, <2>1, <2>2, <2>3, <2>4, Zenon
  <1>5. ASSUME NEW p \in Proc,
               \/ bread(p) \/ NestedBread(p) \/ BgetSleep(p) \/ BgetPanic(p)
               \/ iderw(p) \/ IderwCheck(p) \/ bwrite(p) \/ log_write(p)
        PROVE  UNCHANGED <<Mem, View>>
    BY <1>5, OthersRefine, Zenon
  <1> QED  BY <1>1, <1>2, <1>3, <1>4, <1>5, Zenon DEF Next

LEMMA InitRefines == ASSUME BioAssumption, Init PROVE Store!StoreInit
  <1>1. valid = {} /\ disk \in [Block -> Value]  BY Zenon DEF Init
  <1>2. Mem \in [Block -> Value]  BY <1>1, Zenon DEF Mem, MemOf
  <1>3. View = [p \in Proc |-> <<>>]
    <2>1. \A p \in Proc : ViewOf(blockno, data, Held(p) \cap valid) = <<>>
      BY <1>1 DEF ViewOf
    <2> QED  BY <2>1, Zenon DEF View
  <1> QED  BY <1>2, <1>3, Zenon DEF Store!StoreInit, Mem, View, MemOf, ViewOf

----------------------------------------------------------------------------
LEMMA Inductive == ASSUME BioAssumption PROVE Spec => []IInv
  <1>1. Init => IInv  BY InitInv, Zenon
  <1>2. IInv /\ [Next]_vars => IInv'  BY NextInv, Zenon
  <1> QED  BY <1>1, <1>2, PTL DEF Spec

(* No lost wakeup in bget(): a process sleeps on a buffer only as long as  *)
(* another one holds it, whatever the number of buffers and of processes.  *)
THEOREM BioSleepersSafe == ASSUME BioAssumption PROVE Spec => []SleepersHaveReason
  <1>1. IInv => SleepersHaveReason  BY Zenon DEF IInv
  <1> QED  BY <1>1, Inductive, PTL

(* The disk's queue holds the requests of the processes asleep in iderw(), *)
(* each once: every one of them will be served and woken.                  *)
THEOREM BioQueueSound == ASSUME BioAssumption PROVE Spec => []QueueSound
  <1>1. IInv => QueueSound  BY Zenon DEF IInv, IoInv
  <1> QED  BY <1>1, Inductive, PTL

(* The assertions of iderw(), bwrite() and brelse() never fail, and bget() *)
(* panics only when every buffer is held or keeps a logged block.          *)
THEOREM BioPanicsOnlyWhenFull == ASSUME BioAssumption PROVE Spec => []PanicsOnlyWhenFull
  <1>1. IInv => PanicsOnlyWhenFull  BY Zenon DEF IInv
  <1> QED  BY <1>1, Inductive, PTL

(* The flags, the list, the queue and the locals keep their types, and     *)
(* brelse() never loses a buffer from the list.                            *)
THEOREM BioTypeCorrect == ASSUME BioAssumption PROVE Spec => []TypeOK
  <1>1. IInv => TypeOK  BY Zenon DEF IInv
  <1> QED  BY <1>1, Inductive, PTL

(* bio.c over ide.c implements a store of locked blocks: while the disk    *)
(* does not fail, whoever gets a block from bread() sees its last value,   *)
(* and alone, however many buffers there are and whichever of them are     *)
(* recycled.                                                               *)
THEOREM BioRefinesBlockStore ==
    ASSUME BioAssumption, Outcome = {"ok"}
    PROVE  Spec => ImplementsBlockStore
  <1>1. Init => IInv /\ DataInv  BY InitInv, Zenon
  <1>2. IInv /\ DataInv /\ [Next]_vars => IInv' /\ DataInv'  BY NextInv, Zenon
  <1>3. Init => Store!StoreInit  BY InitRefines, Zenon
  <1>4. IInv /\ DataInv /\ IInv' /\ [Next]_vars => [Store!StoreNext]_(Store!storeVars)
    <2> SUFFICES ASSUME IInv, DataInv, IInv', [Next]_vars
                 PROVE  [Store!StoreNext]_(Store!storeVars)
      BY Zenon
    <2>1. Store!StoreNext \/ UNCHANGED <<Mem, View>>  BY NextRefines, Zenon
    <2>2. UNCHANGED <<Mem, View>> => UNCHANGED Store!storeVars
      BY Zenon DEF Store!storeVars, Mem, View, MemOf, ViewOf
    <2> QED  BY <2>1, <2>2, Zenon
  <1> QED  BY <1>1, <1>2, <1>3, <1>4, PTL DEF Spec, ImplementsBlockStore, Store!StoreSpec
=============================================================================
