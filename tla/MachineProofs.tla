--------------------------- MODULE MachineProofs ---------------------------
(***************************************************************************)
(* Proofs about three small parts of the machine: the console, the clock   *)
(* and the start of the processors.                                        *)
(*                                                                         *)
(* The console's ring never overflows, is never full with nothing to read, *)
(* and no reader sleeps beside input, for any number of readers, size of   *)
(* the ring and width of the indices that ConsoleAssumption allows.  The   *)
(* inductive invariant orders the indices by their distance from r: w is   *)
(* no further than e, e no further than the size of the ring.              *)
(***************************************************************************)
EXTENDS Console, Lemmas

Index == 0 .. UINT - 1

Types ==
    /\ r \in Index /\ w \in Index /\ e \in Index
    /\ pc \in [Reader -> {"idle", "test", "sleep", "asleep", "more"}]
    /\ lock \in Reader \cup {NoReader}

(* From the test of r == w to sleep(), and while it copies, a reader has   *)
(* cons.lock.                                                              *)
Holds == \A p \in Reader : pc[p] \in {"sleep", "more"} => lock = p

Waits == \A p \in Reader : pc[p] \in {"sleep", "asleep"} => r = w

Ordered == Sub(w, r) <= Sub(e, r) /\ Sub(e, r) <= INPUT_BUF /\ FullIsReady

IInv == Types /\ Holds /\ Waits /\ Ordered

----------------------------------------------------------------------------
(* The distance of two indices, without %.                                 *)
LEMMA Distance ==
    ASSUME ConsoleAssumption, NEW i \in Index, NEW j \in Index
    PROVE  Sub(i, j) = IF j <= i THEN i - j ELSE i - j + UINT
  <1>1. UINT \in Nat \ {0} /\ i - j \in Int  BY DEF ConsoleAssumption, Index
  <1>2. CASE j <= i
    <2>1. i - j \in 0 .. UINT - 1  BY <1>1, <1>2 DEF Index
    <2> QED  BY <1>1, <1>2, <2>1, ModSmall DEF Sub
  <1>3. CASE ~(j <= i)
    <2>1. i - j < 0 /\ -UINT <= i - j  BY <1>1, <1>3 DEF Index
    <2> QED  BY <1>1, <1>3, <2>1, ModBelow DEF Sub
  <1> QED  BY <1>2, <1>3

(* An index moved forward by at most the size of the ring, without %.      *)
LEMMA Forward ==
    ASSUME ConsoleAssumption, NEW i \in Index, NEW k \in 0 .. UINT - 1
    PROVE  Add(i, k) = IF i + k < UINT THEN i + k ELSE (i + k) - UINT
  <1>1. UINT \in Nat \ {0} /\ i + k \in Int  BY DEF ConsoleAssumption, Index
  <1>2. CASE i + k < UINT
    <2>1. i + k \in 0 .. UINT - 1  BY <1>1, <1>2 DEF Index
    <2> QED  BY <1>1, <1>2, <2>1, ModSmall DEF Add
  <1>3. CASE ~(i + k < UINT)
    <2>1. UINT <= i + k /\ i + k < UINT + UINT  BY <1>1, <1>3 DEF Index
    <2>2. (i + k) % UINT = (i + k) - UINT  BY <1>1, <2>1, ModAbove
    <2> QED  BY <1>3, <2>2 DEF Add
  <1> QED  BY <1>2, <1>3

(* An index is where its distance from another one says.                   *)
LEMMA Place ==
    ASSUME NEW u \in Nat, NEW x \in 0 .. u - 1, NEW y \in 0 .. u - 1, NEW b \in Nat, b < u,
           b = IF y <= x THEN x - y ELSE x - y + u
    PROVE  x = IF y + b < u THEN y + b ELSE (y + b) - u
  OBVIOUS

----------------------------------------------------------------------------
(* Init.                                                                   *)
LEMMA InitInv == ConsoleAssumption /\ Init => IInv
  <1> SUFFICES ASSUME ConsoleAssumption, Init PROVE IInv  OBVIOUS
  <1>1. Types  BY DEF ConsoleAssumption, Init, Types, Index
  <1>2. Holds /\ Waits  BY DEF Init, Holds, Waits
  <1>3. Ordered
    <2>1. Sub(0, 0) = 0  BY Distance DEF ConsoleAssumption, Index
    <2> QED  BY <2>1 DEF ConsoleAssumption, Init, Ordered, FullIsReady
  <1> QED  BY <1>1, <1>2, <1>3 DEF IInv

(* A character goes into the ring (consoleintr()), in either mode.         *)
LEMMA PutInv ==
    ASSUME ConsoleAssumption, IInv, lock = NoReader, UNCHANGED lock,
           NEW c, NEW finish \in BOOLEAN, Put(c, finish),
           Add(e, 1) = Add(r, INPUT_BUF) => finish
    PROVE  IInv'
  <1>1. e' = Add(e, 1) /\ r' = r /\ Sub(e, r) < INPUT_BUF  BY DEF Put, HasRoom
  <1>2. w' = IF finish THEN e' ELSE w  BY <1>1 DEF Put
  <1>3. 1 \in 0 .. UINT - 1 /\ INPUT_BUF \in 0 .. UINT - 1  BY DEF ConsoleAssumption
  <1>4. r \in Index /\ w \in Index /\ e \in Index /\ UINT \in Nat
    BY DEF IInv, Types, ConsoleAssumption
  <1>5. e' \in Index /\ w' \in Index
    BY <1>1, <1>2, <1>3, <1>4, Forward DEF Index
  <1>6. Types'
    <2>1. pc' \in [Reader -> {"idle", "test", "sleep", "asleep", "more"}]
      BY DEF Put, Wakeup, IInv, Types
    <2> QED  BY <1>1, <1>4, <1>5, <2>1 DEF IInv, Types
  <1>7. Holds'
    BY DEF Put, Wakeup, IInv, Types, Holds
  <1>8. Waits'
    BY DEF Put, Wakeup, IInv, Types, Holds, Waits, ConsoleAssumption
  <1>9. Ordered'
    <2> DEFINE d == Sub(e, r)  d2 == Sub(e', r)  full == Add(r, INPUT_BUF)
    <2>a. d = IF r <= e THEN e - r ELSE e - r + UINT  BY <1>4, Distance
    <2>b. d2 = IF r <= e' THEN e' - r ELSE e' - r + UINT  BY <1>4, <1>5, Distance
    <2>c. e' = IF e + 1 < UINT THEN e + 1 ELSE (e + 1) - UINT  BY <1>1, <1>3, <1>4, Forward
    <2>d. full = IF r + INPUT_BUF < UINT THEN r + INPUT_BUF ELSE (r + INPUT_BUF) - UINT
      BY <1>3, <1>4, Forward
    <2>e. d < INPUT_BUF /\ INPUT_BUF \in Nat \ {0} /\ INPUT_BUF < UINT
      BY <1>1 DEF ConsoleAssumption
    <2> HIDE DEF d, d2, full
    <2>f. d2 = d + 1  BY <1>4, <2>a, <2>b, <2>c, <2>e DEF Index
    <2>g. d2 = INPUT_BUF => e' = full  BY <1>4, <1>5, <2>b, <2>d, <2>e, Place DEF Index
    <2>1. Sub(e', r) = Sub(e, r) + 1  BY <2>f DEF d, d2
    <2>2. Sub(e', r) = INPUT_BUF => e' = Add(r, INPUT_BUF)  BY <2>g DEF d2, full
    <2>3. Sub(e, r) \in Int /\ Sub(w, r) \in Int
      BY <1>4, Distance DEF Index
    <2>4. CASE finish
      BY <1>1, <1>2, <2>1, <2>3, <2>4 DEF IInv, Ordered, FullIsReady, ConsoleAssumption, Sub
    <2>5. CASE ~finish
      BY <1>1, <1>2, <2>1, <2>2, <2>3, <2>5 DEF IInv, Ordered, FullIsReady, ConsoleAssumption, Sub
    <2> QED  BY <2>4, <2>5
  <1> QED  BY <1>6, <1>7, <1>8, <1>9 DEF IInv

(* Backspace and ^U move e back, no further than w.                        *)
LEMMA EditInv ==
    ASSUME ConsoleAssumption, IInv, UNCHANGED lock, Erase \/ KillLine
    PROVE  IInv'
  <1>1. r' = r /\ w' = w /\ pc' = pc /\ e # w  BY DEF Erase, KillLine
  <1>2. r \in Index /\ w \in Index /\ e \in Index /\ UINT \in Nat
    BY DEF IInv, Types, ConsoleAssumption
  <1>3. PICK k \in 0 .. Sub(e, w) : e' = Add(w, k)
    <2>1. CASE Erase
      <3>1. e' = Sub(e, 1)  BY <2>1 DEF Erase
      <3>2. Sub(e, w) \in 1 .. UINT - 1  BY <1>1, <1>2, Distance DEF Index
      <3>3. Sub(e, 1) = Add(w, Sub(e, w) - 1)
        <4> DEFINE d == Sub(e, w)  back == Sub(e, 1)  to == Add(w, d - 1)
        <4>1. d = IF w <= e THEN e - w ELSE e - w + UINT  BY <1>2, Distance
        <4>2. back = IF 1 <= e THEN e - 1 ELSE e - 1 + UINT
          <5>1. 1 \in Index  BY DEF Index, ConsoleAssumption
          <5> QED  BY <1>2, <5>1, Distance
        <4>3. d - 1 \in 0 .. UINT - 1  BY <1>2, <3>2
        <4>4. to = IF w + (d - 1) < UINT THEN w + (d - 1) ELSE (w + (d - 1)) - UINT
          BY <1>2, <4>3, Forward
        <4> HIDE DEF d, back, to
        <4>5. back = to  BY <1>1, <1>2, <4>1, <4>2, <4>4 DEF Index
        <4> QED  BY <4>5 DEF d, back, to
      <3> QED  BY <3>1, <3>2, <3>3
    <2>2. CASE KillLine  BY <2>2 DEF KillLine
    <2> QED  BY <2>1, <2>2
  <1>4. Sub(e, w) \in 0 .. UINT - 1  BY <1>2, Distance DEF Index
  <1>5. e' \in Index  BY <1>2, <1>3, <1>4, Forward DEF Index
  <1>6. Sub(w, r) <= Sub(e', r) /\ Sub(e', r) <= Sub(e, r)
    <2> DEFINE er == Sub(e, r)  wr == Sub(w, r)  ew == Sub(e, w)  er2 == Sub(e', r)
    <2>1. er = IF r <= e THEN e - r ELSE e - r + UINT  BY <1>2, Distance
    <2>2. wr = IF r <= w THEN w - r ELSE w - r + UINT  BY <1>2, Distance
    <2>3. ew = IF w <= e THEN e - w ELSE e - w + UINT  BY <1>2, Distance
    <2>4. er2 = IF r <= e' THEN e' - r ELSE e' - r + UINT  BY <1>2, <1>5, Distance
    <2>5. k \in 0 .. UINT - 1 /\ k <= ew  BY <1>2, <1>3, <1>4
    <2>6. e' = IF w + k < UINT THEN w + k ELSE (w + k) - UINT  BY <1>2, <1>3, <2>5, Forward
    <2>7. wr <= er  BY DEF IInv, Ordered
    <2> HIDE DEF er, wr, ew, er2
    <2>8. er = wr + ew /\ er < UINT /\ wr \in Nat /\ ew \in Nat
      BY <1>2, <2>1, <2>2, <2>3, <2>7 DEF Index
    <2>9. er2 = wr + k  BY <1>2, <2>2, <2>4, <2>5, <2>6, <2>8 DEF Index
    <2>10. wr <= er2 /\ er2 <= er  BY <1>2, <2>5, <2>8, <2>9
    <2> QED  BY <2>10 DEF er, wr, er2
  <1>7. Sub(e, r) # INPUT_BUF  BY <1>1 DEF IInv, Ordered, FullIsReady
  <1>8. Sub(e, r) \in Int /\ Sub(e', r) \in Int
    <2>1. Sub(e, r) \in Int  BY <1>2, Distance DEF Index
    <2>2. Sub(e', r) = IF r <= e' THEN e' - r ELSE e' - r + UINT  BY <1>2, <1>5, Distance
    <2>3. Sub(e', r) \in Int  BY <1>2, <1>5, <2>2 DEF Index
    <2> QED  BY <2>1, <2>3
  <1>9. Ordered'
    BY <1>1, <1>6, <1>7, <1>8 DEF IInv, Ordered, FullIsReady, ConsoleAssumption, Sub
  <1>10. Types' /\ Holds' /\ Waits'
    BY <1>1, <1>5 DEF IInv, Types, Holds, Waits
  <1> QED  BY <1>9, <1>10 DEF IInv

(* consoleread() takes a character or ^D: r moves on, no further than w.   *)
LEMMA TakeInv ==
    ASSUME ConsoleAssumption, IInv, NEW p \in Reader, readTake(p)
    PROVE  IInv'
  <1>1. /\ r' \in {r, Add(r, 1)} /\ w' = w /\ e' = e /\ r # w
        /\ pc[p] = "test" /\ lock \in {NoReader, p}
    BY DEF readTake, SaveEof, Tests
  <1>2. r \in Index /\ w \in Index /\ e \in Index /\ UINT \in Nat /\ 1 \in 0 .. UINT - 1
    BY DEF IInv, Types, ConsoleAssumption
  <1>3. r' \in Index  BY <1>1, <1>2, Forward DEF Index
  <1>4. \/ pc' = [pc EXCEPT ![p] = "idle"] /\ lock' = NoReader
        \/ pc' = [pc EXCEPT ![p] = "more"] /\ lock' = p
    BY DEF readTake, Return, Goto
  <1>5. \A q \in Reader : q # p => pc[q] \notin {"sleep", "more"}
    BY <1>1 DEF IInv, Holds, ConsoleAssumption
  <1>6. Types' /\ Holds'
    BY <1>1, <1>2, <1>3, <1>4, <1>5 DEF IInv, Types, Holds
  <1>7. Waits'
    BY <1>1, <1>4, <1>5 DEF IInv, Types, Waits
  <1>8. Ordered'
    <2>1. CASE r' = r  BY <1>1, <2>1 DEF IInv, Ordered, FullIsReady, Sub
    <2>2. CASE r' = Add(r, 1)
      <3> DEFINE wr == Sub(w, r)  er == Sub(e, r)  wr2 == Sub(w, r')  er2 == Sub(e, r')
      <3>a. wr = IF r <= w THEN w - r ELSE w - r + UINT  BY <1>2, Distance
      <3>b. er = IF r <= e THEN e - r ELSE e - r + UINT  BY <1>2, Distance
      <3>c. wr2 = IF r' <= w THEN w - r' ELSE w - r' + UINT  BY <1>2, <1>3, Distance
      <3>d. er2 = IF r' <= e THEN e - r' ELSE e - r' + UINT  BY <1>2, <1>3, Distance
      <3>e. r' = IF r + 1 < UINT THEN r + 1 ELSE (r + 1) - UINT  BY <1>2, <2>2, Forward
      <3>f. wr <= er  BY DEF IInv, Ordered
      <3> HIDE DEF wr, er, wr2, er2
      <3>g. wr \in 1 .. UINT - 1 /\ er \in 1 .. UINT - 1
        BY <1>1, <1>2, <3>a, <3>b, <3>f DEF Index
      <3>h. wr2 = wr - 1 /\ er2 = er - 1
        BY <1>1, <1>2, <3>a, <3>b, <3>c, <3>d, <3>e, <3>g DEF Index
      <3>1. Sub(w, r) \in 1 .. UINT - 1 /\ Sub(e, r) \in 1 .. UINT - 1  BY <3>g DEF wr, er
      <3>2. Sub(w, r') = Sub(w, r) - 1 /\ Sub(e, r') = Sub(e, r) - 1
        BY <3>h DEF wr, er, wr2, er2
      <3> QED
        BY <1>1, <3>1, <3>2 DEF IInv, Ordered, FullIsReady, ConsoleAssumption, Sub
    <2> QED  BY <1>1, <2>1, <2>2
  <1> QED  BY <1>6, <1>7, <1>8 DEF IInv

(* The other steps leave the indices alone.                                *)
LEMMA CallInv ==
    ASSUME ConsoleAssumption, IInv, NEW p \in Reader,
           consoleread(p) \/ readEmpty(p) \/ readSleep(p) \/ readMore(p) \/ kill(p)
    PROVE  IInv'
  <1>1. r' = r /\ w' = w /\ e' = e
    BY DEF consoleread, readEmpty, readSleep, readMore, kill, ring
  <1>2. Types'
    BY <1>1 DEF consoleread, readEmpty, readSleep, readMore, kill, Return, Goto, IInv, Types
  <1>3. Holds'
    BY DEF consoleread, readEmpty, readSleep, readMore, kill, Tests, Return, Goto, IInv,
       Types, Holds, ConsoleAssumption
  <1>4. Waits'
    BY <1>1 DEF consoleread, readEmpty, readSleep, readMore, kill, Tests, Return, Goto, IInv,
       Types, Holds, Waits
  <1>5. Ordered'  BY <1>1 DEF IInv, Ordered, FullIsReady, Sub
  <1> QED  BY <1>2, <1>3, <1>4, <1>5 DEF IInv

(* Every step keeps the invariant.                                         *)
LEMMA NextInv == ConsoleAssumption /\ IInv /\ [Next]_vars => IInv'
  <1> SUFFICES ASSUME ConsoleAssumption, IInv, [Next]_vars PROVE IInv'  OBVIOUS
  <1>1. CASE consoleintr
    <2>1. lock = NoReader /\ UNCHANGED lock  BY <1>1 DEF consoleintr
    <2>2. CASE Erase \/ KillLine  BY <2>1, <2>2, EditInv
    <2>3. ASSUME NEW c \in Char, Put(Cooked(c), Finishes(Cooked(c))) PROVE IInv'
      <3>1. /\ Finishes(Cooked(c)) \in BOOLEAN
            /\ Add(e, 1) = Add(r, INPUT_BUF) => Finishes(Cooked(c))
        BY DEF Finishes
      <3> QED  BY <2>1, <2>3, <3>1, PutInv
    <2>4. ASSUME NEW c \in Char, Put(c, TRUE) PROVE IInv'
      BY <2>1, <2>4, PutInv
    <2> QED  BY <1>1, <2>2, <2>3, <2>4 DEF consoleintr
  <1>2. CASE consoleioctl
    BY <1>2 DEF consoleioctl, ring, IInv, Types, Holds, Waits, Ordered, FullIsReady, Sub
  <1>3. ASSUME NEW p \in Reader, readTake(p) PROVE IInv'  BY <1>3, TakeInv
  <1>4. ASSUME NEW p \in Reader,
               consoleread(p) \/ readEmpty(p) \/ readSleep(p) \/ readMore(p) \/ kill(p)
        PROVE  IInv'
    BY <1>4, CallInv
  <1>5. CASE UNCHANGED vars
    BY <1>5 DEF vars, ring, IInv, Types, Holds, Waits, Ordered, FullIsReady, Sub
  <1> QED  BY <1>1, <1>2, <1>3, <1>4, <1>5 DEF Next

(* consoleread() sleeps only while there is nothing to read, and a full    *)
(* ring always has something to read, so that typing can go on.            *)
THEOREM ConsoleSafe ==
    ASSUME ConsoleAssumption
    PROVE  Spec => [](SleepersHaveReason /\ FullIsReady)
  <1>1. Init => IInv  BY InitInv
  <1>2. IInv /\ [Next]_vars => IInv'  BY NextInv
  <1>3. IInv => SleepersHaveReason /\ FullIsReady
    BY DEF IInv, Waits, Ordered, SleepersHaveReason
  <1> QED  BY <1>1, <1>2, <1>3, PTL DEF Spec

----------------------------------------------------------------------------
(* The clock.  sys_sleep() sleeps its time and kill() ends it, for any     *)
(* number of processes, width of ticks and times that TicksAssumption      *)
(* allows.  The inductive invariant ties the wrapped difference            *)
(* ticks - ticks0 to the ticks that really passed, and bounds those by how *)
(* late the process may be at its test.                                    *)
CONSTANTS Proc, Naps, MaxLag
VARIABLES ticks, tpc, ticks0, nap, tkilled, since, lag, doomed
T == INSTANCE Ticks WITH pc <- tpc, n <- nap, killed <- tkilled

Nap(p) == nap[p] % UINT

TickTypes ==
    /\ ticks \in 0 .. UINT - 1 /\ tkilled \subseteq Proc
    /\ tpc \in [Proc -> {"idle", "test", "sleep", "asleep"}]
    /\ ticks0 \in [Proc -> 0 .. UINT - 1] /\ nap \in [Proc -> Int]
    /\ since \in [Proc -> Nat] /\ lag \in [Proc -> Nat] /\ doomed \in [Proc -> Nat]

(* What holds of a process that is in sys_sleep().                         *)
Elapsed(p) ==
    /\ nap[p] \in Naps
    /\ ticks = ticks0[p] + since[p] \/ ticks = ticks0[p] + since[p] - UINT
    /\ tpc[p] = "test" => lag[p] <= MaxLag /\ since[p] <= Nap(p) + lag[p]
    /\ tpc[p] # "test" => since[p] < Nap(p)

Doom(p) ==
    /\ doomed[p] > 0 => p \in tkilled
    /\ IF tpc[p] = "test" THEN lag[p] <= MaxLag /\ doomed[p] <= 1 + lag[p] ELSE doomed[p] = 0
    /\ tpc[p] = "asleep" => lag[p] = 0

TickInv == TickTypes /\ \A p \in Proc : (tpc[p] # "idle" => Elapsed(p)) /\ Doom(p)

(* The unsigned difference in sys_sleep() is the number of ticks passed.   *)
LEMMA Difference ==
    ASSUME T!TicksAssumption, TickInv, NEW p \in Proc, tpc[p] # "idle"
    PROVE  /\ (ticks - ticks0[p]) % UINT = since[p]
           /\ Nap(p) \in 0 .. UINT - 1 /\ Nap(p) + MaxLag < UINT
  <1>1. UINT \in Nat \ {0} /\ MaxLag \in Nat /\ nap[p] \in Int
    BY DEF T!TicksAssumption, TickInv, TickTypes
  <1>2. Nap(p) \in 0 .. UINT - 1  BY <1>1, DivMod DEF Nap
  <1>3. Nap(p) + MaxLag < UINT  BY DEF T!TicksAssumption, TickInv, Elapsed, Nap
  <1>4. since[p] \in 0 .. UINT - 1 /\ ticks - ticks0[p] \in Int
    BY <1>1, <1>2, <1>3 DEF TickInv, TickTypes, Elapsed
  <1>5. CASE ticks = ticks0[p] + since[p]
    <2>1. ticks - ticks0[p] = since[p]  BY <1>1, <1>5 DEF TickInv, TickTypes
    <2> QED  BY <1>1, <1>2, <1>3, <1>4, <2>1, ModSmall
  <1>6. CASE ticks = ticks0[p] + since[p] - UINT
    <2>1. /\ ticks - ticks0[p] = since[p] - UINT
          /\ since[p] - UINT < 0 /\ -UINT <= since[p] - UINT /\ since[p] - UINT + UINT = since[p]
      BY <1>1, <1>4, <1>6 DEF TickInv, TickTypes
    <2> QED  BY <1>1, <1>2, <1>3, <1>4, <2>1, ModBelow
  <1> QED  BY <1>5, <1>6 DEF TickInv, Elapsed

(* One tick: the clock wraps at UINT.                                      *)
LEMMA OneTick ==
    ASSUME T!TicksAssumption, TickTypes
    PROVE  /\ (ticks + 1) % UINT \in 0 .. UINT - 1
           /\ (ticks + 1) % UINT = ticks + 1 \/ (ticks + 1) % UINT = ticks + 1 - UINT
  <1>1. UINT \in Nat \ {0} /\ ticks \in 0 .. UINT - 1  BY DEF T!TicksAssumption, TickTypes
  <1>2. CASE ticks + 1 < UINT
    <2>1. ticks + 1 \in 0 .. UINT - 1  BY <1>1, <1>2
    <2> QED  BY <1>1, <2>1, ModSmall
  <1>3. CASE ~(ticks + 1 < UINT)
    <2>1. ticks + 1 \in Int /\ UINT <= ticks + 1 /\ ticks + 1 < UINT + UINT /\ ticks + 1 - UINT = 0
      BY <1>1, <1>3
    <2>2. (ticks + 1) % UINT = ticks + 1 - UINT  BY <1>1, <2>1, ModAbove
    <2> QED  BY <1>1, <2>1, <2>2
  <1> QED  BY <1>2, <1>3

(* Init.                                                                   *)
LEMMA TickInit == T!TicksAssumption /\ T!Init => TickInv
  BY DEF T!TicksAssumption, T!Init, T!Zero, TickInv, TickTypes, Doom

(* The timer interrupt.                                                    *)
LEMMA TimerInv == T!TicksAssumption /\ TickInv /\ T!timer => TickInv'
  <1> SUFFICES ASSUME T!TicksAssumption, TickInv, T!timer PROVE TickInv'  OBVIOUS
  <1>1. UINT \in Nat \ {0} /\ MaxLag \in Nat  BY DEF T!TicksAssumption
  <1>2. TickTypes'  BY OneTick DEF TickInv, TickTypes, T!timer
  <1>3. ASSUME NEW p \in Proc, tpc'[p] # "idle" PROVE Elapsed(p)'
    <2>1. tpc[p] \in {"test", "asleep"} /\ tpc'[p] = "test"
      BY <1>3 DEF TickInv, TickTypes, T!timer
    <2>2. Elapsed(p) /\ since[p] \in Nat /\ lag[p] \in Nat /\ ticks0[p] \in 0 .. UINT - 1
      BY <2>1 DEF TickInv, TickTypes
    <2>3. /\ since'[p] = since[p] + 1 /\ nap' = nap /\ ticks0' = ticks0 /\ ticks' = (ticks + 1) % UINT
          /\ lag'[p] = IF tpc[p] = "test" THEN lag[p] + 1 ELSE 0
          /\ tpc[p] = "test" => lag[p] < MaxLag
      BY <2>1 DEF T!timer
    <2>4. Nap(p) \in 0 .. UINT - 1 /\ Nap(p) + MaxLag < UINT /\ Nap(p)' = Nap(p)
      BY <2>1, <2>3, Difference DEF Nap
    <2>5. since'[p] <= Nap(p) + lag'[p] /\ lag'[p] <= MaxLag
      BY <1>1, <2>1, <2>2, <2>3, <2>4 DEF Elapsed
    <2>6. ticks' = ticks0[p] + since'[p] \/ ticks' = ticks0[p] + since'[p] - UINT
      <3>1. ticks' \in 0 .. UINT - 1 /\ (ticks' = ticks + 1 \/ ticks' = ticks + 1 - UINT)
        BY <2>3, OneTick DEF TickInv
      <3>2. since[p] + 1 < UINT  BY <1>1, <2>2, <2>3, <2>4, <2>5, SMTT(30) DEF TickInv, TickTypes
      <3> QED  BY <1>1, <2>2, <2>3, <3>1, <3>2 DEF Elapsed, TickInv, TickTypes
    <2> QED  BY <2>1, <2>2, <2>3, <2>4, <2>5, <2>6 DEF Elapsed
  <1>4. ASSUME NEW p \in Proc PROVE Doom(p)'
    <2>1. Doom(p) /\ doomed[p] \in Nat /\ lag[p] \in Nat /\ tpc[p] \in {"idle", "test", "asleep"}
      BY DEF TickInv, TickTypes, T!timer
    <2>2. /\ tpc'[p] = IF tpc[p] = "asleep" THEN "test" ELSE tpc[p]
          /\ lag'[p] = IF tpc[p] = "test" THEN lag[p] + 1 ELSE 0
          /\ doomed'[p] = IF tpc[p] # "idle" /\ p \in tkilled THEN doomed[p] + 1 ELSE 0
          /\ tpc[p] = "test" => lag[p] < MaxLag
          /\ tkilled' = tkilled
      BY DEF T!timer
    <2> QED  BY <1>1, <2>1, <2>2 DEF Doom
  <1> QED  BY <1>2, <1>3, <1>4 DEF TickInv

(* The steps of one process change nothing of the others but pc's type.    *)
LEMMA SleepInv == T!TicksAssumption /\ TickInv /\ (\E p \in Proc :
    T!sys_sleep(p) \/ T!sleepOver(p) \/ T!sleepKilled(p) \/ T!sleepTest(p) \/ T!sleep(p) \/ T!kill(p)) => TickInv'
  <1> SUFFICES ASSUME T!TicksAssumption, TickInv, NEW p \in Proc,
                      T!sys_sleep(p) \/ T!sleepOver(p) \/ T!sleepKilled(p) \/ T!sleepTest(p)
                      \/ T!sleep(p) \/ T!kill(p)
               PROVE  TickInv'
    OBVIOUS
  <1>1. UINT \in Nat \ {0} /\ MaxLag \in Nat /\ Naps \subseteq Int  BY SMTT(30) DEF T!TicksAssumption
  <1>2. ASSUME NEW q \in Proc, q # p, TickTypes', ticks' = ticks, q \in tkilled' <=> q \in tkilled,
               tpc'[q] = tpc[q], ticks0'[q] = ticks0[q], nap'[q] = nap[q],
               since'[q] = since[q], lag'[q] = lag[q], doomed'[q] = doomed[q]
        PROVE  (tpc'[q] # "idle" => Elapsed(q)') /\ Doom(q)'
    BY <1>2, SMTT(30) DEF TickInv, Elapsed, Doom, Nap
  <1>3. CASE T!sys_sleep(p)
    <2>1. TickTypes'  BY <1>1, <1>3 DEF TickInv, TickTypes, T!sys_sleep, T!Goto
    <2>2. /\ nap'[p] \in Naps /\ ticks0'[p] = ticks /\ since'[p] = 0 /\ lag'[p] = 0
          /\ tpc'[p] = "test" /\ doomed'[p] = doomed[p] /\ doomed[p] = 0 /\ ticks' = ticks
          /\ tkilled' = tkilled
      BY <1>3, SMTT(30) DEF T!sys_sleep, T!Goto, TickInv, TickTypes, Doom
    <2>3. Nap(p)' \in 0 .. UINT - 1  BY <1>1, <2>2, DivMod, ZenonT(30) DEF Nap
    <2>4. Elapsed(p)' /\ Doom(p)'
      <3>1. ticks' \in Int /\ ticks' = ticks0'[p] + since'[p]  BY <2>2 DEF TickInv, TickTypes
      <3>2. since'[p] <= Nap(p)' + lag'[p] /\ lag'[p] <= MaxLag
        <4>1. PICK k \in Nat : Nap(p)' = k  BY <1>1, <2>3
        <4>2. 0 <= k + 0 /\ 0 <= MaxLag  BY <1>1
        <4> QED  BY <2>2, <4>1, <4>2, Zenon
      <3>3. Elapsed(p)'  BY <2>2, <3>1, <3>2, ZenonT(30) DEF Elapsed
      <3>4. Doom(p)'
        <4>1. ~ (0 > 0) /\ 0 <= 1 + 0  OBVIOUS
        <4>2. ~ (doomed'[p] > 0) /\ doomed'[p] <= 1 + lag'[p] /\ tpc'[p] # "asleep"
          BY <2>2, <4>1, Zenon
        <4> QED  BY <2>2, <3>2, <4>2, Zenon DEF Doom
      <3> QED  BY <3>3, <3>4
    <2>5. ASSUME NEW q \in Proc, q # p PROVE (tpc'[q] # "idle" => Elapsed(q)') /\ Doom(q)'
      BY <1>2, <1>3, <2>1, <2>5, SMTT(30) DEF T!sys_sleep, T!Goto, TickInv, TickTypes
    <2> QED  BY <2>1, <2>4, <2>5 DEF TickInv
  <1>4. CASE T!sleepOver(p) \/ T!sleepKilled(p)
    <2>1. T!Return(p)  BY <1>4 DEF T!sleepOver, T!sleepKilled
    <2>2. TickTypes'  BY <1>1, <2>1 DEF TickInv, TickTypes, T!Return, T!Goto
    <2>3. tpc'[p] = "idle" /\ doomed'[p] = 0  BY <2>1, SMTT(30) DEF T!Return, T!Goto, TickInv, TickTypes
    <2>4. Doom(p)'  BY <2>3 DEF Doom
    <2>5. ASSUME NEW q \in Proc, q # p PROVE (tpc'[q] # "idle" => Elapsed(q)') /\ Doom(q)'
      BY <1>2, <2>1, <2>2, <2>5, SMTT(30) DEF T!Return, T!Goto, TickInv, TickTypes
    <2> QED  BY <2>2, <2>3, <2>4, <2>5 DEF TickInv
  <1>5. CASE T!sleepTest(p)
    <2>1. TickTypes'  BY <1>5 DEF TickInv, TickTypes, T!sleepTest, T!Goto
    <2>2. tpc[p] = "test" /\ tpc'[p] = "sleep" /\ p \notin tkilled /\ T!TooEarly(p)
          /\ UNCHANGED <<ticks, ticks0, nap, tkilled, since, lag, doomed>>
      BY <1>5, SMTT(30) DEF T!sleepTest, T!Goto, T!GivesUp, TickInv, TickTypes
    <2>3. since[p] < Nap(p)  BY <2>2, Difference, SMTT(30) DEF T!TooEarly, Nap
    <2>4. Elapsed(p)'  BY <2>2, <2>3 DEF Elapsed, TickInv, Nap
    <2>5. Doom(p)'  BY <2>2, SMTT(30) DEF Doom, TickInv, TickTypes
    <2>6. ASSUME NEW q \in Proc, q # p PROVE (tpc'[q] # "idle" => Elapsed(q)') /\ Doom(q)'
      BY <1>2, <1>5, <2>1, <2>2, <2>6, SMTT(30) DEF T!sleepTest, T!Goto, TickInv, TickTypes
    <2> QED  BY <2>1, <2>4, <2>5, <2>6 DEF TickInv
  <1>6. CASE T!sleep(p)
    <2>1. TickTypes'  BY <1>6 DEF TickInv, TickTypes, T!sleep, T!Goto
    <2>2. tpc[p] = "sleep" /\ tpc'[p] = "asleep" /\ lag'[p] = 0
          /\ UNCHANGED <<ticks, ticks0, nap, tkilled, since, doomed>>
      BY <1>6, SMTT(30) DEF T!sleep, T!Goto, TickInv, TickTypes
    <2>3. Elapsed(p)' /\ Doom(p)'  BY <2>2 DEF Elapsed, Doom, TickInv, Nap
    <2>4. ASSUME NEW q \in Proc, q # p PROVE (tpc'[q] # "idle" => Elapsed(q)') /\ Doom(q)'
      BY <1>2, <1>6, <2>1, <2>2, <2>4, SMTT(30) DEF T!sleep, T!Goto, TickInv, TickTypes
    <2> QED  BY <2>1, <2>3, <2>4 DEF TickInv
  <1>7. CASE T!kill(p)
    <2>1. TickTypes'  BY <1>7 DEF TickInv, TickTypes, T!kill
    <2>2. /\ p \in tkilled' /\ UNCHANGED <<ticks, ticks0, nap, since, lag, doomed>>
          /\ tpc'[p] = IF tpc[p] = "asleep" THEN "test" ELSE tpc[p]
          /\ \A q \in Proc : q # p => tpc'[q] = tpc[q] /\ (q \in tkilled' <=> q \in tkilled)
      BY <1>7, SMTT(30) DEF T!kill, TickInv, TickTypes
    <2>3. tpc[p] = "asleep" => lag[p] = 0  BY DEF TickInv, Doom
    <2>4. tpc'[p] # "idle" => Elapsed(p)'  BY <1>1, <2>2, <2>3 DEF Elapsed, TickInv, TickTypes, Nap
    <2>5. Doom(p)'  BY <1>1, <2>2, <2>3, SMTT(30) DEF Doom, TickInv, TickTypes
    <2>6. ASSUME NEW q \in Proc, q # p PROVE (tpc'[q] # "idle" => Elapsed(q)') /\ Doom(q)'
      BY <1>2, <2>1, <2>2, <2>6
    <2> QED  BY <2>1, <2>4, <2>5, <2>6 DEF TickInv
  <1> QED  BY <1>3, <1>4, <1>5, <1>6, <1>7

(* Every step, and stuttering.                                             *)
LEMMA TickNext == T!TicksAssumption /\ TickInv /\ [T!Next]_(T!vars) => TickInv'
  <1>1. TickInv /\ UNCHANGED T!vars => TickInv'
    BY DEF T!vars, TickInv, TickTypes, Elapsed, Doom, Nap
  <1> QED  BY <1>1, TimerInv, SleepInv DEF T!Next

(* A killed process leaves sys_sleep() at the next tick (and the MaxLag it *)
(* may be late), even when kill() falls between the test of proc->killed   *)
(* and sleep().                                                            *)
THEOREM KilledSleeperLeaves == ASSUME T!TicksAssumption PROVE T!Spec => []T!KilledLeaves
  <1>1. T!Init => TickInv  BY TickInit
  <1>2. TickInv /\ [T!Next]_(T!vars) => TickInv'  BY TickNext
  <1>3. TickInv => T!KilledLeaves
    <2> SUFFICES ASSUME TickInv, NEW p \in Proc PROVE doomed[p] <= 1 + MaxLag
      BY DEF T!KilledLeaves
    <2>1. Doom(p) /\ doomed[p] \in Nat /\ lag[p] \in Nat /\ MaxLag \in Nat
      BY DEF TickInv, TickTypes, T!TicksAssumption
    <2> QED  BY <2>1 DEF Doom
  <1> QED  BY <1>1, <1>2, <1>3, PTL DEF T!Spec

(* sleep(n) of sys_sleep() returns after n ticks, not before and at most   *)
(* MaxLag later, through every wrap of ticks.                              *)
THEOREM SleepIsExact == ASSUME T!TicksAssumption PROVE T!Spec => T!SleepsItsTime
  <1>1. T!Init => TickInv  BY TickInit
  <1>2. TickInv /\ [T!Next]_(T!vars) => TickInv'  BY TickNext
  <1>3. TickInv /\ [T!Next]_(T!vars) => [\A p \in Proc : T!sleepOver(p) =>
                                since[p] \in (nap[p] % UINT) .. (nap[p] % UINT) + MaxLag]_(T!vars)
    <2> SUFFICES ASSUME TickInv, NEW p \in Proc, T!sleepOver(p)
                 PROVE  since[p] \in (nap[p] % UINT) .. (nap[p] % UINT) + MaxLag
      OBVIOUS
    <2>1. tpc[p] = "test" /\ ~T!TooEarly(p)  BY DEF T!sleepOver
    <2>2. /\ (ticks - ticks0[p]) % UINT = since[p] /\ Nap(p) \in Int /\ MaxLag \in Nat
          /\ since[p] <= Nap(p) + lag[p] /\ lag[p] <= MaxLag
          /\ since[p] \in Nat /\ lag[p] \in Nat
      BY <2>1, Difference, SMTT(30) DEF TickInv, TickTypes, Elapsed, T!TicksAssumption
    <2>3. Nap(p) <= since[p]  BY <2>1, <2>2 DEF T!TooEarly, Nap
    <2> QED  BY <2>2, <2>3, SMTT(30) DEF Nap
  <1> QED  BY <1>1, <1>2, <1>3, PTL DEF T!Spec, T!SleepsItsTime

----------------------------------------------------------------------------
(* The processors.  For any number of them: no two share a stack, and the  *)
(* free list of the page allocator is used by one at a time, although it   *)
(* has no lock until kinit2() ends.  The invariant says how far            *)
(* startothers() has got (processors from c on are off, at most c itself   *)
(* is on its way) and that only the boot processor allocates before the    *)
(* lock is used.                                                           *)
CONSTANT NCPU
VARIABLES bpc, starting, word, stack, started, pages, use_lock, kmem, locked, ready
B == INSTANCE Boot WITH pc <- bpc, c <- starting

BootLabels == {"off", "entry", "mpmain", "scheduler", "kalloc",
               "startothers", "stack", "wait", "freerange", "use_lock",
               "userinit", "setupkvm", "runnable"}

BootTypes ==
    /\ bpc \in [B!CPU -> BootLabels] /\ stack \in [B!CPU -> Nat]
    /\ starting \in 1 .. NCPU /\ pages \in Nat /\ word = pages
    /\ bpc[0] \in {"stack", "wait"} => starting \in B!CPU
    /\ started \subseteq B!CPU /\ use_lock \in BOOLEAN /\ ready \in BOOLEAN
    /\ kmem \subseteq B!CPU /\ locked \subseteq B!CPU

(* How far each processor has got.                                         *)
Phases == \A i \in B!CPU :
    /\ i # 0 => bpc[i] \in {"off", "entry", "mpmain", "scheduler", "kalloc"}
    /\ bpc[0] \notin {"off", "entry"}
    /\ i # 0 /\ bpc[0] \in {"startothers", "stack"} /\ starting <= i => bpc[i] = "off"
    /\ i # 0 /\ bpc[0] = "wait" /\ starting < i => bpc[i] = "off"
    /\ bpc[i] = "entry" => bpc[0] = "wait" /\ i = starting
    /\ i \in started => bpc[i] \in {"scheduler", "kalloc"}

Stacks ==
    /\ \A i \in B!CPU : stack[i] <= pages
    /\ \A i \in B!CPU : bpc[i] = "entry" => \A j \in B!CPU : stack[j] < pages
    /\ B!StacksDistinct

Kmem ==
    /\ use_lock <=> bpc[0] \notin {"startothers", "stack", "wait", "freerange", "use_lock"}
    /\ ready => use_lock
    /\ \A i \in kmem : ~use_lock => bpc[0] \in {"stack", "freerange"} /\ i = 0
    /\ \A i \in B!CPU : bpc[i] \in {"kalloc", "setupkvm"} => i \in kmem
    /\ ~use_lock => locked = {}
    /\ B!KmemExclusive

BootInv == BootTypes /\ Phases /\ Stacks /\ Kmem

(* The boot processor is there.                                            *)
LEMMA CpuFacts == ASSUME B!BootAssumption
                  PROVE  NCPU \in Nat \ {0} /\ 0 \in B!CPU /\ B!CPU \subseteq Nat /\ NCPU \notin B!CPU
  BY DEF B!BootAssumption, B!CPU

(* Init.                                                                   *)
LEMMA BootInit == B!BootAssumption /\ B!Init => BootInv
  <1> SUFFICES ASSUME B!BootAssumption, B!Init PROVE BootInv  OBVIOUS
  <1> USE CpuFacts
  <1>1. BootTypes
    <2>1. bpc \in [B!CPU -> BootLabels] /\ stack \in [B!CPU -> Nat] /\ bpc[0] = "startothers"
      BY DEF B!Init, BootLabels, B!NoStack
    <2>2. starting \in 1 .. NCPU /\ pages \in Nat /\ word = pages  BY DEF B!Init, B!NoStack
    <2>3. started \subseteq B!CPU /\ kmem \subseteq B!CPU /\ locked \subseteq B!CPU  BY DEF B!Init
    <2>4. use_lock \in BOOLEAN /\ ready \in BOOLEAN  BY Zenon DEF B!Init
    <2> QED  BY <2>1, <2>2, <2>3, <2>4 DEF BootTypes
  <1>2. Phases  BY DEF B!Init, Phases
  <1>3. Stacks  BY DEF B!Init, Stacks, B!StacksDistinct, B!NoStack
  <1>4. Kmem  BY DEF B!Init, Kmem, B!KmemExclusive
  <1> QED  BY <1>1, <1>2, <1>3, <1>4 DEF BootInv

(* The boot processor's steps.                                             *)
LEMMA BootsInv == B!BootAssumption /\ BootInv /\ B!Boots => BootInv'
  <1> SUFFICES ASSUME B!BootAssumption, BootInv, B!Boots PROVE BootInv'  OBVIOUS
  <1> USE CpuFacts
  <1>1. CASE B!startap
    <2>1. BootTypes'
      <3>1. kmem' \subseteq B!CPU /\ locked' \subseteq B!CPU  BY <1>1, Zenon DEF B!startap, B!Leave, BootInv, BootTypes
      <3>2. starting \in B!CPU  BY <1>1, Zenon DEF B!startap, BootInv, BootTypes
      <3>3. bpc' \in [B!CPU -> BootLabels] /\ starting' = starting
        BY <1>1, <3>2 DEF B!startap, BootInv, BootTypes, BootLabels
      <3>4. pages' \in Nat /\ word' = pages'  BY <1>1 DEF B!startap, BootInv, BootTypes
      <3> QED  BY <1>1, <3>1, <3>2, <3>3, <3>4, Zenon DEF B!startap, BootInv, BootTypes
    <2>2. Phases'
      BY <1>1 DEF B!startap, B!Leave, BootInv, BootTypes, BootLabels, Phases, B!CPU
    <2>3. Stacks'
      BY <1>1 DEF B!startap, B!Leave, BootInv, BootTypes, Phases, Stacks, B!StacksDistinct
    <2>4. Kmem'
      <3>1. ~use_lock /\ use_lock' = use_lock /\ ready' = ready /\ locked' = {} /\ kmem' = {}
        BY <1>1, Zenon DEF B!startap, B!Leave, BootInv, Kmem
      <3>2. bpc'[0] = "wait"  BY <1>1 DEF B!startap, BootInv, BootTypes, BootLabels, Phases, B!CPU
      <3>3. \A i \in B!CPU : i # 0 => bpc[i] \in {"off", "entry", "mpmain", "scheduler", "kalloc"}
                                   /\ bpc[i] # "kalloc"
        BY <3>1, Zenon DEF BootInv, Phases, Kmem
      <3>4. \A i \in B!CPU : bpc'[i] \notin {"kalloc", "setupkvm"}
        BY <1>1, <3>3, SMTT(30) DEF B!startap, BootInv, BootTypes, BootLabels
      <3> QED  BY <3>1, <3>2, <3>4 DEF BootInv, Kmem, B!KmemExclusive
    <2> QED  BY <2>1, <2>2, <2>3, <2>4 DEF BootInv
  <1>2. CASE B!waitStarted
    <2>1. BootTypes'
      BY <1>2 DEF B!waitStarted, B!OtherIsUp, B!Goto, BootInv, BootTypes, BootLabels, B!CPU
    <2>2. Phases'
      BY <1>2 DEF B!waitStarted, B!OtherIsUp, B!Goto, BootInv, BootTypes, BootLabels, Phases, B!CPU
    <2>3. Stacks'
      BY <1>2 DEF B!waitStarted, B!OtherIsUp, B!Goto, BootInv, BootTypes, Phases, Stacks, B!StacksDistinct
    <2>4. Kmem'
      BY <1>2 DEF B!waitStarted, B!Goto, BootInv, BootTypes, Phases, Kmem, B!KmemExclusive, B!CPU
    <2> QED  BY <2>1, <2>2, <2>3, <2>4 DEF BootInv
  <1>3. CASE \/ B!startothers \/ B!kinit2 \/ B!freerange \/ B!kinit2Lock
            \/ B!userinit \/ B!setupkvm \/ B!userinitDone
    <2>1. BootTypes'
      <3>1. CASE B!startothers
        <4>1. starting \in B!CPU  BY <3>1 DEF B!startothers, BootInv, BootTypes, B!CPU
        <4> QED  BY <3>1, <4>1 DEF B!startothers, B!Enter, B!Goto, BootInv, BootTypes, BootLabels
      <3>2. CASE B!kinit2
        BY <3>2 DEF B!kinit2, B!Enter, B!Goto, BootInv, BootTypes, BootLabels, B!CPU
      <3>3. CASE B!freerange
        BY <3>3 DEF B!freerange, B!Leave, B!Goto, BootInv, BootTypes, BootLabels, B!CPU
      <3>4. CASE B!kinit2Lock
        BY <3>4 DEF B!kinit2Lock, B!SetUseLock, B!Goto, BootInv, BootTypes, BootLabels, B!CPU
      <3>5. CASE B!userinit
        BY <3>5 DEF B!userinit, B!Enter, B!Goto, BootInv, BootTypes, BootLabels, B!CPU
      <3>6. CASE B!setupkvm
        BY <3>6 DEF B!setupkvm, B!Leave, B!Goto, BootInv, BootTypes, BootLabels, B!CPU
      <3>7. CASE B!userinitDone
        BY <3>7 DEF B!userinitDone, B!Goto, BootInv, BootTypes, BootLabels, B!CPU
      <3> QED  BY <1>3, <3>1, <3>2, <3>3, <3>4, <3>5, <3>6, <3>7, SMTT(30)
    <2>2. Phases'
      BY <1>3, SMTT(30) DEF B!startothers, B!kinit2, B!freerange, B!kinit2Lock, B!userinit, B!setupkvm, B!userinitDone,
         B!Goto, BootInv, BootTypes, BootLabels, Phases
    <2>3. Stacks'
      BY <1>3, SMTT(30) DEF B!startothers, B!kinit2, B!freerange, B!kinit2Lock, B!userinit, B!setupkvm, B!userinitDone,
         B!Goto, BootInv, BootTypes, Phases, Stacks, B!StacksDistinct
    <2>4. Kmem'
      <3>1. CASE B!startothers
        BY <3>1 DEF B!startothers, B!Enter, B!Goto, BootInv, BootTypes, Kmem, B!KmemExclusive
      <3>2. CASE B!kinit2
        BY <3>2 DEF B!kinit2, B!Enter, B!Goto, BootInv, BootTypes, Kmem, B!KmemExclusive
      <3>3. CASE B!freerange
        BY <3>3 DEF B!freerange, B!Leave, B!Goto, BootInv, BootTypes, Kmem, B!KmemExclusive
      <3>4. CASE B!kinit2Lock
        BY <3>4 DEF B!kinit2Lock, B!SetUseLock, B!Goto, BootInv, BootTypes, Kmem, B!KmemExclusive
      <3>5. CASE B!userinit
        BY <3>5 DEF B!userinit, B!Enter, B!Goto, BootInv, BootTypes, Kmem, B!KmemExclusive
      <3>6. CASE B!setupkvm
        BY <3>6 DEF B!setupkvm, B!Leave, B!Goto, BootInv, BootTypes, Kmem, B!KmemExclusive
      <3>7. CASE B!userinitDone
        BY <3>7 DEF B!userinitDone, B!Goto, BootInv, BootTypes, Kmem, B!KmemExclusive
      <3> QED  BY <1>3, <3>1, <3>2, <3>3, <3>4, <3>5, <3>6, <3>7
    <2> QED  BY <2>1, <2>2, <2>3, <2>4 DEF BootInv
  <1> QED  BY <1>1, <1>2, <1>3 DEF B!Boots

(* The steps of any processor.                                             *)
LEMMA RunsInv == B!BootAssumption /\ BootInv /\ (\E i \in B!CPU : B!Runs(i)) => BootInv'
  <1> SUFFICES ASSUME B!BootAssumption, BootInv, NEW i \in B!CPU, B!Runs(i) PROVE BootInv'  OBVIOUS
  <1> USE CpuFacts
  <1>1. CASE B!mpenter(i)
    <2>1. BootTypes'
      BY <1>1 DEF B!mpenter, B!Goto, BootInv, BootTypes, BootLabels
    <2>2. Phases'
      BY <1>1 DEF B!mpenter, B!Goto, BootInv, BootTypes, BootLabels, Phases
    <2>3. Stacks'
      BY <1>1 DEF B!mpenter, B!Goto, BootInv, BootTypes, Phases, Stacks, B!StacksDistinct
    <2>4. Kmem'
      BY <1>1 DEF B!mpenter, B!Goto, BootInv, BootTypes, Phases, Kmem, B!KmemExclusive
    <2> QED  BY <2>1, <2>2, <2>3, <2>4, SMTT(30) DEF BootInv
  <1>2. CASE B!mpmain(i)
    <2>1. BootTypes'
      BY <1>2 DEF B!mpmain, B!SetStarted, B!Goto, BootInv, BootTypes, BootLabels
    <2>2. Phases'
      BY <1>2 DEF B!mpmain, B!SetStarted, B!Goto, BootInv, BootTypes, BootLabels, Phases
    <2>3. Stacks'
      BY <1>2 DEF B!mpmain, B!Goto, BootInv, BootTypes, Phases, Stacks, B!StacksDistinct
    <2>4. Kmem'
      BY <1>2, SMTT(30) DEF B!mpmain, B!Goto, BootInv, BootTypes, Phases, Kmem, B!KmemExclusive
    <2> QED  BY <2>1, <2>2, <2>3, <2>4 DEF BootInv
  <1>3. CASE B!run(i) \/ B!kalloc(i)
    <2>1. BootTypes'
      BY <1>3 DEF B!run, B!kalloc, B!Enter, B!Leave, B!Goto, BootInv, BootTypes, BootLabels
    <2>2. Phases'
      BY <1>3 DEF B!run, B!kalloc, B!Goto, BootInv, BootTypes, BootLabels, Phases
    <2>3. Stacks'
      BY <1>3 DEF B!run, B!kalloc, B!Goto, BootInv, BootTypes, Phases, Stacks, B!StacksDistinct
    <2>4. Kmem'
      BY <1>3 DEF B!run, B!kalloc, B!Enter, B!Leave, B!Goto, BootInv, BootTypes, Kmem, B!KmemExclusive
    <2> QED  BY <2>1, <2>2, <2>3, <2>4 DEF BootInv
  <1> QED  BY <1>1, <1>2, <1>3 DEF B!Runs

(* Every step, and stuttering.                                             *)
LEMMA BootNext == B!BootAssumption /\ BootInv /\ [B!Next]_(B!vars) => BootInv'
  <1>1. BootInv /\ UNCHANGED B!vars => BootInv'
    BY DEF B!vars, BootInv, BootTypes, Phases, Stacks, B!StacksDistinct, Kmem, B!KmemExclusive
  <1>2. ASSUME NEW i \in B!CPU, B!spin(i) PROVE UNCHANGED B!vars  BY <1>2 DEF B!spin
  <1> QED  BY <1>1, <1>2, BootsInv, RunsInv, SMTT(30) DEF B!Next

(* startothers() gives no two processors the same stack, and kalloc() and  *)
(* kfree() are not used by two at a time before or after use_lock is set   *)
(* and release a lock that they hold, whatever the number of processors.   *)
THEOREM BootSafe == ASSUME B!BootAssumption PROVE B!Spec => [](B!StacksDistinct /\ B!KmemExclusive)
  <1>1. B!Init => BootInv  BY BootInit
  <1>2. BootInv /\ [B!Next]_(B!vars) => BootInv'  BY BootNext
  <1>3. BootInv => B!StacksDistinct /\ B!KmemExclusive  BY DEF BootInv, Stacks, Kmem
  <1> QED  BY <1>1, <1>2, <1>3, PTL DEF B!Spec

=============================================================================
