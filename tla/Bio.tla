-------------------------------- MODULE Bio --------------------------------
(***************************************************************************)
(* kern/bio.c over kern/ide.c: the buffer cache and the disk's request     *)
(* queue, used by several processes.  The sections under bcache.lock and   *)
(* under idelock are steps; sleep() is what Proc.tla shows it to be.  Both *)
(* bget() and iderw() sleep on the buffer, so that a wakeup of one wakes   *)
(* the other too.  A process holds at most two buffers, as in bmap(),      *)
(* itrunc(), write_log() and install_trans(), and takes them in an order:  *)
(* a log block before a home block, an indirect block before the bitmap.   *)
(***************************************************************************)
EXTENDS Integers, Sequences, FiniteSets

CONSTANTS
    Buf, NoBuf, NBUF,       \* bcache.buf: NBUF buffers
    Block, NoBlock,         \* numbered in the order in which they may nest
    Value, Proc,
    Outcome,                \* of a disk read: "ok", or "error" too
    MaxPins                 \* blocks that transactions keep logged at a time

BioAssumption ==
    /\ NoBuf \notin Buf /\ NBUF \in Nat
    /\ NoBlock \notin Block /\ Block \subseteq Int
    /\ Value # {}

VARIABLES
    blockno, data,          \* by buffer
    busy, valid, dirty,     \* the buffers with B_BUSY, B_VALID, B_DIRTY
    lru,                    \* the list from bcache.head.next on
    idequeue, disk,
    pc, want, bp,           \* by process: where it is, its block, its buffer
    kept,                   \* by process: the buffer it holds meanwhile
    pins,                   \* blocks logged and not yet committed (log.lh)
    panicked                \* the message of panic(), or ""

buffers == <<blockno, data, busy, valid, dirty, lru>>
vars    == <<buffers, idequeue, disk, pc, want, bp, kept, pins, panicked>>

\* The lists with every buffer once.
Orders == {l \in [1 .. NBUF -> Buf] :
    /\ \A b \in Buf : \E k \in 1 .. NBUF : l[k] = b
    /\ \A j, k \in 1 .. NBUF : l[j] = l[k] => j = k}

Init ==
    /\ blockno = [b \in Buf |-> NoBlock] /\ data = [b \in Buf |-> CHOOSE v \in Value : TRUE]
    /\ busy = {} /\ valid = {} /\ dirty = {}
    /\ lru \in Orders /\ idequeue = <<>> /\ disk \in [Block -> Value]
    /\ pc = [p \in Proc |-> "idle"]
    /\ want = [p \in Proc |-> NoBlock] /\ bp = [p \in Proc |-> NoBuf]
    /\ kept = bp /\ pins = {} /\ panicked = ""

At(p, l) == panicked = "" /\ pc[p] = l
Goto(p, l) == pc' = [pc EXCEPT ![p] = l]

\* wakeup(b), applied to the pcs in f.
Wakeup(b, f) == [p \in Proc |->
    CASE f[p] = "bget_sleep" /\ bp[p] = b -> "bget"
      [] f[p] = "io" /\ bp[p] = b -> "io_check"
      [] OTHER -> f[p]]

----------------------------------------------------------------------------
(* bread(): bget() under bcache.lock, then iderw() if the data are not     *)
(* there.                                                                  *)
bread(p) ==
    /\ At(p, "idle")
    /\ \E k \in Block : want' = [want EXCEPT ![p] = k]
    /\ Goto(p, "bget")
    /\ UNCHANGED <<buffers, idequeue, disk, bp, kept, pins, panicked>>

(* A second bread() while the first buffer is held.                        *)
NestedBread(p) ==
    /\ At(p, "have") /\ kept[p] = NoBuf
    /\ \E k \in Block : k > want[p] /\ want' = [want EXCEPT ![p] = k]
    /\ kept' = [kept EXCEPT ![p] = bp[p]] /\ bp' = [bp EXCEPT ![p] = NoBuf]
    /\ Goto(p, "bget")
    /\ UNCHANGED <<buffers, idequeue, disk, pins, panicked>>

Caching(k) == {b \in Buf : blockno[b] = k}

BgetHit(p) ==
    /\ At(p, "bget")
    /\ \E b \in Caching(want[p]) \ busy :
         /\ busy' = busy \cup {b} /\ bp' = [bp EXCEPT ![p] = b]
         /\ Goto(p, IF b \in valid THEN "have" ELSE "iderw")
    /\ UNCHANGED <<blockno, data, valid, dirty, lru, idequeue, disk, want, kept, pins, panicked>>

BgetSleep(p) ==
    /\ At(p, "bget")
    /\ \E b \in Caching(want[p]) \cap busy :
         bp' = [bp EXCEPT ![p] = b] /\ Goto(p, "bget_sleep")
    /\ UNCHANGED <<buffers, idequeue, disk, want, kept, pins, panicked>>

\* Mutant: a dirty buffer is recycled.
AnyIdle(b) == b \notin busy

\* Mutant: the search stops before the most recently used buffer.
NotFirst(b) == b \notin busy /\ b \notin dirty /\ b # lru[1]

Clean(b) == b \notin busy /\ b \notin dirty

\* The clean buffer that was used longest ago.
Victims == {b \in Buf : \E k \in DOMAIN lru :
    lru[k] = b /\ Clean(b) /\ \A j \in DOMAIN lru : j > k => ~Clean(lru[j])}

BgetRecycle(p) ==
    /\ At(p, "bget") /\ Caching(want[p]) = {}
    /\ \E b \in Victims :
         /\ blockno' = [blockno EXCEPT ![b] = want[p]]
         /\ busy' = busy \cup {b} /\ valid' = valid \ {b} /\ dirty' = dirty \ {b}
         /\ bp' = [bp EXCEPT ![p] = b]
    /\ Goto(p, "iderw")
    /\ UNCHANGED <<data, lru, idequeue, disk, want, kept, pins, panicked>>

BgetPanic(p) ==
    /\ At(p, "bget") /\ Caching(want[p]) = {} /\ \A k \in DOMAIN lru : ~Clean(lru[k])
    /\ panicked' = "bget: no buffers"
    /\ UNCHANGED <<buffers, idequeue, disk, pc, want, bp, kept, pins>>

----------------------------------------------------------------------------
(* iderw(): append to the queue and sleep, under idelock; idestart() sends *)
(* the head of the queue to the disk.                                      *)
iderw(p) ==
    /\ At(p, "iderw")
    /\ CASE bp[p] \notin busy ->
              panicked' = "iderw: buf not busy" /\ UNCHANGED <<idequeue, pc>>
         [] bp[p] \in busy \cap (valid \ dirty) ->
              panicked' = "iderw: nothing to do" /\ UNCHANGED <<idequeue, pc>>
         [] OTHER ->
              /\ idequeue' = Append(idequeue, bp[p]) /\ Goto(p, "io")
              /\ UNCHANGED panicked
    /\ UNCHANGED <<buffers, disk, want, bp, kept, pins>>

\* sleep() has returned: test the flags again.
IderwCheck(p) ==
    /\ At(p, "io_check")
    /\ Goto(p, IF bp[p] \in valid \ dirty THEN "have" ELSE "io")
    /\ UNCHANGED <<buffers, idequeue, disk, want, bp, kept, pins, panicked>>

\* Mutant: the queue is emptied.
DropQueue == <<>>

RestOfQueue == Tail(idequeue)

(* The disk has served the head of the queue.  When it could not read, the *)
(* buffer is marked B_VALID with what was in it.                           *)
ideintr ==
    /\ panicked = "" /\ idequeue # <<>>
    /\ LET b == Head(idequeue) IN
         /\ IF b \in dirty
            THEN disk' = [disk EXCEPT ![blockno[b]] = data[b]] /\ data' = data
            ELSE /\ \E r \in Outcome : data' = [data EXCEPT ![b] =
                      IF r = "ok" THEN disk[blockno[b]] ELSE data[b]]
                 /\ disk' = disk
         /\ valid' = valid \cup {b} /\ dirty' = dirty \ {b}
         /\ pc' = Wakeup(b, pc)
         /\ pins' = pins \ {blockno[b]}
    /\ idequeue' = RestOfQueue
    /\ UNCHANGED <<blockno, busy, lru, want, bp, kept, panicked>>

----------------------------------------------------------------------------
(* What the holder of a buffer does with it: change it, and then write it  *)
(* or hand it to log_write(), which marks it B_DIRTY.                      *)
Modify(p) ==
    /\ At(p, "have")
    /\ \E v \in Value : data' = [data EXCEPT ![bp[p]] = v]
    /\ Goto(p, "modified")
    /\ UNCHANGED <<blockno, busy, valid, dirty, lru, idequeue, disk, want, bp, kept, pins>>
    /\ UNCHANGED panicked

bwrite(p) ==
    /\ At(p, "have") \/ At(p, "modified")
    /\ IF bp[p] \notin busy
       THEN panicked' = "bwrite" /\ UNCHANGED <<dirty, pc>>
       ELSE dirty' = dirty \cup {bp[p]} /\ Goto(p, "iderw") /\ UNCHANGED panicked
    /\ UNCHANGED <<blockno, data, busy, valid, lru, idequeue, disk, want, bp, kept, pins>>

log_write(p) ==
    /\ At(p, "modified")
    /\ want[p] \in pins \/ Cardinality(pins) < MaxPins
    /\ pins' = pins \cup {want[p]}
    /\ dirty' = dirty \cup {bp[p]}
    /\ Goto(p, "have")
    /\ UNCHANGED <<blockno, data, busy, valid, lru, idequeue, disk, want, bp, kept, panicked>>

\* Mutant: the buffer is put in front and not taken out of its old place.
NoUnlink(b) == <<b>> \o lru

MoveToFront(b) ==
    LET k == CHOOSE j \in DOMAIN lru : lru[j] = b
    IN  [j \in DOMAIN lru |-> IF j = 1 THEN b ELSE lru[IF j <= k THEN j - 1 ELSE j]]

(* The buffer that was taken last is released first.                       *)
brelse(p) ==
    /\ At(p, "have")
    /\ IF bp[p] \notin busy
       THEN panicked' = "brelse" /\ UNCHANGED <<lru, busy, pc, want, bp, kept>>
       ELSE /\ lru' = MoveToFront(bp[p])
            /\ busy' = busy \ {bp[p]}
            /\ bp' = [bp EXCEPT ![p] = kept[p]] /\ kept' = [kept EXCEPT ![p] = NoBuf]
            /\ want' = [want EXCEPT ![p] =
                 IF kept[p] = NoBuf THEN NoBlock ELSE blockno[kept[p]]]
            /\ pc' = Wakeup(bp[p],
                 [pc EXCEPT ![p] = IF kept[p] = NoBuf THEN "idle" ELSE "have"])
            /\ UNCHANGED panicked
    /\ UNCHANGED <<blockno, data, valid, dirty, idequeue, disk, pins>>

----------------------------------------------------------------------------
(* panic() never returns.                                                  *)
Panic == panicked # "" /\ UNCHANGED vars

Next == ideintr \/ Panic \/ \E p \in Proc :
    \/ bread(p) \/ NestedBread(p)
    \/ BgetHit(p) \/ BgetSleep(p) \/ BgetRecycle(p) \/ BgetPanic(p)
    \/ iderw(p) \/ IderwCheck(p)
    \/ Modify(p) \/ bwrite(p) \/ log_write(p) \/ brelse(p)

Spec == Init /\ [][Next]_vars

----------------------------------------------------------------------------
(* The flags, the list and the locals have their types; the list is a      *)
(* permutation of the buffers.                                             *)
TypeOK ==
    /\ blockno \in [Buf -> Block \cup {NoBlock}] /\ data \in [Buf -> Value]
    /\ busy \subseteq Buf /\ valid \subseteq Buf /\ dirty \subseteq Buf
    /\ lru \in Orders /\ idequeue \in Seq(Buf) /\ disk \in [Block -> Value]
    /\ pc \in [Proc -> {"idle", "bget", "bget_sleep", "iderw", "io", "io_check",
                        "have", "modified"}]
    /\ want \in [Proc -> Block \cup {NoBlock}] /\ bp \in [Proc -> Buf \cup {NoBuf}]
    /\ kept \in [Proc -> Buf \cup {NoBuf}]
    /\ pins \subseteq Block
    /\ panicked \in {"", "bget: no buffers", "iderw: buf not busy",
                     "iderw: nothing to do", "bwrite", "brelse"}

(* The buffers that p holds.                                               *)
Held(p) ==
    (IF kept[p] = NoBuf THEN {} ELSE {kept[p]}) \cup
    (IF pc[p] \in {"iderw", "io", "io_check", "have", "modified"} THEN {bp[p]} ELSE {})

Store == INSTANCE BlockStore WITH
    mem  <- [k \in Block |-> IF \E b \in valid : blockno[b] = k
                             THEN data[CHOOSE b \in valid : blockno[b] = k] ELSE disk[k]],
    view <- [p \in Proc |-> LET own == Held(p) \cap valid IN
                [k \in {blockno[b] : b \in own} |-> data[CHOOSE b \in own : blockno[b] = k]]]

(* bread() returns the block's last value and brelse() keeps what was      *)
(* written or logged, whatever is recycled meanwhile; two processes never  *)
(* hold the same block.                                                    *)
ImplementsBlockStore == Store!StoreSpec

(* No lost wakeup in bget(): a process sleeps on a buffer only as long as  *)
(* another holds it.                                                       *)
SleepersHaveReason == \A p \in Proc : pc[p] = "bget_sleep" =>
    \E q \in Proc \ {p} : bp[p] \in Held(q)

(* A process asleep in iderw() has its buffer in the queue, once, and the  *)
(* queue holds nothing else: ideintr() serves and wakes each request.      *)
QueueSound ==
    /\ \A p \in Proc : pc[p] = "io" => \E k \in DOMAIN idequeue : idequeue[k] = bp[p]
    /\ \A k \in DOMAIN idequeue : \E p \in Proc : pc[p] = "io" /\ bp[p] = idequeue[k]
    /\ \A j, k \in DOMAIN idequeue : idequeue[j] = idequeue[k] => j = k

(* The assertions of brelse(), bwrite() and iderw() hold, and bget() runs  *)
(* out of buffers only when each holds a logged block or is held by a      *)
(* process: none is lost, and MaxPins + 2 * (the number of processes)      *)
(* suffice.                                                                *)
PanicsOnlyWhenFull == panicked # "" =>
    /\ panicked = "bget: no buffers"
    /\ \A b \in Buf : blockno[b] \in pins \/ \E p \in Proc : b \in Held(p)
=============================================================================
