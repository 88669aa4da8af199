-------------------------------- MODULE Boot --------------------------------
(***************************************************************************)
(* Starting the processors (kern/main.c) with the page allocator that uses *)
(* its lock only after kinit2() (kern/kalloc.c).  The boot processor gives *)
(* each other one a stack through one word of memory and waits for it; the *)
(* others enter scheduler() while the boot processor goes on.              *)
(***************************************************************************)
EXTENDS Integers

CONSTANTS NCPU

BootAssumption == NCPU \in Nat \ {0}

CPU == 0 .. NCPU - 1        \* 0 boots
NoStack == 0

VARIABLES
    pc,                     \* by CPU
    c,                      \* startothers()'s loop variable
    word, stack,            \* the word at code-4; by CPU: its stack
    started,                \* the CPUs with c->started
    pages,                  \* pages allocated so far
    use_lock,
    kmem,                   \* the CPUs inside kalloc() or kfree(), at the free list
    locked,                 \* the CPU that holds kmem.lock, if any
    ready                   \* the first process is RUNNABLE

vars == <<pc, c, word, stack, started, pages, use_lock, kmem, locked, ready>>

Init ==
    /\ pc = [i \in CPU |-> IF i = 0 THEN "startothers" ELSE "off"] /\ c = 1
    /\ word = NoStack /\ stack = [i \in CPU |-> NoStack] /\ started = {}
    /\ pages = 0 /\ use_lock = FALSE
    /\ kmem = {} /\ locked = {} /\ ready = FALSE

Goto(i, l) == pc' = [pc EXCEPT ![i] = l]

(* The way into and out of the allocator: each tests use_lock on its own.  *)
Enter(i) ==
    /\ kmem' = kmem \cup {i}
    /\ IF use_lock THEN locked = {} /\ locked' = {i} ELSE locked' = locked

Leave(i) ==
    /\ kmem' = kmem \ {i}
    /\ locked' = IF use_lock THEN {} ELSE locked

----------------------------------------------------------------------------
(* startothers(): stack = kalloc(), into it and out of it; then the word   *)
(* and lapicstartap().                                                     *)
startothers ==
    /\ pc[0] = "startothers" /\ c < NCPU
    /\ Enter(0) /\ Goto(0, "stack")
    /\ UNCHANGED <<c, word, stack, started, pages, use_lock, ready>>

startap ==
    /\ pc[0] = "stack" /\ Leave(0)
    /\ pages' = pages + 1 /\ word' = pages + 1
    /\ pc' = [pc EXCEPT ![0] = "wait", ![c] = "entry"]
    /\ UNCHANGED <<c, stack, started, use_lock, ready>>

\* Mutant: the boot processor does not wait.
NoWait == TRUE

OtherIsUp == c \in started

waitStarted ==
    /\ pc[0] = "wait" /\ OtherIsUp
    /\ c' = c + 1 /\ Goto(0, "startothers")
    /\ UNCHANGED <<word, stack, started, pages, use_lock, kmem, locked, ready>>

(* entryother.S and mpenter().                                             *)
mpenter(i) ==
    /\ pc[i] = "entry"
    /\ stack' = [stack EXCEPT ![i] = word] /\ Goto(i, "mpmain")
    /\ UNCHANGED <<c, word, started, pages, use_lock, kmem, locked, ready>>

\* Mutant: startothers() is not told.
NoSignal(i) == started' = started

SetStarted(i) == started' = started \cup {i}

mpmain(i) ==
    /\ pc[i] = "mpmain"
    /\ SetStarted(i) /\ Goto(i, "scheduler")
    /\ UNCHANGED <<c, word, stack, pages, use_lock, kmem, locked, ready>>

----------------------------------------------------------------------------
(* kinit2(): freerange(), its kfree()s taken together, then use_lock = 1.  *)
kinit2 ==
    /\ pc[0] = "startothers" /\ c = NCPU
    /\ Enter(0) /\ Goto(0, "freerange")
    /\ UNCHANGED <<c, word, stack, started, pages, use_lock, ready>>

freerange ==
    /\ pc[0] = "freerange"
    /\ Leave(0) /\ Goto(0, "use_lock")
    /\ UNCHANGED <<c, word, stack, started, pages, use_lock, ready>>

SetUseLock == use_lock' = TRUE

kinit2Lock ==
    /\ pc[0] = "use_lock" /\ SetUseLock
    /\ Goto(0, "userinit")
    /\ UNCHANGED <<c, word, stack, started, pages, kmem, locked, ready>>

(* userinit(): it allocates, its kalloc()s taken together; its last        *)
(* assignment makes the process RUNNABLE.                                  *)
userinit ==
    /\ pc[0] = "userinit"
    /\ Enter(0) /\ Goto(0, "setupkvm")
    /\ UNCHANGED <<c, word, stack, started, pages, use_lock, ready>>

setupkvm ==
    /\ pc[0] = "setupkvm"
    /\ Leave(0) /\ Goto(0, "runnable")
    /\ UNCHANGED <<c, word, stack, started, pages, use_lock, ready>>

userinitDone ==
    /\ pc[0] = "runnable"
    /\ ready' = TRUE /\ Goto(0, "mpmain")
    /\ UNCHANGED <<c, word, stack, started, pages, use_lock, kmem, locked>>

(* scheduler(): any processor runs processes, which allocate and free.     *)
run(i) ==
    /\ pc[i] = "scheduler" /\ ready
    /\ Enter(i) /\ Goto(i, "kalloc")
    /\ UNCHANGED <<c, word, stack, started, pages, use_lock, ready>>

kalloc(i) ==
    /\ pc[i] = "kalloc"
    /\ Leave(i) /\ Goto(i, "scheduler")
    /\ UNCHANGED <<c, word, stack, started, pages, use_lock, ready>>

(* The loops that wait: on c->started, and scheduler()'s.                  *)
spin(i) ==
    /\ (i = 0 /\ pc[0] = "wait") \/ (pc[i] = "scheduler" /\ ~ready)
    /\ UNCHANGED vars

----------------------------------------------------------------------------
Boots == \/ startothers \/ startap \/ waitStarted
         \/ kinit2 \/ freerange \/ kinit2Lock
         \/ userinit \/ setupkvm \/ userinitDone
Runs(i) == mpenter(i) \/ mpmain(i) \/ run(i) \/ kalloc(i)

Next == Boots \/ \E i \in CPU : Runs(i) \/ spin(i)

Spec == Init /\ [][Next]_vars

\* Every processor that has been started executes.
FairSpec == Spec /\ WF_vars(Boots) /\ \A i \in CPU : WF_vars(Runs(i))

----------------------------------------------------------------------------
(* The allocator's free list is used by one processor at a time although   *)
(* the lock is not used at first and others already run scheduler(); and   *)
(* the lock is released by the processor that took it (release() panics    *)
(* otherwise) although use_lock is tested again on the way out.            *)
KmemExclusive ==
    /\ \A i, j \in kmem : i = j
    /\ use_lock => locked = kmem

(* No two processors get the same stack.                                   *)
StacksDistinct == \A i, j \in CPU :
    i # j /\ stack[i] # NoStack => stack[i] # stack[j]

(* All processors get to scheduler(), none waits for another for ever.     *)
AllStart == <>(started = CPU)
=============================================================================
