--------------------------------- MODULE Vm ---------------------------------
(***************************************************************************)
(* Address spaces and the page allocator (kern/kalloc.c, kern/vm.c), used  *)
(* by sbrk(), fork(), exec() and exit(), with memory running out anywhere. *)
(* A step is one kalloc(), or a run of kfree()s.  Pages are counted and    *)
(* not named; sizes are in pages; PTESPERTAB entries share a page table.   *)
(***************************************************************************)
EXTENDS Integers, FiniteSets, FiniteSetsExt

CONSTANTS
    Proc, Init1,            \* Init1: the process that never exits
    NPage,                  \* the pages of kinit1() and kinit2()
    KTABS,                  \* the page tables of the kernel's mapping
    MaxPages,               \* below KERNBASE
    PTESPERTAB,
    Sizes                   \* of programs, stack included

VPage == 0 .. MaxPages - 1
TableOf(v) == v \div PTESPERTAB

VARIABLES
    free,                   \* the length of kmem.freelist
    img, sz,                \* by process: p->pgdir, p->sz
    new,                    \* by process: the address space it is making
    stack,                  \* the processes that have a kstack
    job,                    \* by process: the call it is in
    lost,                   \* pages that nobody will free
    panic

vars == <<free, img, sz, new, stack, job, lost, panic>>

NoImage == [dir |-> 0, ktabs |-> 0, tabs |-> {}, ptes |-> {}]
NoJob == [op |-> "none", pc |-> "idle", a |-> 0, end |-> 0, hand |-> 0, child |-> {}]

PagesOf(i) == i.dir + i.ktabs + Cardinality(i.tabs) + Cardinality(i.ptes)

(* The first process has one page; the others do not exist.                *)
Init ==
    /\ img = [p \in Proc |-> IF p = Init1
              THEN [dir |-> 1, ktabs |-> KTABS, tabs |-> {0}, ptes |-> {0}] ELSE NoImage]
    /\ sz = [p \in Proc |-> IF p = Init1 THEN 1 ELSE 0]
    /\ new = [p \in Proc |-> NoImage] /\ stack = {Init1}
    /\ free = NPage - PagesOf(img[Init1]) - 1
    /\ job = [p \in Proc |-> NoJob] /\ lost = 0 /\ panic = FALSE

At(p, l) == ~panic /\ img[p] # NoImage /\ job[p].pc = l
Goto(p, l) == job' = [job EXCEPT ![p].pc = l]
Op(p) == job[p].op
Done(p) == job' = [job EXCEPT ![p] = NoJob]

----------------------------------------------------------------------------
(* growproc(): allocuvm() from sz on, or deallocuvm().  A process that     *)
(* gives back its whole image is told ENOMEM and cannot run another        *)
(* instruction.                                                            *)
sbrkGrow(p) ==
    /\ At(p, "idle")
    /\ \E end \in sz[p] + 1 .. MaxPages :
         job' = [job EXCEPT ![p] = [NoJob EXCEPT
                    !.op = "sbrk", !.pc = "page", !.a = sz[p], !.end = end]]
    /\ UNCHANGED <<free, img, sz, new, stack, lost, panic>>

\* Where there is no page table deallocuvm() goes on a table further, and not
\* at its start.
Skipped(i, n, v) ==
    /\ v % PTESPERTAB < n % PTESPERTAB
    /\ \A k \in TableOf(n) .. TableOf(v) - 1 : k \notin i.tabs

\* deallocuvm() from old down to n pages.
Cut(i, old, n) == [i EXCEPT !.ptes = {v \in @ : v \in n .. old - 1 => Skipped(i, n, v)}]
CutFrees(i, old, n) == Cardinality(i.ptes) - Cardinality(Cut(i, old, n).ptes)

sbrkShrink(p) ==
    /\ At(p, "idle")
    /\ \E n \in 0 .. sz[p] - 1 :
         /\ img' = [img EXCEPT ![p] = Cut(@, sz[p], n)]
         /\ free' = free + CutFrees(img[p], sz[p], n)
         /\ IF n = 0 THEN sz' = sz /\ Goto(p, "fault")
            ELSE sz' = [sz EXCEPT ![p] = n] /\ UNCHANGED job
    /\ p # Init1                        \* init does not call sbrk(-n)
    /\ UNCHANGED <<new, stack, lost, panic>>

(* exit() and the parent's wait().                                         *)
exit(p) ==
    /\ At(p, "idle") \/ At(p, "fault")
    /\ p # Init1
    /\ free' = free + PagesOf(img[p]) + 1
    /\ img' = [img EXCEPT ![p] = NoImage] /\ sz' = [sz EXCEPT ![p] = 0]
    /\ stack' = stack \ {p} /\ Done(p)
    /\ UNCHANGED <<new, lost, panic>>

----------------------------------------------------------------------------
(* fork(): allocproc() takes the kernel stack, copyuvm() the rest; exec()  *)
(* starts with setupkvm().                                                 *)
fork(p) ==
    /\ At(p, "idle") /\ free > 0 /\ free' = free - 1
    /\ \E q \in Proc \ stack :
         /\ stack' = stack \cup {q}
         /\ job' = [job EXCEPT ![p] = [NoJob EXCEPT
                    !.op = "fork", !.pc = "dir", !.end = sz[p], !.child = {q}]]
    /\ UNCHANGED <<img, sz, new, lost, panic>>

exec(p) ==
    /\ At(p, "idle")
    /\ \E n \in Sizes :
         job' = [job EXCEPT ![p] = [NoJob EXCEPT !.op = "exec", !.pc = "dir", !.end = n]]
    /\ UNCHANGED <<free, img, sz, new, stack, lost, panic>>

\* Mutant: "bad" frees the pages and the directory and forgets the tables.
PagesOnly(i) == PagesOf(i) - Cardinality(i.tabs)

freevm(i) == PagesOf(i)

(* The call fails with k pages given back besides those of the new space.  *)
Fail(p, k) ==
    /\ free' = free + k + freevm(new[p]) + Cardinality(job[p].child)
    /\ stack' = stack \ job[p].child
    /\ new' = [new EXCEPT ![p] = NoImage] /\ Done(p)

setupkvmDir(p) ==
    /\ At(p, "dir")
    /\ IF free = 0 THEN Fail(p, 0)
       ELSE /\ free' = free - 1 /\ new' = [new EXCEPT ![p].dir = 1]
            /\ Goto(p, "ktabs") /\ UNCHANGED stack
    /\ UNCHANGED <<img, sz, lost, panic>>

(* When it fails here, setupkvm() returns 0 and what it has is lost.       *)
setupkvm(p) ==
    /\ At(p, "ktabs")
    /\ IF new[p].ktabs = KTABS
       THEN Goto(p, "page") /\ UNCHANGED <<free, new, stack, lost>>
       ELSE IF free > 0
       THEN /\ free' = free - 1 /\ new' = [new EXCEPT ![p].ktabs = @ + 1]
            /\ UNCHANGED <<job, stack, lost>>
       ELSE Fail(p, 0 - PagesOf(new[p])) /\ lost' = lost + PagesOf(new[p])
    /\ UNCHANGED <<img, sz, panic>>

----------------------------------------------------------------------------
Grows(p) == IF Op(p) = "sbrk" THEN img[p] ELSE new[p]

\* Mutant: the whole address space goes.
CutAll(p) == 0

\* deallocuvm(pgdir, newsz, oldsz): the pages from oldsz on.
OldSize(p) == IF Op(p) = "sbrk" THEN sz[p] ELSE 0

(* The loops of allocuvm() and copyuvm(): a page for address a.            *)
kalloc(p) ==
    /\ At(p, "page") /\ job[p].a < job[p].end
    /\ panic' = (Op(p) = "fork" /\ job[p].a \notin img[p].ptes)
    /\ IF free > 0
       THEN /\ free' = free - 1 /\ job' = [job EXCEPT ![p].hand = 1, ![p].pc = "map"]
            /\ UNCHANGED <<img, new, stack>>
       ELSE IF Op(p) = "sbrk"
       THEN /\ img' = [img EXCEPT ![p] = Cut(@, job[p].end, OldSize(p))]
            /\ free' = free + CutFrees(img[p], job[p].end, OldSize(p))
            /\ Done(p) /\ UNCHANGED <<new, stack>>
       ELSE Fail(p, 0) /\ UNCHANGED img
    /\ UNCHANGED <<sz, lost>>

(* mappages(): walkpgdir() may need a page table.  allocuvm() does not     *)
(* look at the result; copyuvm() frees what is mapped, not the page.       *)
Mapped(i, v) == [i EXCEPT !.ptes = @ \cup {v}, !.tabs = @ \cup {TableOf(v)}]

mappages(p) ==
    /\ At(p, "map")
    /\ LET a == job[p].a
           i == Grows(p)
           need == IF TableOf(a) \in i.tabs THEN 0 ELSE 1
           next == [job EXCEPT ![p].hand = 0, ![p].a = a + 1, ![p].pc = "page"]
       IN  IF free >= need
           THEN /\ free' = free - need /\ job' = next
                /\ IF Op(p) = "sbrk"
                   THEN img' = [img EXCEPT ![p] = Mapped(i, a)] /\ new' = new
                   ELSE new' = [new EXCEPT ![p] = Mapped(i, a)] /\ img' = img
                /\ UNCHANGED <<stack, lost>>
           ELSE /\ lost' = lost + 1 /\ img' = img
                /\ IF Op(p) = "fork" THEN Fail(p, 0)
                   ELSE job' = next /\ UNCHANGED <<free, new, stack>>
    /\ panic' = (job[p].a \in Grows(p).ptes)       \* "remap"
    /\ UNCHANGED sz

----------------------------------------------------------------------------
Whole(i, n) == 0 .. n - 1 \subseteq i.ptes
Finished(p, op) == At(p, "page") /\ job[p].a >= job[p].end /\ Op(p) = op

sbrkDone(p) ==
    /\ Finished(p, "sbrk")
    /\ sz' = [sz EXCEPT ![p] = job[p].end] /\ Done(p)
    /\ UNCHANGED <<free, img, new, stack, lost, panic>>

forkDone(p) ==
    /\ Finished(p, "fork")
    /\ \E q \in job[p].child :
         img' = [img EXCEPT ![q] = new[p]] /\ sz' = [sz EXCEPT ![q] = job[p].end]
    /\ new' = [new EXCEPT ![p] = NoImage] /\ Done(p)
    /\ UNCHANGED <<free, stack, lost, panic>>

(* loaduvm(), clearpteu() and copyout() use the new pages and panic on a   *)
(* hole, unless it is where the program has no data; then the image is     *)
(* changed and the old one freed.  Or the program is bad and goes instead. *)
execDone(p) ==
    /\ Finished(p, "exec")
    /\ \/ /\ panic' \in {FALSE, ~Whole(new[p], job[p].end)}
          /\ free' = free + freevm(img[p])
          /\ img' = [img EXCEPT ![p] = new[p]] /\ sz' = [sz EXCEPT ![p] = job[p].end]
          /\ new' = [new EXCEPT ![p] = NoImage] /\ Done(p) /\ stack' = stack
       \/ Fail(p, 0) /\ UNCHANGED <<img, sz, panic>>
    /\ UNCHANGED lost

----------------------------------------------------------------------------
Halted == panic /\ UNCHANGED vars

Next == Halted \/ \E p \in Proc :
    \/ sbrkGrow(p) \/ sbrkShrink(p) \/ exit(p) \/ fork(p) \/ exec(p)
    \/ setupkvmDir(p) \/ setupkvm(p) \/ kalloc(p) \/ mappages(p)
    \/ sbrkDone(p) \/ forkDone(p) \/ execDone(p)

Spec == Init /\ [][Next]_vars

----------------------------------------------------------------------------
(* Every page is free, or part of one address space, or a kernel stack, or *)
(* in the hands of one call, or lost: none is freed twice or while it is   *)
(* mapped, and pages are lost only where setupkvm() or mappages() fails.   *)
PagesConserved == ~panic => NPage = free + lost + Cardinality(stack)
    + MapThenSumSet(LAMBDA p : PagesOf(img[p]) + PagesOf(new[p]) + job[p].hand, Proc)

(* A process that can run has every page below its size, whatever failed   *)
(* before in sbrk(), fork() or exec(): so copyuvm() does not panic.  It    *)
(* holds as long as no mappages() has failed.                              *)
ImageWhole == lost = 0 =>
    /\ ~panic
    /\ \A p \in Proc : job[p].pc # "fault" => Whole(img[p], sz[p])
=============================================================================
