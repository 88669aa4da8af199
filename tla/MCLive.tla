------------------------------- MODULE MCLive -------------------------------
(***************************************************************************)
(* What must eventually happen in the log, in a pipe and when the          *)
(* processors start, on small instances side by side: part says which of   *)
(* them a behaviour is about; the variables of the others stay at their    *)
(* initial values.  Log is extended, the others are instances.             *)
(***************************************************************************)
EXTENDS Log

VARIABLES
    part,
    data, nread, nwrite, readopen, writeopen, freed, lock, rd, wr, ppc, i, n,
    killed, out, eof, gaveup,                                       \* Pipe
    bpc, c, word, stack, started, pages, use_lock, kmem, locked, ready \* Boot

pipe == <<data, nread, nwrite, readopen, writeopen, freed, lock, rd, wr, ppc, i, n,
          killed, out, eof, gaveup>>
boot == <<bpc, c, word, stack, started, pages, use_lock, kmem, locked, ready>>

P == INSTANCE Pipe WITH
    PIPESIZE <- 1, UINT <- 2, Byte <- {"x"}, Proc <- {1, 2}, NoProc <- 0, MaxN <- 2,
    pc <- ppc

B == INSTANCE Boot WITH NCPU <- 3, pc <- bpc

ASSUME ProcessorsAssumption == B!BootAssumption

----------------------------------------------------------------------------
MCInit ==
    /\ part \in {"log", "pipe", "boot"}
    /\ Init /\ P!Init /\ B!Init
    /\ part # "pipe" => rd = {1} /\ wr = {1}

(* The pipe's life ends when both ends are closed.                         *)
MCNext ==
    \/ part = "log" /\ Next /\ UNCHANGED <<part, pipe, boot>>
    \/ part = "pipe" /\ (P!Next \/ UNCHANGED pipe) /\ UNCHANGED <<part, vars, boot>>
    \/ part = "boot" /\ B!Next /\ UNCHANGED <<part, vars, pipe>>

(* The fairness of each part while the behaviour is about it.              *)
LogFair ==
    /\ WF_vars(part = "log" /\ (read_head \/ Replay \/ recover_from_log))
    /\ \A p \in Proc :
         /\ WF_vars(part = "log" /\ pc[p] # "idle" /\ Step(p))
         /\ SF_vars(part = "log" /\ end_op(p))

PipeFair == \A p \in {1, 2} :
    /\ WF_pipe(part = "pipe" /\ P!Step(p)) /\ SF_pipe(part = "pipe" /\ P!Acquire(p))
    /\ WF_pipe(part = "pipe" /\ killed[p] /\ P!fileclose(p))

BootFair ==
    /\ WF_boot(part = "boot" /\ B!Boots)
    /\ \A k \in B!CPU : WF_boot(part = "boot" /\ B!Runs(k))

MCSpec ==
    /\ MCInit /\ [][MCNext]_<<part, vars, pipe, boot>>
    /\ LogFair /\ PipeFair /\ BootFair

----------------------------------------------------------------------------
(* Pipe's CloseReleasesPeers: pipeclose() releases whoever waits for the   *)
(* end that closes.                                                        *)
CloseReleasesPeers == P!CloseReleasesPeers

(* Boot's KmemExclusive and StacksDistinct, of kinit2(), startothers() and *)
(* mpenter(): one processor at a time uses the free list and releases the  *)
(* lock it took, and no two get the same stack.                            *)
ProcessorsApart == part = "boot" => B!KmemExclusive /\ B!StacksDistinct

(* Boot's AllStart, of startothers() and mpmain(): all processors get to   *)
(* scheduler().                                                            *)
AllStart == part = "boot" => B!AllStart
=============================================================================
