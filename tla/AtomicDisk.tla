----------------------------- MODULE AtomicDisk -----------------------------
(***************************************************************************)
(* What the logging layer (kern/log.c) promises the file system.  There is *)
(* a committed disk, which survives a crash, and the current one, which    *)
(* the file system calls read and write.  The updates of the calls become  *)
(* durable together, and only at a moment when no call is half done; a     *)
(* crash takes the current disk back to the committed one.                 *)
(***************************************************************************)
EXTENDS Naturals

CONSTANTS Block, Value

VARIABLES committed, current, active

diskVars == <<committed, current, active>>

DiskInit ==
    /\ current \in [Block -> Value] /\ committed = current
    /\ active = 0

Begin == active' = active + 1 /\ UNCHANGED <<committed, current>>

Write ==
    /\ active > 0
    /\ \E old \in {current}, new \in {current'}, b \in Block :
         new[b] \in Value /\ new = [old EXCEPT ![b] = new[b]]
    /\ UNCHANGED <<committed, active>>

End ==
    /\ active > 0 /\ active' = active - 1
    /\ UNCHANGED <<committed, current>>

Commit ==
    /\ active = 0
    /\ committed' = current
    /\ UNCHANGED <<current, active>>

Crash ==
    /\ current' = committed /\ active' = 0
    /\ UNCHANGED committed

DiskNext == Begin \/ Write \/ End \/ Commit \/ Crash

DiskSpec == DiskInit /\ [][DiskNext]_diskVars
=============================================================================
