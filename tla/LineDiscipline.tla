--------------------------- MODULE LineDiscipline ---------------------------
(***************************************************************************)
(* What the console's input (kern/console.c) promises to those who type    *)
(* and those who read: a queue of finished input and a line that can still *)
(* be edited.  Nothing that is finished is ever edited, lost or reordered. *)
(***************************************************************************)
EXTENDS Integers, Sequences, SequencesExt

CONSTANTS Reader, Char, NL, CR, EOF, ERASE, KILL, Capacity

VARIABLES
    ready, line,    \* finished input; the line being typed
    canon,          \* ICANON
    dst             \* by reader: what its read() has got so far

lineVars == <<ready, line, canon, dst>>

LineInit == ready = <<>> /\ line = <<>> /\ canon = TRUE /\ dst = [p \in Reader |-> <<>>]

Finished(c) == ~canon \/ c \in {NL, EOF} \/ Len(ready) + Len(line) + 1 = Capacity

Type(c) ==
    /\ Len(ready) + Len(line) < Capacity
    /\ ~(canon /\ c \in {CR, ERASE, KILL})
    /\ IF Finished(c) THEN ready' = ready \o Append(line, c) /\ line' = <<>>
       ELSE line' = Append(line, c) /\ ready' = ready
    /\ UNCHANGED <<canon, dst>>

Edit ==
    /\ canon /\ line # <<>>
    /\ line' \in {Front(line), <<>>}
    /\ UNCHANGED <<ready, canon, dst>>

(* A reader takes the oldest character; end-of-file is taken by the read() *)
(* that has nothing yet, and returns nothing.                              *)
Take(p) ==
    /\ ready # <<>> /\ ready' = Tail(ready)
    /\ IF Head(ready) = EOF /\ canon THEN dst[p] = <<>> /\ dst' = dst
       ELSE dst' = [dst EXCEPT ![p] = Append(@, Head(ready))]
    /\ UNCHANGED <<line, canon>>

Return(p) == dst' = [dst EXCEPT ![p] = <<>>] /\ UNCHANGED <<ready, line, canon>>

SetMode == canon' = ~canon /\ UNCHANGED <<ready, line, dst>>

LineNext ==
    \/ \E c \in Char : Type(c)
    \/ Edit \/ SetMode
    \/ \E p \in Reader : Take(p) \/ Return(p)

LineSpec == LineInit /\ [][LineNext]_lineVars
=============================================================================
