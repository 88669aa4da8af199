----------------------------- MODULE ByteStream -----------------------------
(***************************************************************************)
(* What a pipe promises to the processes at its two ends: a bounded stream *)
(* of bytes, delivered in the order they were put in, that accepts no byte *)
(* once a reader has been told that it is at the end of the file.          *)
(* Pipe.tla (kern/pipe.c) is shown to implement this specification.        *)
(***************************************************************************)
EXTENDS Naturals, Sequences

CONSTANTS
    Capacity,   \* bytes the stream can hold
    Byte        \* the byte values

VARIABLES
    queue,      \* bytes put and not yet taken, oldest first
    out,        \* the byte most recently taken
    eof         \* a reader has been told "end of file"

streamVars == <<queue, out, eof>>

Init ==
    /\ queue = << >>
    /\ out \in Byte
    /\ eof = FALSE

Put ==
    /\ ~eof
    /\ Len(queue) < Capacity
    /\ \E b \in Byte : queue' = Append(queue, b)
    /\ UNCHANGED <<out, eof>>

Take ==
    /\ queue # << >>
    /\ out' = Head(queue)
    /\ queue' = Tail(queue)
    /\ UNCHANGED eof

EndOfFile ==
    /\ queue = << >>
    /\ eof' = TRUE
    /\ UNCHANGED <<queue, out>>

Next == Put \/ Take \/ EndOfFile

Spec == Init /\ [][Next]_streamVars
=============================================================================
