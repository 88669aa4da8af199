------------------------------ MODULE MCNames ------------------------------
(* A disk on which mkfs made /a and /a/b; the calls an ordinary user makes *)
(* to remove the empty directory /a/b and to look at /a.                   *)
EXTENDS Names

CONSTANTS p, q

Abs(op, path) == [op |-> op, abs |-> TRUE, path |-> path, abs2 |-> FALSE, new |-> <<>>]

TwoDirs == <<"a", "b">>
RmdirCalls == [x \in {p, q} |-> {Abs("unlink", <<"a", "b">>), Abs("open", <<"a">>)}]
=============================================================================
