----------------------------- MODULE MCFileData -----------------------------
(* FileData on small instances.                                            *)
EXTENDS FileData, TLC

CONSTANTS p, q, f1, f2, A, B

(* The processes share a file, or each has one of its own.                 *)
MCShapes == {
    [fd |-> p :> f1 @@ q :> f1, inode |-> f1 :> A @@ f2 :> A],
    [fd |-> p :> f1 @@ q :> f2, inode |-> f1 :> A @@ f2 :> B]}
=============================================================================
