------------------------------- MODULE MCProc -------------------------------
(* Proc.tla for TLC.                                                        *)
EXTENDS Proc, TLC

Symmetry == Permutations(CPU)
=============================================================================
