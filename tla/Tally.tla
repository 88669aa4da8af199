------------------------------- MODULE Tally -------------------------------
(***************************************************************************)
(* Who points at an object: the places, in a table of the pointers of      *)
(* each process, that hold it.  Reference counts are compared with their   *)
(* number.                                                                 *)
(***************************************************************************)
EXTENDS Integers

Places(row, x) == {k \in DOMAIN row : row[k] = x}

Having(table, x) == UNION {{p} \X Places(table[p], x) : p \in DOMAIN table}
=============================================================================
