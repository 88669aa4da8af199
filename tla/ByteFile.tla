------------------------------ MODULE ByteFile ------------------------------
(***************************************************************************)
(* What fs.c promises of the contents of files: a file is a sequence of    *)
(* bytes; a write replaces bytes from an offset inside the sequence or at  *)
(* its end and extends it as needed; truncation empties it.  Nothing that  *)
(* is done to one file changes another.                                    *)
(***************************************************************************)
EXTENDS Integers, Sequences

CONSTANTS Inode, Byte, MaxBytes

VARIABLE content

FileInit == content = [i \in Inode |-> <<>>]

\* s with n bytes v from offset o on.
Splice(s, o, n, v) ==
    [k \in 1 .. (IF o + n > Len(s) THEN o + n ELSE Len(s)) |->
        IF k > o /\ k <= o + n THEN v ELSE s[k]]

Write(old, new) ==
    \E o \in 0 .. Len(old) : \E n \in 1 .. MaxBytes - o, v \in Byte :
        new = Splice(old, o, n, v)

FileNext == \E old \in {content}, new \in {content'} :
    /\ new # old
    /\ \E i \in Inode :
         /\ new = [old EXCEPT ![i] = new[i]]
         /\ new[i] = <<>> \/ Write(old[i], new[i])

fileVars == <<content>>

FileSpec == FileInit /\ [][FileNext]_fileVars
=============================================================================
