------------------------------ MODULE FileData ------------------------------
(***************************************************************************)
(* The contents of files: block allocation and the block map of an inode   *)
(* (balloc, bmap, itrunc, readi, writei in kern/fs.c), offsets, chunked    *)
(* writes (kern/file.c), open with O_TRUNC and O_APPEND and lseek          *)
(* (kern/sysfile.c).  A call holds the inode's lock for one chunk, which   *)
(* is one step; between chunks, and where the code reads ip->size without  *)
(* the lock, other processes run.  The bytes of one chunk are alike.       *)
(***************************************************************************)
EXTENDS Integers, Sequences, FiniteSets, FiniteSetsExt

CONSTANTS
    Proc, Inode, File,
    BSIZE, NDIRECT, NINDIRECT,      \* fs.h; NINDIRECT <= BSIZE
    NBlock,                 \* sb.nblocks: data blocks are 1 .. NBlock
    MaxChunk,               \* filewrite()'s max, in bytes
    PGSIZE,                 \* mmu.h: the zeroes that lseek() allocates
    Byte,                   \* 0 among them; callers write the others
    Sizes, Offsets,         \* the n of write(), the offsets of lseek()
    Seekers,                \* the processes that call lseek()
    Shapes                  \* who has which file, on which inode: [fd, inode]

MaxBytes == (NDIRECT + NINDIRECT) * BSIZE       \* MAXFILE*BSIZE
DataBlock == 1 .. NBlock
Unmapped == [k \in 0 .. NDIRECT |-> 0]
Zeroes == [k \in 0 .. BSIZE - 1 |-> 0]

VARIABLES
    used, data,             \* the bitmap's set bits; the blocks
    addrs, size,            \* by inode: ip->addrs, ip->size
    fd, inode, off,         \* by process: its file; by file: f->ip, f->off
    job,                    \* by process: the call it is in
    full                    \* balloc() has panicked

blocks == <<used, data, addrs, size>>
vars == <<blocks, fd, inode, off, job, full>>

NoJob == [left |-> 0, to |-> -1, zeros |-> 0, append |-> FALSE]

(* Two processes share a file, or have files on one inode, or on two.      *)
Init ==
    /\ used = {} /\ data = [b \in DataBlock |-> Zeroes]
    /\ addrs = [i \in Inode |-> Unmapped] /\ size = [i \in Inode |-> 0]
    /\ \E s \in Shapes : fd = s.fd /\ inode = s.inode
    /\ off = [f \in File |-> 0]
    /\ job = [p \in Proc |-> NoJob] /\ full = FALSE

----------------------------------------------------------------------------
(* An inode's blocks as one value, so that balloc() and bmap() can follow  *)
(* each other: s.new is the block balloc() returned, s.full its panic.     *)
Blocks(i) == [used |-> used, data |-> data, addrs |-> addrs[i], new |-> 0, full |-> FALSE]

bzero(s, b) == [s.data EXCEPT ![b] = Zeroes]

balloc(s) ==
    IF DataBlock \subseteq s.used THEN [s EXCEPT !.full = TRUE, !.new = 1]
    ELSE LET b == Min(DataBlock \ s.used)
         IN  [s EXCEPT !.used = @ \cup {b}, !.data = bzero(s, b), !.new = b]

bmap(s, bn) ==
    LET MapDirect(k) ==
            IF s.addrs[k] # 0 THEN s
            ELSE LET r == balloc(s) IN [r EXCEPT !.addrs[k] = r.new]
        ind == MapDirect(NDIRECT)
        a == ind.addrs[NDIRECT]
        k == bn - NDIRECT
    IN  IF bn < NDIRECT THEN MapDirect(bn)
        ELSE IF ind.data[a][k] # 0 THEN ind
        ELSE LET r == balloc(ind) IN [r EXCEPT !.data[a][k] = r.new]

\* The address bmap() finds, 0 if there is none yet.
Addr(s, bn) ==
    IF bn < NDIRECT THEN s.addrs[bn]
    ELSE IF s.addrs[NDIRECT] = 0 THEN 0
    ELSE s.data[s.addrs[NDIRECT]][bn - NDIRECT]

\* Mutant: every byte goes to the start of its block.
PutFirst(s, o, v) ==
    LET m == bmap(s, o \div BSIZE)
    IN  IF m.full THEN m ELSE [m EXCEPT !.data[Addr(m, o \div BSIZE)][0] = v]

\* writei()'s loop: n bytes v from offset o on.
PutByte(s, o, v) ==
    LET m == bmap(s, o \div BSIZE)
    IN  IF m.full THEN m ELSE [m EXCEPT !.data[Addr(m, o \div BSIZE)][o % BSIZE] = v]

PutBytes(s, o, n, v) ==
    LET put[k \in 0 .. n] == IF k = 0 THEN s ELSE PutByte(put[k - 1], o + k - 1, v)
    IN  put[n]

Refused(i, o, n) == o > size[i] \/ o + n > MaxBytes

writei(i, o, n, v) ==
    LET s == PutBytes(Blocks(i), o, n, v)
    IN  /\ full' = s.full
        /\ IF s.full THEN UNCHANGED blocks
           ELSE /\ used' = s.used /\ data' = s.data
                /\ addrs' = [addrs EXCEPT ![i] = s.addrs]
                /\ size' = [size EXCEPT ![i] = IF o + n > @ THEN o + n ELSE @]

\* The blocks of an inode, the indirect one and those it names included.
Owned(i) ==
    LET direct == {addrs[i][k] : k \in 0 .. NDIRECT} \ {0}
        ind == addrs[i][NDIRECT]
    IN  direct \cup IF ind = 0 THEN {} ELSE {data[ind][k] : k \in 0 .. NINDIRECT - 1} \ {0}

\* Mutant: the blocks that the indirect block names stay allocated.
DirectOnly(i) == {addrs[i][k] : k \in 0 .. NDIRECT} \ {0}

Freed(i) == Owned(i)

itrunc(i) ==
    /\ used' = used \ Freed(i)
    /\ addrs' = [addrs EXCEPT ![i] = Unmapped] /\ size' = [size EXCEPT ![i] = 0]
    /\ UNCHANGED data

----------------------------------------------------------------------------
Idle(p) == ~full /\ job[p] = NoJob
Writing(p) == ~full /\ job[p].left > 0
Seeking(p) == job[p].to # -1
MinOf(a, b) == IF a < b THEN a ELSE b

sys_write(p) ==
    /\ Idle(p)
    /\ \E n \in Sizes : job' = [job EXCEPT ![p].left = n]
    /\ UNCHANGED <<blocks, fd, inode, off, full>>

(* One turn of filewrite()'s loop.  The bytes are the caller's, or the     *)
(* zeroes of lseek(), and when these are more than a page what follows it. *)
Source(p) ==
    IF ~Seeking(p) THEN Byte \ {0} ELSE IF job[p].zeros <= PGSIZE THEN {0} ELSE Byte

filewrite(p) ==
    /\ Writing(p)
    /\ LET f == fd[p]
           n == MinOf(job[p].left, MaxChunk)
       IN  IF Refused(inode[f], off[f], n)
           THEN /\ job' = [job EXCEPT ![p].left = 0]
                /\ UNCHANGED <<blocks, off, full>>
           ELSE /\ \E v \in Source(p) : writei(inode[f], off[f], n, v)
                /\ off' = [off EXCEPT ![f] = @ + n]
                /\ job' = [job EXCEPT ![p].left = @ - n]
    /\ UNCHANGED <<fd, inode>>

(* fileread(): readi() returns what there is; nothing is transferred when  *)
(* the offset is past the end.                                             *)
fileread(p) ==
    /\ Idle(p)
    /\ \E n \in Sizes :
         LET f == fd[p]
             r == MinOf(n, size[inode[f]] - off[f])
         IN  off' = [off EXCEPT ![f] = IF r > 0 THEN @ + r ELSE @]
    /\ UNCHANGED <<blocks, fd, inode, job, full>>

(* open(): a process opens its inode anew, perhaps with O_TRUNC, although  *)
(* others have it open; for O_APPEND the offset is set after the inode is  *)
(* unlocked.  The file is one that no process has open.                    *)
sys_open(p) ==
    /\ Idle(p)
    /\ \E f \in File :
         /\ \A q \in Proc \ {p} : fd[q] # f
         /\ inode' = [inode EXCEPT ![f] = inode[fd[p]]]
         /\ off' = [off EXCEPT ![f] = 0]
         /\ fd' = [fd EXCEPT ![p] = f]
    /\ itrunc(inode[fd[p]]) \/ UNCHANGED blocks
    /\ \E a \in BOOLEAN : job' = [job EXCEPT ![p].append = a]
    /\ UNCHANGED full

openAppend(p) ==
    /\ ~full /\ job[p].append
    /\ off' = [off EXCEPT ![fd[p]] = size[inode[fd[p]]]]
    /\ job' = [job EXCEPT ![p] = NoJob]
    /\ UNCHANGED <<blocks, fd, inode, full>>

(* lseek(): past the end of the file, zeroes are written, at the current   *)
(* offset, one page less of them in each turn of the loop.                 *)
sys_lseek(p) ==
    /\ Idle(p) /\ p \in Seekers
    /\ \E o \in Offsets, base \in {"SET", "CUR", "END"} :
         LET f == fd[p]
             end == size[inode[f]]
             newoff == o + (CASE base = "SET" -> 0 [] base = "CUR" -> off[f] [] base = "END" -> end)
         IN  /\ newoff \in 0 .. MaxBytes + 1            \* bound
             /\ IF newoff > end
                THEN /\ job' = [job EXCEPT ![p].left = newoff - end, ![p].to = newoff,
                                           ![p].zeros = newoff - end]
                     /\ off' = off
                ELSE off' = [off EXCEPT ![f] = newoff] /\ job' = job
    /\ UNCHANGED <<blocks, fd, inode, full>>

lseekWritten(p) ==
    /\ ~full /\ Seeking(p) /\ job[p].left = 0
    /\ LET z == job[p].zeros - PGSIZE
       IN  IF z > 0
           THEN /\ job' = [job EXCEPT ![p].left = z, ![p].zeros = z]
                /\ off' = off
           ELSE /\ off' = [off EXCEPT ![fd[p]] = job[p].to]
                /\ job' = [job EXCEPT ![p] = NoJob]
    /\ UNCHANGED <<blocks, fd, inode, full>>

----------------------------------------------------------------------------
Step(p) ==
    \/ sys_write(p) \/ filewrite(p) \/ fileread(p)
    \/ sys_open(p) \/ openAppend(p) \/ sys_lseek(p) \/ lseekWritten(p)

\* balloc() has panicked: the machine has stopped.
Halted == full /\ UNCHANGED vars

Next == (\E p \in Proc : Step(p)) \/ Halted

Spec == Init /\ [][Next]_vars

----------------------------------------------------------------------------
(* Blocks hold bytes or block numbers; sizes and offsets stay in range.    *)
TypeOK ==
    /\ used \subseteq DataBlock /\ data \in [DataBlock -> [0 .. BSIZE - 1 -> Byte \cup DataBlock]]
    /\ addrs \in [Inode -> [0 .. NDIRECT -> DataBlock \cup {0}]]
    /\ size \in [Inode -> 0 .. MaxBytes] /\ off \in [File -> 0 .. MaxBytes + 1]
    /\ \A p \in Proc : job[p].left \in 0 .. 2 * MaxBytes

Bytes(i) == [k \in 1 .. size[i] |->
    data[Addr(Blocks(i), (k - 1) \div BSIZE)][(k - 1) % BSIZE]]

Promise == INSTANCE ByteFile WITH content <- [i \in Inode |-> Bytes(i)]

(* readi(), writei() and itrunc() through bmap(), direct and indirect      *)
(* blocks and the free bitmap: each file is the sequence of bytes that was *)
(* written to it, whatever blocks are freed and reused.                    *)
ImplementsFile == Promise!FileSpec

(* The bitmap and the inodes agree: a block in use belongs to one inode,   *)
(* at one place, and no other block is marked (no leak, and bfree() does   *)
(* not panic with "freeing free block").                                   *)
BlocksOwnedOnce == ~full =>
    /\ used = UNION {Owned(i) : i \in Inode}
    /\ \A i, j \in Inode : i # j => Owned(i) \cap Owned(j) = {}
    /\ \A i \in Inode : Cardinality(Owned(i)) =
         Cardinality({k \in 0 .. NDIRECT : addrs[i][k] # 0})
         + Cardinality({bn \in NDIRECT .. NDIRECT + NINDIRECT - 1 : Addr(Blocks(i), bn) # 0})

(* Exactly the blocks below ip->size are mapped, although O_TRUNC cuts     *)
(* files that others have open and offsets are left past the end: bmap()   *)
(* never allocates for readi(), which runs outside of a transaction.       *)
NoHoles == ~full =>
    \A i \in Inode : \A bn \in 0 .. NDIRECT + NINDIRECT - 1 :
        Addr(Blocks(i), bn) # 0 <=> bn * BSIZE < size[i]

(* lseek() moves the offset: the zeroes it writes past the end of a file   *)
(* leave the bytes that are in it as they are.                             *)
SeekKeepsBytes == [][\A p \in Proc, i \in Inode :
    Seeking(p) /\ job'[p] # job[p] =>
        \A k \in 1 .. MinOf(size[i], size'[i]) : Bytes(i)'[k] = Bytes(i)[k]]_vars
=============================================================================
