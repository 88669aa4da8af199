----------------------------- MODULE MCStorage -----------------------------
(***************************************************************************)
(* The layers below inodes on small instances, side by side: the buffer    *)
(* cache, the log, the blocks of files.  part says which of them a         *)
(* behaviour is about; the variables of the others stay at their initial   *)
(* values.  Log is extended, the others are instances.                     *)
(***************************************************************************)
EXTENDS Log, TLC

VARIABLES
    part,
    blockno, data, bbusy, valid, bdirty, lru, idequeue, bdisk, bpc, want, bp,
    kept, pins, panicked,                                       \* Bio
    used, contents, addrs, size, fd, inode, off, job, full      \* FileData

buffers == <<blockno, data, bbusy, valid, bdirty, lru, idequeue, bdisk, bpc, want, bp,
             kept, pins, panicked>>
bytes   == <<used, contents, addrs, size, fd, inode, off, job, full>>

(* More blocks than buffers, so that buffers are recycled and run out.     *)
B == INSTANCE Bio WITH
    Buf <- {"b1", "b2"}, NoBuf <- "none", NBUF <- 2, Block <- 1 .. 3, NoBlock <- 0,
    Value <- {"x", "y"}, Outcome <- {"ok"}, MaxPins <- 1,
    busy <- bbusy, dirty <- bdirty, disk <- bdisk, pc <- bpc

ASSUME BuffersAssumption == B!BioAssumption

(* The processes share a file, or each has one of its own.                 *)
MCShapes == {[fd |-> <<1, 1>>, inode |-> <<1, 1>>], [fd |-> <<1, 2>>, inode |-> <<1, 2>>]}

(* Files of up to two blocks, one of them behind the indirect block, on a  *)
(* disk with three: they run out.                                          *)
D == INSTANCE FileData WITH
    Proc <- {1, 2}, Inode <- {1, 2}, File <- {1, 2}, BSIZE <- 2, NDIRECT <- 1,
    NINDIRECT <- 1, NBlock <- 3, MaxChunk <- 2, PGSIZE <- 3, Byte <- {0, 1},
    Sizes <- {1, 3}, Offsets <- {0, 3}, Seekers <- {1}, Shapes <- MCShapes,
    data <- contents

----------------------------------------------------------------------------
(* One part's initial states at a time, and one initial state of each of   *)
(* the others.  The buffers are alike: lru starts in one of its orders.    *)
MCInit ==
    /\ part \in {"log", "bio", "data"}
    /\ Init /\ B!Init /\ D!Init
    /\ lru[1] = "b1"
    /\ part # "log" => home = [b \in Block |-> CHOOSE v \in Value : TRUE]
    /\ part # "bio" => bdisk = <<"x", "x", "x">>
    /\ part # "data" => fd = <<1, 1>>

MCNext ==
    \/ part = "log" /\ Next /\ UNCHANGED <<part, buffers, bytes>>
    \/ part = "bio" /\ B!Next /\ UNCHANGED <<part, vars, bytes>>
    \/ part = "data" /\ D!Next /\ UNCHANGED <<part, vars, buffers>>

(* Nothing tells the log's blocks apart, nor its processes.                *)
Alike == Permutations(Block) \cup Permutations(Proc)

MCSpec == MCInit /\ [][MCNext]_<<part, vars, buffers, bytes>>

----------------------------------------------------------------------------
(* The log (log.c), the buffers (bio.c, ide.c) and the blocks of files     *)
(* (fs.c, file.c) keep their types.                                        *)
LayersTypeOK == TypeOK /\ (part = "bio" => B!TypeOK) /\ (part = "data" => D!TypeOK)

(* Bio's SleepersHaveReason and QueueSound: a process sleeps in bget()     *)
(* only as long as another holds the buffer, and one asleep in iderw() has *)
(* its buffer in the queue, once.                                          *)
BufferWaitsEnd == part = "bio" => B!SleepersHaveReason /\ B!QueueSound

(* Bio's PanicsOnlyWhenFull: only bget() panics, when all buffers are in   *)
(* use.                                                                    *)
PanicsOnlyWhenFull == part = "bio" => B!PanicsOnlyWhenFull

(* Bio's ImplementsBlockStore: bread() returns the block's last value and  *)
(* brelse() keeps what was written, whatever is recycled meanwhile.        *)
BioImplementsStore ==
    /\ part = "bio" => B!Store!StoreInit
    /\ [][part = "bio" /\ (B!Store!storeVars)' # B!Store!storeVars
            => B!Store!StoreNext]_buffers

(* FileData's BlocksOwnedOnce and NoHoles, of balloc(), bfree(), bmap()    *)
(* and itrunc(): each block in use belongs to one inode, at one place, and *)
(* the blocks below ip->size are mapped and no others, so that readi()     *)
(* never allocates.                                                        *)
BlocksAccounted == part = "data" => D!BlocksOwnedOnce /\ D!NoHoles

(* FileData's ImplementsFile, of readi(), writei() and itrunc(): a file is *)
(* the bytes written to it.                                                *)
DataImplementsFile ==
    /\ part = "data" => D!Promise!FileInit
    /\ [][part = "data" /\ <<contents, addrs, size>>' # <<contents, addrs, size>>
            => [D!Promise!FileNext]_(D!Promise!fileVars)]_bytes
=============================================================================
