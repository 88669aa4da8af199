------------------------------- MODULE Names -------------------------------
(***************************************************************************)
(* The inode cache, directories, path names and the system calls on names: *)
(* kern/fs.c (ialloc, iget, ilock, iput, dirlookup, dirlink, namex) and    *)
(* kern/sysfile.c (create, open, mkdir, mknod, link, unlink, chdir, close).*)
(*                                                                         *)
(* An inode is its type and link count, a directory its entries; contents  *)
(* are the subject of FileData, transactions of Log.  Sleeping for I_BUSY  *)
(* is a guard (Proc has sleep and wakeup).  What a process does to inodes  *)
(* it has locked is one step with the ilock() before it; ilock() while     *)
(* another inode is locked, ialloc(), iget() after it and the halves of an *)
(* iput() that frees are steps of their own.                               *)
(***************************************************************************)
EXTENDS Integers, Sequences, FiniteSets

CONSTANTS
    Proc, NoProc,
    NInum,                  \* sb.ninodes - 1: inodes are 1 .. NInum
    NINODE,                 \* param.h: entries of the inode cache
    Name,                   \* file names, "." and ".." aside
    Calls,                  \* by process, the calls it makes: [op, abs, path, abs2, new]
    Chain                   \* the nested directories mkfs put on the disk

Inum == 1 .. NInum
ROOTINO == 1
None == 0
Entry == Name \cup {".", ".."}
NoEntries == [n \in Entry |-> None]
Invalid == [type |-> "INVALID", nlink |-> 0]        \* no I_VALID
Free == [type |-> "FREE", nlink |-> 0]

VARIABLES
    dinode, ent,            \* on disk: inodes, entries of directories
    ref, busy, core,        \* the cache: ip->ref, I_BUSY's holder, the copy
    cwd, ofile,             \* by process: proc->cwd, the inode it has open
    t,                      \* by process: the call it is in
    panic

disk == <<dinode, ent>>
vars == <<disk, ref, busy, core, cwd, ofile, t, panic>>

Idle == [pc |-> "idle", op |-> "none", rest |-> <<>>, abs2 |-> FALSE, new |-> <<>>,
         ip |-> None, dp |-> None, old |-> None, todo |-> <<>>, freeing |-> FALSE]

(* tools/mkfs.c: ialloc() sets nlink to 1; makdir() enters "." and ".."    *)
(* and leaves the link count of the parent alone.                          *)
MadeByMkfs(i) == i <= Len(Chain) + 1

MkfsEntries(i) == [n \in Entry |->
    CASE n = "." -> i
      [] n = ".." -> IF i = ROOTINO THEN i ELSE i - 1
      [] OTHER -> IF i <= Len(Chain) /\ n = Chain[i] THEN i + 1 ELSE None]

(* Every process, init too, is in the root directory.                      *)
Init ==
    /\ dinode = [i \in Inum |-> IF MadeByMkfs(i) THEN [type |-> "DIR", nlink |-> 1] ELSE Free]
    /\ ent = [i \in Inum |-> IF MadeByMkfs(i) THEN MkfsEntries(i) ELSE NoEntries]
    /\ ref = [i \in Inum |-> IF i = ROOTINO THEN Cardinality(Proc) + 1 ELSE 0]
    /\ busy = [i \in Inum |-> NoProc]
    /\ core = [i \in Inum |-> Invalid]
    /\ cwd = [p \in Proc |-> ROOTINO] /\ ofile = [p \in Proc |-> None]
    /\ t = [p \in Proc |-> Idle]
    /\ panic = "no"

----------------------------------------------------------------------------
At(p, l) == panic = "no" /\ t[p].pc = l /\ t[p].todo = <<>>

\* Go on at l once the inodes of the sequence s are put.
Go(p, l, s) == t' = [t EXCEPT ![p].pc = l, ![p].todo = s]

\* The call ends, once the inodes of s are put.
Done(p, s) == t' = [t EXCEPT ![p] = [Idle EXCEPT !.todo = s]]

Locked(i, p) == [busy EXCEPT ![i] = p]
Unlocked(S) == [i \in Inum |-> IF i \in S THEN NoProc ELSE busy[i]]

(* iget() of an inode number; idup() of a cached inode.                    *)
CacheFull(i) == ref[i] = 0 /\ Cardinality({j \in Inum : ref[j] > 0}) = NINODE

iget(i) ==
    /\ ref' = [ref EXCEPT ![i] = @ + 1]
    /\ panic' = IF CacheFull(i) THEN "iget: no inodes" ELSE panic

\* nameiparent(), not namei().
WantParent(p) ==
    t[p].op \in {"create", "mkdir", "mknod", "unlink"} \/ t[p].old # None

(* The inode p is about to ilock(), and what it finds when it has it.      *)
Target(p) ==
    IF t[p].todo # <<>> THEN None
    ELSE CASE t[p].pc = "walk" -> IF t[p].rest = <<>> /\ WantParent(p) THEN None ELSE t[p].ip
           [] t[p].pc \in {"found", "child", "new"} -> t[p].ip
           [] t[p].pc = "parent" -> t[p].dp
           [] t[p].pc = "bad" -> t[p].old
           [] OTHER -> None

Copy(i) == IF core[i] = Invalid THEN dinode[i] ELSE core[i]
IsDir(i) == Copy(i).type = "DIR"

NoType(i) == core[i] = Invalid /\ dinode[i].type = "FREE"

ilock(p, i) == Target(p) = i /\ busy[i] = NoProc /\ ~NoType(i)

\* The copy of i becomes c; iupdate() writes it to disk.
iupdate(i, c) == /\ core' = [core EXCEPT ![i] = c]
                 /\ dinode' = [dinode EXCEPT ![i] = c]
AddLink(i, n) == [Copy(i) EXCEPT !.nlink = @ + n]

OneLess(i) == AddLink(i, -1)

Loaded(i) == core' = [core EXCEPT ![i] = Copy(i)]

(* iput() of the first inode p has to put: drop the reference, or, when it *)
(* is the last one and there are no links, take I_BUSY and free the inode. *)
\* Mutant: other references do not count.
NoLinks(i) == core[i] # Invalid /\ core[i].nlink = 0

LastPut(i) == ref[i] = 1 /\ core[i] # Invalid /\ core[i].nlink = 0

Dropped(p, i) ==
    /\ ref' = [ref EXCEPT ![i] = @ - 1]
    /\ t' = [t EXCEPT ![p].todo = Tail(@), ![p].freeing = FALSE]

iput(p) ==
    /\ panic = "no" /\ t[p].todo # <<>> /\ ~t[p].freeing
    /\ LET i == Head(t[p].todo) IN
       /\ ~LastPut(i)
       /\ Dropped(p, i)
       /\ core' = [core EXCEPT ![i] = IF ref[i] = 1 THEN Invalid ELSE @]   \* iget() clears flags
    /\ UNCHANGED <<disk, busy, cwd, ofile, panic>>

iputFrees(p) ==
    /\ panic = "no" /\ t[p].todo # <<>> /\ ~t[p].freeing
    /\ LET i == Head(t[p].todo) IN
       /\ LastPut(i)
       /\ panic' = IF busy[i] # NoProc THEN "iput busy" ELSE panic
       /\ busy' = Locked(i, p)
       /\ ent' = [ent EXCEPT ![i] = NoEntries]              \* itrunc()
       /\ iupdate(i, Free)
    /\ t' = [t EXCEPT ![p].freeing = TRUE]
    /\ UNCHANGED <<ref, cwd, ofile>>

\* Mutant: only I_BUSY is cleared.
KeepValid(i) == core

ClearFlags(i) == [core EXCEPT ![i] = Invalid]

iputFreed(p) ==
    /\ panic = "no" /\ t[p].freeing
    /\ LET i == Head(t[p].todo) IN
       /\ busy' = Unlocked({i})
       /\ core' = ClearFlags(i)
       /\ Dropped(p, i)
    /\ UNCHANGED <<disk, cwd, ofile, panic>>

----------------------------------------------------------------------------
(* A call starts: begin_op(), then namex() takes the root or proc->cwd.    *)
StartDir(p, abs) == IF abs THEN ROOTINO ELSE cwd[p]

StartCall(p) ==
    /\ At(p, "idle")
    /\ \E c \in Calls[p] :
         /\ c.op \in {"open", "create"} => ofile[p] = None      \* bound: one open file
         /\ iget(StartDir(p, c.abs))
         /\ t' = [t EXCEPT ![p] =
                [Idle EXCEPT !.pc = "walk", !.op = c.op, !.rest = c.path,
                             !.ip = StartDir(p, c.abs), !.abs2 = c.abs2, !.new = c.new]]
    /\ UNCHANGED <<disk, busy, core, cwd, ofile>>

\* Mutant: the directory where the lookup failed is not put.
FailLeaks(p, s) ==
    IF t[p].old # None
    THEN t' = [t EXCEPT ![p] = [@ EXCEPT !.pc = "bad", !.ip = None, !.dp = None]]
    ELSE Done(p, <<>>)

\* The lookup fails; sys_link() then undoes its nlink++.
Fail(p, s) ==
    IF t[p].old # None
    THEN t' = [t EXCEPT ![p] = [@ EXCEPT !.pc = "bad", !.ip = None, !.dp = None, !.todo = s]]
    ELSE Done(p, s)

\* No element is left: namei() returns the inode, nameiparent() fails.
Found(p) == At(p, "walk") /\ t[p].rest = <<>> /\ ~WantParent(p)

namexNoName(p) ==
    /\ At(p, "walk") /\ t[p].rest = <<>> /\ WantParent(p)
    /\ Fail(p, <<t[p].ip>>)
    /\ UNCHANGED <<disk, ref, busy, core, cwd, ofile, panic>>

namexStep(p) ==
    /\ At(p, "walk") /\ t[p].rest # <<>>
    /\ LET i == t[p].ip
           last == WantParent(p) /\ Len(t[p].rest) = 1
           next == ent[i][Head(t[p].rest)]
       IN  /\ ilock(p, i)
           /\ Loaded(i)
           /\ \/ /\ ~IsDir(i) \/ (~last /\ next = None)
                 /\ Fail(p, <<i>>)
                 /\ UNCHANGED <<ref, panic>>
              \/ /\ IsDir(i) /\ last
                 /\ t' = [t EXCEPT ![p].pc = "parent", ![p].dp = i, ![p].ip = None]
                 /\ UNCHANGED <<ref, panic>>
              \/ /\ IsDir(i) /\ ~last /\ next # None
                 /\ iget(next)
                 /\ t' = [t EXCEPT ![p].ip = next, ![p].rest = Tail(@), ![p].todo = <<i>>]
    /\ UNCHANGED <<disk, busy, cwd, ofile>>

(* sys_open(), from filealloc() on: the inode becomes an open file, or the *)
(* file table is full (or it is a directory, opened for writing).          *)
OpenOrFail(p, i) ==
    \/ ofile' = [ofile EXCEPT ![p] = i] /\ Done(p, <<>>)
    \/ ofile' = ofile /\ Done(p, <<i>>)

sys_open(p) ==
    /\ Found(p) /\ t[p].op = "open" /\ ilock(p, t[p].ip)
    /\ Loaded(t[p].ip)
    /\ OpenOrFail(p, t[p].ip)
    /\ UNCHANGED <<disk, ref, busy, cwd, panic>>

sys_close(p) ==
    /\ At(p, "idle") /\ ofile[p] # None
    /\ ofile' = [ofile EXCEPT ![p] = None]
    /\ Done(p, <<ofile[p]>>)
    /\ UNCHANGED <<disk, ref, busy, core, cwd, panic>>

ichdir(p) ==
    /\ Found(p) /\ t[p].op = "chdir" /\ ilock(p, t[p].ip)
    /\ Loaded(t[p].ip)
    /\ IF IsDir(t[p].ip)
       THEN cwd' = [cwd EXCEPT ![p] = t[p].ip] /\ Done(p, <<cwd[p]>>)
       ELSE cwd' = cwd /\ Done(p, <<t[p].ip>>)
    /\ UNCHANGED <<disk, ref, busy, ofile, panic>>

----------------------------------------------------------------------------
(* sys_link(): nlink++ on the old inode, then the new name, or undo.       *)
linkOld(p) ==
    /\ Found(p) /\ t[p].op = "link" /\ ilock(p, t[p].ip)
    /\ LET i == t[p].ip
           s == StartDir(p, t[p].abs2)
       IN  \/ /\ IsDir(i)
              /\ Loaded(i) /\ Done(p, <<i>>)
              /\ UNCHANGED <<dinode, ref, panic>>
           \/ /\ ~IsDir(i)
              /\ iupdate(i, AddLink(i, 1))
              /\ iget(s)
              /\ t' = [t EXCEPT ![p].pc = "walk", ![p].old = i, ![p].ip = s,
                                ![p].rest = t[p].new, ![p].new = <<>>]
    /\ UNCHANGED <<ent, busy, cwd, ofile>>

linkNew(p) ==
    /\ At(p, "parent") /\ t[p].op = "link" /\ ilock(p, t[p].dp)
    /\ LET d == t[p].dp
           n == Head(t[p].rest)
       IN  /\ Loaded(d)
           /\ \/ /\ ent[d][n] = None
                 /\ ent' = [ent EXCEPT ![d][n] = t[p].old]
                 /\ Done(p, <<d, t[p].old>>)
                 /\ panic' = panic
              \/ /\ ent[d][n] # None                \* dirlink() gets it and puts it
                 /\ panic' = IF CacheFull(ent[d][n]) THEN "iget: no inodes" ELSE panic
                 /\ Fail(p, <<d>>)
                 /\ ent' = ent
    /\ UNCHANGED <<dinode, ref, busy, cwd, ofile>>

linkBad(p) ==
    /\ At(p, "bad") /\ ilock(p, t[p].old)
    /\ iupdate(t[p].old, OneLess(t[p].old))
    /\ Done(p, <<t[p].old>>)
    /\ UNCHANGED <<ent, ref, busy, cwd, ofile, panic>>

----------------------------------------------------------------------------
(* sys_unlink(): the parent is locked while the child is looked up and     *)
(* locked.                                                                 *)
\* Mutant: "." and ".." may be unlinked.
AnyName(n) == FALSE

IsDot(n) == n \in {".", ".."}

unlinkParent(p) ==
    /\ At(p, "parent") /\ t[p].op = "unlink" /\ ilock(p, t[p].dp)
    /\ LET d == t[p].dp
           n == Head(t[p].rest)
       IN  /\ Loaded(d)
           /\ \/ /\ IsDot(n) \/ ent[d][n] = None
                 /\ Done(p, <<d>>)
                 /\ UNCHANGED <<ref, busy, panic>>
              \/ /\ ~IsDot(n) /\ ent[d][n] # None
                 /\ iget(ent[d][n])
                 /\ busy' = Locked(d, p)
                 /\ t' = [t EXCEPT ![p].pc = "child", ![p].ip = ent[d][n]]
    /\ UNCHANGED <<disk, cwd, ofile>>

isdirempty(i) == \A n \in Name : ent[i][n] = None

unlinkChild(p) ==
    /\ At(p, "child") /\ ilock(p, t[p].ip)
    /\ LET i == t[p].ip
           d == t[p].dp
           dc == AddLink(d, IF IsDir(i) THEN -1 ELSE 0)
       IN  /\ panic' = IF Copy(i).nlink < 1 THEN "unlink: nlink < 1" ELSE panic
           /\ \/ /\ IsDir(i) /\ ~isdirempty(i)
                 /\ Loaded(i)
                 /\ t' = [t EXCEPT ![p].pc = "notempty", ![p].ip = None, ![p].todo = <<i>>]
                 /\ UNCHANGED <<disk, busy>>
              \/ /\ ~IsDir(i) \/ isdirempty(i)
                 /\ ent' = [ent EXCEPT ![d][Head(t[p].rest)] = None]
                 /\ dinode' = [dinode EXCEPT ![d] = dc]
                 /\ core' = [core EXCEPT ![d] = dc, ![i] = Copy(i)]
                 /\ busy' = [busy EXCEPT ![d] = NoProc, ![i] = p]
                 /\ t' = [t EXCEPT ![p].pc = "dec", ![p].dp = None, ![p].todo = <<d>>]
    /\ UNCHANGED <<ref, cwd, ofile>>

unlinkNotEmpty(p) ==
    /\ At(p, "notempty")
    /\ busy' = Unlocked({t[p].dp})
    /\ Done(p, <<t[p].dp>>)
    /\ UNCHANGED <<disk, ref, core, cwd, ofile, panic>>

unlinkDec(p) ==
    /\ At(p, "dec")
    /\ iupdate(t[p].ip, OneLess(t[p].ip))
    /\ busy' = Unlocked({t[p].ip})
    /\ Done(p, <<t[p].ip>>)
    /\ UNCHANGED <<ent, ref, cwd, ofile, panic>>

----------------------------------------------------------------------------
(* create(), for open, mkdir and mknod.                                    *)
TypeOf(op) == CASE op = "create" -> "FILE" [] op = "mkdir" -> "DIR" [] op = "mknod" -> "DEV"
Creates(p) == t[p].op \in {"create", "mkdir", "mknod"}

createParent(p) ==
    /\ At(p, "parent") /\ Creates(p) /\ ilock(p, t[p].dp)
    /\ LET d == t[p].dp
           i == ent[d][Head(t[p].rest)]
       IN  /\ Loaded(d)
           /\ \/ /\ i # None
                 /\ iget(i)
                 /\ t' = [t EXCEPT ![p].pc = "found", ![p].ip = i, ![p].dp = None,
                                   ![p].todo = <<d>>]
                 /\ busy' = busy
              \/ /\ i = None
                 /\ busy' = Locked(d, p)
                 /\ Go(p, "ialloc", <<>>)
                 /\ UNCHANGED <<ref, panic>>
    /\ UNCHANGED <<disk, cwd, ofile>>

createFound(p) ==
    /\ At(p, "found") /\ ilock(p, t[p].ip)
    /\ Loaded(t[p].ip)
    /\ IF t[p].op = "create" /\ ~IsDir(t[p].ip)
       THEN OpenOrFail(p, t[p].ip)
       ELSE ofile' = ofile /\ Done(p, <<t[p].ip>>)
    /\ UNCHANGED <<disk, ref, busy, cwd, panic>>

(* ialloc(): the scan takes a free inode, not always the first: an earlier *)
(* one may be freed behind it.                                             *)
ialloc(p) ==
    /\ At(p, "ialloc")
    /\ \E j \in Inum :
         /\ dinode[j].type = "FREE"
         /\ dinode' = [dinode EXCEPT ![j] = [type |-> TypeOf(t[p].op), nlink |-> 0]]
         /\ t' = [t EXCEPT ![p].pc = "iget", ![p].ip = j]
    /\ UNCHANGED <<ent, ref, busy, core, cwd, ofile, panic>>

iallocIget(p) ==
    /\ At(p, "iget")
    /\ iget(t[p].ip) /\ Go(p, "new", <<>>)
    /\ UNCHANGED <<disk, busy, core, cwd, ofile>>

\* Mutant: the parent does not count the new "..".
NoDotDotLink(op) == 0

DotDotLink(op) == IF op = "mkdir" THEN 1 ELSE 0

createNew(p) ==
    /\ At(p, "new") /\ ilock(p, t[p].ip)
    /\ LET i == t[p].ip
           d == t[p].dp
           ic == [Copy(i) EXCEPT !.nlink = 1]
           dc == AddLink(d, DotDotLink(t[p].op))
       IN  /\ core' = [core EXCEPT ![i] = ic, ![d] = dc]
           /\ dinode' = [dinode EXCEPT ![i] = ic, ![d] = dc]
           /\ ent' = [ent EXCEPT
                ![i] = IF ic.type = "DIR" THEN [@ EXCEPT !["."] = i, ![".."] = d] ELSE @,
                ![d][Head(t[p].rest)] = i]
           /\ busy' = [busy EXCEPT ![d] = NoProc, ![i] = p]
           /\ t' = [t EXCEPT ![p].pc = "made", ![p].dp = None, ![p].todo = <<d>>]
    /\ UNCHANGED <<ref, cwd, ofile, panic>>

createMade(p) ==
    /\ At(p, "made")
    /\ busy' = Unlocked({t[p].ip})
    /\ IF t[p].op = "create" THEN OpenOrFail(p, t[p].ip)
                             ELSE ofile' = ofile /\ Done(p, <<t[p].ip>>)
    /\ UNCHANGED <<disk, ref, core, cwd, panic>>

(* The panics of ilock() and ialloc().                                     *)
PanicOf(p) ==
    IF Target(p) # None /\ busy[Target(p)] = NoProc /\ NoType(Target(p)) THEN "ilock: no type"
    ELSE IF At(p, "ialloc") /\ \A j \in Inum : dinode[j].type # "FREE" THEN "ialloc: no inodes"
    ELSE "no"

Panics(p) ==
    /\ panic = "no" /\ PanicOf(p) # "no"
    /\ panic' = PanicOf(p)
    /\ UNCHANGED <<disk, ref, busy, core, cwd, ofile, t>>

----------------------------------------------------------------------------
Step(p) ==
    \/ Panics(p) \/ iput(p) \/ iputFrees(p) \/ iputFreed(p)
    \/ namexNoName(p) \/ namexStep(p) \/ sys_open(p) \/ ichdir(p)
    \/ linkOld(p) \/ linkNew(p) \/ linkBad(p)
    \/ unlinkParent(p) \/ unlinkChild(p) \/ unlinkNotEmpty(p) \/ unlinkDec(p)
    \/ createParent(p) \/ createFound(p) \/ ialloc(p)
    \/ iallocIget(p) \/ createNew(p) \/ createMade(p)

\* panic() stops the machine.
Halted == panic # "no" /\ UNCHANGED vars

Next == (\E p \in Proc : StartCall(p) \/ sys_close(p) \/ Step(p)) \/ Halted

Spec == Init /\ [][Next]_vars

----------------------------------------------------------------------------
(* fs.c:119-124: "ip->ref tracks the number of in-memory pointers to the   *)
(* entry (open files and current directories)", here with the pointers of  *)
(* calls under way, on every path through them, errors included; the one   *)
(* reference more to the root is that of init's current directory.         *)
Pointers(p) ==
    <<IF t[p].pc = "iget" THEN None ELSE t[p].ip, t[p].dp, t[p].old, cwd[p], ofile[p]>> \o t[p].todo

RefsCounted ==
    LET ptrs == UNION {{<<p, k, Pointers(p)[k]>> : k \in DOMAIN Pointers(p)} : p \in Proc}
                \cup {<<"init", 1, ROOTINO>>}
    IN  \A i \in Inum : ref[i] = Cardinality({x \in ptrs : x[3] = i})

(* fs.c:126-130: what is cached with I_VALID is what is on disk, although  *)
(* ialloc() may give an inode a new life while the iput() that freed it    *)
(* still holds the cache entry.                                            *)
CopiesAgree == \A i \in Inum :
    (ref[i] > 0 /\ core[i] # Invalid /\ ~\E p \in Proc : t[p].freeing /\ Head(t[p].todo) = i)
        => core[i] = dinode[i]

(* No call runs into a panic of ilock(), iput() or unlink(); only running  *)
(* out of inodes, on disk or in the cache, stops the machine.              *)
NoPanic == panic \in {"no", "ialloc: no inodes", "iget: no inodes"}

Reach[k \in Nat] ==
    IF k = 0 THEN {ROOTINO}
    ELSE LET R == Reach[k - 1] IN R \cup ({ent[d][n] : d \in R, n \in Name} \ {None})
Live == Reach[NInum]

(* An inode that a path from the root leads to is allocated, and its link  *)
(* count is at least the number of its names (for a directory, of "..",    *)
(* too), at every moment of every call: it is not freed while it is named. *)
LinksCovered ==
    LET live == Live
        names(i) == {e \in live \X (Entry \ {"."}) : ent[e[1]][e[2]] = i}
    IN  \A i \in live : dinode[i].type # "FREE" /\ dinode[i].nlink >= Cardinality(names(i))

(* Processes never wait for each other's (or their own) inode locks in a   *)
(* cycle: locks are only nested from a directory to what it names.         *)
WaitsFor(p, q) == Target(p) # None /\ busy[Target(p)] = q

NoLockCycle == \A S \in SUBSET Proc \ {{}} :
    \E p \in S : \A q \in S : ~WaitsFor(p, q)
=============================================================================
