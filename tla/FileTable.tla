----------------------------- MODULE FileTable -----------------------------
(***************************************************************************)
(* Open files (kern/file.c) and descriptors: open, pipe, dup, close, fork, *)
(* exit with all their failure paths.  A step is a section under           *)
(* ftable.lock or the release of the object behind a file; a process's     *)
(* descriptors are its own, so changing them joins a step.                 *)
(***************************************************************************)
EXTENDS Integers, Sequences, FiniteSets, FiniteSetsExt, Tally

CONSTANTS
    Proc, Init1,            \* Init1: the process that never exits
    NFILE, NOFILE,          \* param.h
    Page                    \* the pages kalloc() has for pipes

(* init is there, and the tables are finite.                               *)
FileTableAssumption ==
    Init1 \in Proc /\ IsFiniteSet(Proc) /\ NFILE \in Nat /\ NOFILE \in Nat

File == 1 .. NFILE
Fd == 0 .. NOFILE - 1
None == 0                   \* a null struct file*

NoObj == <<"FD_NONE">>      \* f->type with f->ip or f->pipe and the end
AnInode == <<"FD_INODE">>
End(k, e) == <<"FD_PIPE", k, e>>

VARIABLES
    ref, obj,               \* by file
    ofile,                  \* by process and descriptor
    alive,
    child,                  \* by process: the child that its fork() is making
    ends,                   \* by page: the open ends of the pipe in it
    iref,                   \* inode references that files own
    job,                    \* by process: the call it is in
    panic

vars == <<ref, obj, ofile, alive, child, ends, iref, job, panic>>

\* new: files just allocated; todo: files to close; ff: fileclose()'s copy.
NoJob == [pc |-> "idle", new |-> <<>>, todo |-> <<>>, ff |-> NoObj]

Init ==
    /\ ref = [f \in File |-> 0] /\ obj = [f \in File |-> NoObj]
    /\ ofile = [p \in Proc |-> [fd \in Fd |-> None]] 
    /\ alive = {Init1} /\ child = [p \in Proc |-> {}]
    /\ ends = [k \in Page |-> {}] /\ iref = 0
    /\ job = [p \in Proc |-> NoJob] /\ panic = FALSE

At(p, l) ==
    /\ ~panic /\ p \in alive /\ job[p].pc = l
    /\ job[p].todo = <<>> /\ job[p].ff = NoObj

Call(p, l, new, todo) ==
    job' = [job EXCEPT ![p] = [pc |-> l, new |-> new, todo |-> todo, ff |-> NoObj]]

Free == {f \in File : ref[f] = 0}
FreeFd(p) == {fd \in Fd : ofile[p][fd] = None}

\* fdalloc(): the lowest free descriptor.
fdalloc(p, f) == [ofile EXCEPT ![p][Min(FreeFd(p))] = f]

(* filealloc(), and p goes on to l.                                        *)
filealloc(p, l) ==
    /\ Free # {}
    /\ ref' = [ref EXCEPT ![Min(Free)] = 1]
    /\ Call(p, l, Append(job[p].new, Min(Free)), <<>>)

----------------------------------------------------------------------------
(* sys_open(), once it has the inode.                                      *)
sys_open(p) ==
    /\ At(p, "idle") /\ filealloc(p, "open")
    /\ UNCHANGED <<obj, ofile, alive, child, ends, iref, panic>>

openFd(p) ==
    /\ At(p, "open")
    /\ LET f == job[p].new[1]
       IN  IF FreeFd(p) = {}
           THEN Call(p, "idle", <<>>, <<f>>) /\ UNCHANGED <<ofile, obj, iref>>
           ELSE /\ ofile' = fdalloc(p, f)
                /\ obj' = [obj EXCEPT ![f] = AnInode] /\ iref' = iref + 1
                /\ Call(p, "idle", <<>>, <<>>)
    /\ UNCHANGED <<ref, alive, child, ends, panic>>

(* sys_pipe(): pipealloc() takes two files and a page.                     *)
sys_pipe(p) ==
    /\ At(p, "idle") /\ filealloc(p, "pipe")
    /\ UNCHANGED <<obj, ofile, alive, child, ends, iref, panic>>

pipeFile(p) ==
    /\ At(p, "pipe")
    /\ \/ filealloc(p, "page")
       \/ Free = {} /\ Call(p, "idle", <<>>, job[p].new) /\ ref' = ref
    /\ UNCHANGED <<obj, ofile, alive, child, ends, iref, panic>>

\* Mutant: "bad" closes the first file only.
CloseFirst(new) == <<new[1]>>

CloseBoth(new) == new

pipePage(p) ==
    /\ At(p, "page")
    /\ LET new == job[p].new
           free == {k \in Page : ends[k] = {}}
       IN  \/ /\ free = {}
              /\ Call(p, "idle", <<>>, CloseBoth(new)) /\ UNCHANGED <<obj, ends>>
           \/ \E k \in free :
                /\ ends' = [ends EXCEPT ![k] = {"r", "w"}]
                /\ obj' = [obj EXCEPT ![new[1]] = End(k, "r"), ![new[2]] = End(k, "w")]
                /\ Call(p, "fds", new, <<>>)
    /\ UNCHANGED <<ref, ofile, alive, child, iref, panic>>

pipeFds(p) ==
    /\ At(p, "fds")
    /\ LET new == job[p].new
           fd0 == Min(FreeFd(p))
           fd1 == Min(FreeFd(p) \ {fd0})
       IN  IF Cardinality(FreeFd(p)) < 2
           THEN Call(p, "idle", <<>>, new) /\ ofile' = ofile
           ELSE /\ ofile' = [ofile EXCEPT ![p][fd0] = new[1], ![p][fd1] = new[2]]
                /\ Call(p, "idle", <<>>, <<>>)
    /\ UNCHANGED <<ref, obj, alive, child, ends, iref, panic>>

----------------------------------------------------------------------------
(* filedup() for descriptor fd of p.                                       *)
filedup(p, fd) ==
    /\ ref' = [ref EXCEPT ![ofile[p][fd]] = @ + 1]
    /\ panic' = (ref[ofile[p][fd]] < 1)

sys_dup(p) ==
    /\ At(p, "idle") /\ FreeFd(p) # {}
    /\ \E fd \in Fd \ FreeFd(p) :
         filedup(p, fd) /\ ofile' = fdalloc(p, ofile[p][fd])
    /\ UNCHANGED <<obj, alive, child, ends, iref, job>>

sys_close(p) ==
    /\ At(p, "idle")
    /\ \E fd \in Fd \ FreeFd(p) :
         /\ ofile' = [ofile EXCEPT ![p][fd] = None]
         /\ Call(p, "idle", <<>>, <<ofile[p][fd]>>)
    /\ UNCHANGED <<ref, obj, alive, child, ends, iref, panic>>

(* fork(): the child that nobody else is making, a filedup() for each      *)
(* descriptor, and the child can run.                                      *)
fork(p) ==
    /\ At(p, "idle")
    /\ \E q \in Proc \ (alive \cup UNION {child[r] : r \in Proc}) :
         child' = [child EXCEPT ![p] = {q}]
    /\ Call(p, "fork", <<>>, <<>>)
    /\ UNCHANGED <<ref, obj, ofile, alive, ends, iref, panic>>

\* The descriptors of p that its child q does not have yet.
ToDup(p, q) == FreeFd(q) \ FreeFd(p)

forkDup(p) ==
    /\ At(p, "fork")
    /\ \E q \in child[p] :
         /\ ToDup(p, q) # {}
         /\ LET fd == Min(ToDup(p, q))
            IN  filedup(p, fd) /\ ofile' = [ofile EXCEPT ![q][fd] = ofile[p][fd]]
    /\ UNCHANGED <<obj, alive, child, ends, iref, job>>

forkDone(p) ==
    /\ At(p, "fork") /\ \A q \in child[p] : ToDup(p, q) = {}
    /\ alive' = alive \cup child[p] /\ child' = [child EXCEPT ![p] = {}]
    /\ Call(p, "idle", <<>>, <<>>)
    /\ UNCHANGED <<ref, obj, ofile, ends, iref, panic>>

exit(p) ==
    /\ At(p, "idle") /\ p # Init1 /\ Call(p, "exit", <<>>, <<>>)
    /\ UNCHANGED <<ref, obj, ofile, alive, child, ends, iref, panic>>

exitClose(p) ==
    /\ At(p, "exit") /\ FreeFd(p) # Fd
    /\ LET fd == Min(Fd \ FreeFd(p))
       IN  /\ ofile' = [ofile EXCEPT ![p][fd] = None]
           /\ Call(p, "exit", <<>>, <<ofile[p][fd]>>)
    /\ UNCHANGED <<ref, obj, alive, child, ends, iref, panic>>

exitDone(p) ==
    /\ At(p, "exit") /\ FreeFd(p) = Fd
    /\ alive' = alive \ {p} /\ Call(p, "idle", <<>>, <<>>)
    /\ UNCHANGED <<ref, obj, ofile, child, ends, iref, panic>>

----------------------------------------------------------------------------
FreeType(f) == obj' = [obj EXCEPT ![f] = NoObj]

(* fileclose(): the reference goes under the lock, the object afterwards,  *)
(* when the file may already be someone else's.                            *)
fileclose(p) ==
    /\ ~panic /\ job[p].todo # <<>> /\ job[p].ff = NoObj
    /\ LET f == Head(job[p].todo)
       IN  /\ panic' = (ref[f] < 1)
           /\ ref' = [ref EXCEPT ![f] = @ - 1]
           /\ IF ref[f] > 1 THEN obj' = obj ELSE FreeType(f)
           /\ job' = [job EXCEPT
                ![p].todo = Tail(@),
                ![p].ff = IF ref[f] > 1 THEN NoObj ELSE obj[f]]
    /\ UNCHANGED <<ofile, alive, child, ends, iref>>

closeObject(p) ==
    /\ ~panic /\ job[p].ff # NoObj
    /\ LET ff == job[p].ff
       IN  IF ff = AnInode THEN iref' = iref - 1 /\ ends' = ends
           ELSE ends' = [ends EXCEPT ![ff[2]] = @ \ {ff[3]}] /\ iref' = iref
    /\ job' = [job EXCEPT ![p].ff = NoObj]
    /\ UNCHANGED <<ref, obj, ofile, alive, child, panic>>

----------------------------------------------------------------------------
Next == \E p \in Proc :
    \/ sys_open(p) \/ openFd(p)
    \/ sys_pipe(p) \/ pipeFile(p) \/ pipePage(p) \/ pipeFds(p)
    \/ sys_dup(p) \/ sys_close(p)
    \/ fork(p) \/ forkDup(p) \/ forkDone(p)
    \/ exit(p) \/ exitClose(p) \/ exitDone(p)
    \/ fileclose(p) \/ closeObject(p)

Spec == Init /\ [][Next]_vars

----------------------------------------------------------------------------
\* The files that a call has and no descriptor names.
FilesOf(j) == j.new \o j.todo
Called == [p \in Proc |-> FilesOf(job[p])]

(* f->ref counts the descriptors of all processes that name the file and   *)
(* the pointers of the calls that make or close one: so filedup() and      *)
(* fileclose() do not panic, and a file is free when nobody has it.        *)
RefsMatch ==
    /\ ~panic
    /\ \A f \in File :
         ref[f] = Cardinality(Having(ofile, f)) + Cardinality(Having(Called, f))

(* What files own is owned once and given back once: the open ends of a    *)
(* pipe are those that a file, or a fileclose() that has copied one, still *)
(* names; so pipeclose() never sees a page that has been freed, no page is *)
(* lost, and each open inode has its reference.                            *)
Owns(o) ==
    Cardinality({f \in File : ref[f] > 0 /\ obj[f] = o})
    + Cardinality({p \in Proc : job[p].ff = o})

ObjectsMatch ==
    /\ iref = Owns(AnInode)
    /\ \A k \in Page, e \in {"r", "w"} :
         Owns(End(k, e)) = IF e \in ends[k] THEN 1 ELSE 0
=============================================================================
