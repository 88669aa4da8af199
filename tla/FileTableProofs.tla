-------------------------- MODULE FileTableProofs --------------------------
(***************************************************************************)
(* Reference counts of open files are right, and what files own is owned   *)
(* once, for any number of processes, files, descriptors and pipe pages.   *)
(* The counts are sizes of sets of places that hold a file (Tally): a step *)
(* changes the row of one process, so an action need only say what that    *)
(* row had and has (OwnStep).  The inductive invariant adds what a call    *)
(* has at each of its places (Jobs), that a file just made is in no other  *)
(* hands, which is why giving it an object or a descriptor harms nobody    *)
(* (Fresh), and that a free file has no object (Spare).                    *)
(***************************************************************************)
EXTENDS FileTable, Lemmas

Labels == {"idle", "open", "pipe", "page", "fds", "fork", "exit"}
Object == {NoObj, AnInode} \cup {End(k, e) : k \in Page, e \in {"r", "w"}}
Job == [pc : Labels, new : Seq(File), todo : Seq(File), ff : Object]
Rows == [Fd -> File \cup {None}]

Types ==
    /\ ref \in [File -> Nat] /\ obj \in [File -> Object]
    /\ ofile \in [Proc -> Rows] /\ ends \in [Page -> SUBSET {"r", "w"}] 
    /\ iref \in Nat /\ job \in [Proc -> Job]

(* What a call has at each place: the files it makes, or those to close.   *)
Shape(j) ==
    /\ j.pc \in {"open", "pipe"} => Len(j.new) = 1 /\ j.todo = <<>> /\ j.ff = NoObj
    /\ j.pc \in {"page", "fds"} => Len(j.new) = 2 /\ j.todo = <<>> /\ j.ff = NoObj
    /\ j.pc \in {"idle", "fork", "exit"} => j.new = <<>> /\ Len(j.todo) <= 2

Jobs == \A p \in Proc : Shape(job[p])

(* A file that a call has just made is in no other hands.                  *)
FreshAt(p) == \A k \in DOMAIN job[p].new :
    /\ \A q \in Proc, fd \in Fd : ofile[q][fd] # job[p].new[k]
    /\ \A q \in Proc : \A j \in DOMAIN FilesOf(job[q]) :
         FilesOf(job[q])[j] = job[p].new[k] => q = p /\ j = k
    /\ job[p].pc # "fds" => obj[job[p].new[k]] = NoObj

Fresh == \A p \in Proc : FreshAt(p)

Spare == \A f \in File : ref[f] = 0 => obj[f] = NoObj

(* fork() makes processes.                                                 *)
Children == child \in [Proc -> SUBSET Proc]

IInv == Types /\ Jobs /\ Fresh /\ Spare /\ RefsMatch /\ ObjectsMatch

----------------------------------------------------------------------------
(* The sets that counts range over.                                        *)
LEMMA Finite ==
    ASSUME FileTableAssumption
    PROVE  /\ IsFiniteSet(File) /\ IsFiniteSet(Fd) /\ IsFiniteSet(1 .. 2)
           /\ File \subseteq Nat /\ Fd \subseteq Nat /\ None \notin File
  <1>1. 1 \in Int /\ 2 \in Int /\ 0 \in Int /\ NFILE \in Int /\ NOFILE - 1 \in Int
    BY DEF FileTableAssumption
  <1>2. IsFiniteSet(1 .. NFILE) /\ IsFiniteSet(0 .. NOFILE - 1) /\ IsFiniteSet(1 .. 2)
    BY <1>1, FS_Interval, Zenon
  <1>3. File \subseteq Nat /\ Fd \subseteq Nat /\ None \notin File
    BY DEF FileTableAssumption, File, Fd, None
  <1> QED  BY <1>2, <1>3, Zenon DEF File, Fd

(* A call's files.                                                         *)
LEMMA FilesOfCall ==
    ASSUME NEW j \in Job, Shape(j)
    PROVE  /\ FilesOf(j) \in Seq(File) /\ DOMAIN FilesOf(j) \subseteq 1 .. 2
           /\ Len(FilesOf(j)) <= 2
           /\ j.pc \in {"open", "pipe", "page", "fds"} => FilesOf(j) = j.new
           /\ j.pc \in {"idle", "fork", "exit"} => FilesOf(j) = j.todo
           /\ DOMAIN j.new \subseteq DOMAIN FilesOf(j)
           /\ \A k \in DOMAIN j.new : FilesOf(j)[k] = j.new[k]
  <1>1. j.pc \in Labels /\ j.new \in Seq(File) /\ j.todo \in Seq(File)  BY DEF Job
  <1>2. CASE j.pc \in {"open", "pipe", "page", "fds"}
    <2>1. j.todo = <<>> /\ Len(j.new) \in {1, 2}  BY <1>2 DEF Shape
    <2>2. FilesOf(j) = j.new  BY <1>1, <2>1 DEF FilesOf
    <2>3. DOMAIN j.new \subseteq 1 .. 2  BY <1>1, <2>1
    <2>5. Len(j.new) <= 2
      <3>1. CASE Len(j.new) = 1  BY <3>1
      <3>2. CASE Len(j.new) = 2  BY <3>2
      <3> QED  BY <2>1, <3>1, <3>2, Zenon
    <2>4. j.pc \notin {"idle", "fork", "exit"}  BY <1>2
    <2> QED  BY <1>1, <2>2, <2>3, <2>4, <2>5, Zenon
  <1>3. CASE j.pc \in {"idle", "fork", "exit"}
    <2>1. j.new = <<>> /\ Len(j.todo) <= 2  BY <1>3, Zenon DEF Shape
    <2>2. FilesOf(j) = j.todo  BY <1>1, <2>1 DEF FilesOf
    <2>3. DOMAIN j.todo \subseteq 1 .. 2  BY <1>1, <2>1
    <2>4. DOMAIN j.new = {}  BY <2>1
    <2>5. j.pc \notin {"open", "pipe", "page", "fds"}  BY <1>3
    <2> QED  BY <1>1, <2>1, <2>2, <2>3, <2>4, <2>5, Zenon
  <1> QED  BY <1>1, <1>2, <1>3, Zenon DEF Labels

(* The pointers of one process to a file.                                  *)
Mine(row, j, f) == Cardinality(Places(row, f)) + Cardinality(Places(FilesOf(j), f))

Count(o, c, f) == Cardinality(Having(o, f)) + Cardinality(Having(c, f))

Calls(jobs) == [p \in Proc |-> FilesOf(jobs[p])]

(* Well-typed tables have finite rows.                                     *)
Table(o, jobs) == o \in [Proc -> Rows] /\ jobs \in [Proc -> Job] /\ \A p \in Proc : Shape(jobs[p])

LEMMA RowsFinite ==
    ASSUME FileTableAssumption, NEW o, NEW jobs, Table(o, jobs)
    PROVE  /\ Rowed(o, Proc, Fd) /\ Rowed(Calls(jobs), Proc, 1 .. 2)
           /\ \A q \in Proc : Calls(jobs)[q] = FilesOf(jobs[q]) /\ DOMAIN o[q] = Fd
  <1>0. IsFiniteSet(Proc) /\ IsFiniteSet(Fd) /\ IsFiniteSet(1 .. 2)
    BY Finite, Zenon DEF FileTableAssumption
  <1>1. DOMAIN o = Proc /\ \A q \in Proc : DOMAIN o[q] = Fd  BY DEF Table, Rows
  <1>2. DOMAIN Calls(jobs) = Proc /\ \A q \in Proc : Calls(jobs)[q] = FilesOf(jobs[q])  BY DEF Calls
  <1>3. \A q \in Proc : DOMAIN FilesOf(jobs[q]) \subseteq 1 .. 2  BY FilesOfCall, Zenon DEF Table
  <1> QED  BY <1>0, <1>1, <1>2, <1>3, Zenon DEF Rowed

(* When the pointers of one process change, the count does.                *)
CountMoves(o1, j1, o2, j2, p, f) ==
    /\ Count(o1, Calls(j1), f) \in Nat
    /\ Count(o2, Calls(j2), f) = Count(o1, Calls(j1), f)
         - Mine(o1[p], j1[p], f) + Mine(o2[p], j2[p], f)

LEMMA CountStep ==
    ASSUME FileTableAssumption, NEW o1, NEW j1, NEW o2, NEW j2, Table(o1, j1), Table(o2, j2),
           NEW p \in Proc, NEW f,
           \A q \in Proc : q # p => o2[q] = o1[q] /\ j2[q] = j1[q]
    PROVE  CountMoves(o1, j1, o2, j2, p, f)
  <1> DEFINE c1 == Calls(j1)
             c2 == Calls(j2)
  <1>1. Rowed(o1, Proc, Fd) /\ Rowed(c1, Proc, 1 .. 2) /\ \A q \in Proc : c1[q] = FilesOf(j1[q])
    BY RowsFinite, Zenon
  <1>2. Rowed(o2, Proc, Fd) /\ Rowed(c2, Proc, 1 .. 2) /\ \A q \in Proc : c2[q] = FilesOf(j2[q])
    BY RowsFinite, Zenon
  <1>3. /\ \A q \in Proc : q # p => c2[q] = c1[q]
        /\ \A q \in Proc : q # p => o2[q] = o1[q]  BY <1>1, <1>2, Zenon
  <1> HIDE DEF c1, c2
  <1>4. Recounted(o1, o2, p, f)  BY <1>1, <1>2, <1>3, Recount, Zenon
  <1>5. Recounted(c1, c2, p, f)  BY <1>1, <1>2, <1>3, Recount, Zenon
  <1>6. /\ Mine(o1[p], j1[p], f) = Cardinality(Places(o1[p], f)) + Cardinality(Places(c1[p], f))
        /\ Mine(o2[p], j2[p], f) = Cardinality(Places(o2[p], f)) + Cardinality(Places(c2[p], f))
    BY <1>1, <1>2, Zenon DEF Mine
  <1>7. /\ Count(o1, c1, f) = Cardinality(Having(o1, f)) + Cardinality(Having(c1, f))
        /\ Count(o2, c2, f) = Cardinality(Having(o2, f)) + Cardinality(Having(c2, f))
    BY Zenon DEF Count
  <1>8. /\ Count(o1, c1, f) \in Nat
        /\ Count(o2, c2, f) = Count(o1, c1, f) - Mine(o1[p], j1[p], f) + Mine(o2[p], j2[p], f)
    BY <1>4, <1>5, <1>6, <1>7, SMT DEF Recounted
  <1> QED  BY <1>8, Zenon DEF CountMoves, c1, c2

(* Who has a file when its count is 0.                                     *)
LEMMA CountZero ==
    ASSUME FileTableAssumption, NEW o, NEW jobs, Table(o, jobs), NEW f, Count(o, Calls(jobs), f) = 0
    PROVE  /\ \A q \in Proc, fd \in Fd : o[q][fd] # f
           /\ \A q \in Proc : \A k \in DOMAIN FilesOf(jobs[q]) : FilesOf(jobs[q])[k] # f
  <1> DEFINE c == Calls(jobs)
  <1>1. /\ Rowed(o, Proc, Fd) /\ Rowed(c, Proc, 1 .. 2)
        /\ \A q \in Proc : c[q] = FilesOf(jobs[q]) /\ DOMAIN o[q] = Fd  BY RowsFinite, Zenon
  <1>2. Cardinality(Having(o, f)) \in Nat /\ Cardinality(Having(c, f)) \in Nat
    BY <1>1, HavingFinite, Zenon
  <1>3. Cardinality(Having(o, f)) + Cardinality(Having(c, f)) = 0  BY Zenon DEF Count
  <1> HIDE DEF c
  <1>4. Cardinality(Having(o, f)) = 0 /\ Cardinality(Having(c, f)) = 0  BY <1>2, <1>3, SMT
  <1>5. Nowhere(o, Proc, f) /\ Nowhere(c, Proc, f)  BY <1>1, <1>4, NoneHave, Zenon
  <1> QED  BY <1>1, <1>5, Zenon DEF Nowhere

----------------------------------------------------------------------------
(* What an action must show: of counts, of fresh files, of objects.        *)
LEMMA Tables ==
    ASSUME Types, Jobs
    PROVE  Table(ofile, job) /\ Called = Calls(job)
  BY Zenon DEF Types, Jobs, Table, Called, Calls

LEMMA TablesNext ==
    ASSUME Types', Jobs'
    PROVE  Table(ofile', job') /\ Called' = Calls(job')
  BY Zenon DEF Types, Jobs, Table, Called, Calls

LEMMA RefsStep ==
    ASSUME FileTableAssumption, Types, Jobs, RefsMatch, Types', Jobs', NEW p \in Proc,
           \A q \in Proc : q # p => ofile'[q] = ofile[q] /\ job'[q] = job[q],
           \A f \in File : ref'[f] = ref[f] - Mine(ofile[p], job[p], f) + Mine(ofile'[p], job'[p], f),
           ~panic'
    PROVE  RefsMatch'
  <1>1. Table(ofile, job) /\ Called = Calls(job)  BY Tables, Zenon
  <1>2. Table(ofile', job') /\ Called' = Calls(job')  BY TablesNext, Zenon
  <1>3. SUFFICES ASSUME NEW f \in File PROVE ref'[f] = Count(ofile', Called', f)
    BY Zenon DEF RefsMatch, Count
  <1>4. ref[f] = Count(ofile, Called, f)  BY Zenon DEF RefsMatch, Count
  <1>5. CountMoves(ofile, job, ofile', job', p, f)  BY <1>1, <1>2, CountStep, Zenon
  <1>6. ref'[f] = ref[f] - Mine(ofile[p], job[p], f) + Mine(ofile'[p], job'[p], f)  BY Zenon
  <1> QED  BY <1>1, <1>2, <1>4, <1>5, <1>6, Zenon DEF CountMoves

(* A file that is free is in nobody's hands.                               *)
LEMMA FreeUnheld ==
    ASSUME FileTableAssumption, Types, Jobs, RefsMatch, NEW f \in File, ref[f] = 0
    PROVE  /\ \A q \in Proc, fd \in Fd : ofile[q][fd] # f
           /\ \A q \in Proc : \A k \in DOMAIN FilesOf(job[q]) : FilesOf(job[q])[k] # f
  <1>1. Table(ofile, job) /\ Called = Calls(job)  BY Tables, Zenon
  <1>2. Count(ofile, Calls(job), f) = 0  BY <1>1, Zenon DEF RefsMatch, Count
  <1> QED  BY <1>1, <1>2, CountZero, Zenon

(* What p may have after a step: what it or any descriptor had, or a file  *)
(* that was free.                                                          *)
Had(p, f) ==
    \/ f = None
    \/ \E q \in Proc, fd \in Fd : ofile[q][fd] = f
    \/ \E k \in DOMAIN FilesOf(job[p]) : FilesOf(job[p])[k] = f
    \/ f \in File /\ ref[f] = 0

LEMMA FreshNext ==
    ASSUME NEW r \in Proc, NEW s, job'[r].new = s,
           \A k \in DOMAIN s :
             /\ \A q \in Proc, fd \in Fd : ofile'[q][fd] # s[k]
             /\ \A q \in Proc : \A j \in DOMAIN FilesOf(job'[q]) :
                  FilesOf(job'[q])[j] = s[k] => q = r /\ j = k
             /\ job'[r].pc # "fds" => obj'[s[k]] = NoObj
    PROVE  FreshAt(r)'
  BY ZenonT(30) DEF FreshAt

LEMMA FreshStep ==
    ASSUME FileTableAssumption, IInv, Types', Jobs', NEW p \in Proc,
           \A q \in Proc : q # p => ofile'[q] = ofile[q] /\ job'[q] = job[q],
           \A fd \in Fd : Had(p, ofile'[p][fd]),
           \A k \in DOMAIN FilesOf(job'[p]) : Had(p, FilesOf(job'[p])[k]),
           \A f \in File : obj'[f] = obj[f] \/ obj'[f] = NoObj \/ (Had(p, f) /\ ref[f] # 0),
           FreshAt(p)'
    PROVE  Fresh'
  <1>1. SUFFICES ASSUME NEW r \in Proc, r # p PROVE FreshAt(r)'  BY Zenon DEF Fresh
  <1>2. job'[r] = job[r]  BY <1>1, Zenon
  <1>3. SUFFICES ASSUME NEW k \in DOMAIN job[r].new
                 PROVE  /\ \A q \in Proc, fd \in Fd : ofile'[q][fd] # job[r].new[k]
                        /\ \A q \in Proc : \A j \in DOMAIN FilesOf(job'[q]) :
                             FilesOf(job'[q])[j] = job[r].new[k] => q = r /\ j = k
                        /\ job'[r].pc # "fds" => obj'[job[r].new[k]] = NoObj
    <2>1. job'[r].new = job[r].new  BY <1>2, Zenon
    <2> QED  BY <2>1, FreshNext, Zenon
  <1> DEFINE g == job[r].new[k]
  <1>5. job[r] \in Job /\ Shape(job[r])  BY Zenon DEF IInv, Types, Jobs
  <1>6. k \in DOMAIN FilesOf(job[r]) /\ FilesOf(job[r])[k] = g /\ g \in File
    <2>1. k \in DOMAIN FilesOf(job[r]) /\ FilesOf(job[r])[k] = g  BY <1>3, <1>5, FilesOfCall, Zenon
    <2>2. job[r].new \in Seq(File)  BY <1>5 DEF Job
    <2> QED  BY <1>3, <2>1, <2>2
  <1>7. FreshAt(r)  BY Zenon DEF IInv, Fresh
  <1>8. /\ \A q \in Proc, fd \in Fd : ofile[q][fd] # g
        /\ \A q \in Proc : \A j \in DOMAIN FilesOf(job[q]) :
             FilesOf(job[q])[j] = g => q = r /\ j = k
        /\ job[r].pc # "fds" => obj[g] = NoObj
    BY <1>7, Zenon DEF FreshAt
  <1> HIDE DEF g
  <1>9. ~Had(p, g)
    <2>1. g # None  BY <1>6, Finite, Zenon
    <2>2. ref[g] # 0  BY <1>6, FreeUnheld, Zenon DEF IInv
    <2> QED  BY <1>1, <1>8, <2>1, <2>2, Zenon DEF Had
  <1>10. \A q \in Proc, fd \in Fd : ofile'[q][fd] # g
    <2> TAKE q \in Proc, fd \in Fd
    <2>1. CASE q = p  BY <1>9, <2>1, Zenon
    <2>2. CASE q # p
      <3>1. ofile'[q] = ofile[q]  BY <2>2, Zenon
      <3> QED  BY <1>8, <3>1, Zenon
    <2> QED  BY <2>1, <2>2, Zenon
  <1>11. ASSUME NEW q \in Proc, NEW j \in DOMAIN FilesOf(job'[q]), FilesOf(job'[q])[j] = g
         PROVE  q = r /\ j = k
    <2>1. q # p  BY <1>9, <1>11, Zenon
    <2>2. job'[q] = job[q]  BY <2>1, Zenon
    <2>3. j \in DOMAIN FilesOf(job[q]) /\ FilesOf(job[q])[j] = g  BY <1>11, <2>2, Zenon
    <2> QED  BY <1>8, <2>3, Zenon
  <1>12. job'[r].pc # "fds" => obj'[g] = NoObj
    <2>1. obj'[g] = obj[g] \/ obj'[g] = NoObj  BY <1>6, <1>9, Zenon
    <2> QED  BY <1>2, <1>8, <2>1, Zenon
  <1> QED  BY <1>10, <1>11, <1>12, Zenon DEF g

(* Who owns an object: files, and calls of fileclose().                    *)
Names(o) == {f \in File : ref[f] > 0 /\ obj[f] = o}
Closes(o) == {p \in Proc : job[p].ff = o}

LEMMA OwnersFinite ==
    ASSUME FileTableAssumption, NEW S, S \subseteq File \/ S \subseteq Proc
    PROVE  IsFiniteSet(S) /\ Cardinality(S) \in Nat
  <1>1. IsFiniteSet(File) /\ IsFiniteSet(Proc)  BY Finite, Zenon DEF FileTableAssumption
  <1>2. IsFiniteSet(S)  BY <1>1, FS_Subset, Zenon
  <1> QED  BY <1>2, FS_CardinalityType, Zenon

(* Nobody owns more or less than before.                                   *)
LEMMA ObjectsStay ==
    ASSUME ObjectsMatch, iref' = iref, ends' = ends,
           \A q \in Proc : job'[q].ff = job[q].ff,
           \A f \in File : \A o : o # NoObj =>
              ((ref'[f] > 0 /\ obj'[f] = o) <=> (ref[f] > 0 /\ obj[f] = o))
    PROVE  ObjectsMatch'
  <1>1. ASSUME NEW o, o # NoObj PROVE Names(o)' = Names(o) /\ Closes(o)' = Closes(o)
    BY <1>1, Zenon DEF Names, Closes
  <1>2. ASSUME NEW o, o # NoObj PROVE Owns(o)' = Owns(o)
    BY <1>1, <1>2, Zenon DEF Owns, Names, Closes
  <1>3. AnInode # NoObj /\ \A k, e : End(k, e) # NoObj  BY DEF AnInode, NoObj, End
  <1>4. iref' = Owns(AnInode)'  BY <1>2, <1>3, Zenon DEF ObjectsMatch
  <1>5. ASSUME NEW k \in Page, NEW e \in {"r", "w"}
        PROVE  Owns(End(k, e))' = IF e \in ends'[k] THEN 1 ELSE 0
    <2>1. Owns(End(k, e))' = Owns(End(k, e))  BY <1>2, <1>3, Zenon
    <2>2. Owns(End(k, e)) = IF e \in ends[k] THEN 1 ELSE 0  BY Zenon DEF ObjectsMatch
    <2> QED  BY <2>1, <2>2
  <1> QED  BY <1>4, <1>5, Zenon DEF ObjectsMatch

(* The pieces of a step of p that changes only its own pointers.           *)
LEMMA OwnStep ==
    ASSUME FileTableAssumption, IInv, NEW p \in Proc, Types', Jobs', Spare', ObjectsMatch', ~panic',
           \A q \in Proc : q # p => ofile'[q] = ofile[q] /\ job'[q] = job[q],
           \A f \in File : ref'[f] = ref[f] - Mine(ofile[p], job[p], f) + Mine(ofile'[p], job'[p], f),
           \A fd \in Fd : Had(p, ofile'[p][fd]),
           \A k \in DOMAIN FilesOf(job'[p]) : Had(p, FilesOf(job'[p])[k]),
           \A f \in File : obj'[f] = obj[f] \/ obj'[f] = NoObj \/ (Had(p, f) /\ ref[f] # 0),
           FreshAt(p)'
    PROVE  IInv'
  <1>1. Types /\ Jobs /\ RefsMatch  BY Zenon DEF IInv
  <1>2. RefsMatch'  BY <1>1, RefsStep, Zenon
  <1>3. Fresh'  BY FreshStep, Zenon
  <1> QED  BY <1>2, <1>3, Zenon DEF IInv

LEMMA MineNat ==
    ASSUME FileTableAssumption, NEW row \in Rows, NEW j \in Job, Shape(j), NEW f
    PROVE  /\ Cardinality(Places(row, f)) \in Nat /\ Cardinality(Places(FilesOf(j), f)) \in Nat
           /\ Mine(row, j, f) \in Nat
  <1>1. DOMAIN row = Fd /\ DOMAIN FilesOf(j) \subseteq 1 .. 2  BY FilesOfCall DEF Rows
  <1>2. Places(row, f) \subseteq Fd /\ Places(FilesOf(j), f) \subseteq 1 .. 2
    BY <1>1, Zenon DEF Places
  <1>3. IsFiniteSet(Places(row, f)) /\ IsFiniteSet(Places(FilesOf(j), f))
    BY <1>2, Finite, FS_Subset, Zenon
  <1>4. Cardinality(Places(row, f)) \in Nat /\ Cardinality(Places(FilesOf(j), f)) \in Nat
    BY <1>3, FS_CardinalityType, Zenon
  <1> QED  BY <1>4 DEF Mine

LEMMA EmptyIn == <<>> \in Seq(File)
  OBVIOUS

(* Where a call that makes or closes nothing is.                           *)
LEMMA AtFacts ==
    ASSUME IInv, NEW p \in Proc, NEW l, At(p, l)
    PROVE  /\ job[p] \in Job /\ Shape(job[p]) /\ job[p].new \in Seq(File)
           /\ job[p].pc = l /\ job[p].todo = <<>> /\ job[p].ff = NoObj
           /\ FilesOf(job[p]) = job[p].new /\ ~panic
           /\ ofile[p] \in Rows
  <1>1. job[p] \in Job /\ Shape(job[p]) /\ ofile[p] \in Rows  BY DEF IInv, Types, Jobs
  <1>2. job[p].new \in Seq(File)  BY <1>1 DEF Job
  <1>3. job[p].pc = l /\ job[p].todo = <<>> /\ job[p].ff = NoObj /\ ~panic
    BY Zenon DEF At
  <1>4. FilesOf(job[p]) = job[p].new  BY <1>2, <1>3 DEF FilesOf
  <1> QED  BY <1>1, <1>2, <1>3, <1>4, Zenon

Becomes(p, l, new, todo) ==
    /\ job' \in [Proc -> Job]
    /\ job'[p].pc = l /\ job'[p].new = new /\ job'[p].todo = todo /\ job'[p].ff = NoObj
    /\ FilesOf(job'[p]) = new \o todo
    /\ \A q \in Proc : q # p => job'[q] = job[q]

LEMMA CallIs ==
    ASSUME IInv, NEW p \in Proc, NEW l \in Labels, NEW new \in Seq(File), NEW todo \in Seq(File),
           Call(p, l, new, todo)
    PROVE  Becomes(p, l, new, todo)
  <1> DEFINE j == [pc |-> l, new |-> new, todo |-> todo, ff |-> NoObj]
  <1>1. j \in Job  BY DEF Job, Object
  <1>2. job \in [Proc -> Job] /\ job' = [job EXCEPT ![p] = j]  BY Zenon DEF IInv, Types, Call
  <1>3. job' \in [Proc -> Job] /\ job'[p] = j /\ \A q \in Proc : q # p => job'[q] = job[q]
    BY <1>1, <1>2, Zenon
  <1>4. j.pc = l /\ j.new = new /\ j.todo = todo /\ j.ff = NoObj  OBVIOUS
  <1>5. FilesOf(j) = new \o todo  BY <1>4, Zenon DEF FilesOf
  <1> QED  BY <1>3, <1>4, <1>5, Zenon DEF Becomes

(* The processes that stay as they are keep their shape.                   *)
LEMMA JobsStep ==
    ASSUME Jobs, NEW p \in Proc, Shape(job'[p]), \A q \in Proc : q # p => job'[q] = job[q]
    PROVE  Jobs'
  BY Zenon DEF Jobs

----------------------------------------------------------------------------
(* filealloc(): sys_open(), sys_pipe() and its second file.                *)
LEMMA AllocInv ==
    ASSUME FileTableAssumption, IInv, NEW p \in Proc, NEW l,
           \/ At(p, "idle") /\ l \in {"open", "pipe"}
           \/ At(p, "pipe") /\ l = "page",
           filealloc(p, l), UNCHANGED <<obj, ofile, ends, iref, panic>>
    PROVE  IInv'
  <1> DEFINE g == Min(Free)
             new == job[p].new
  <1>1. g \in File /\ ref[g] = 0 /\ ref' = [ref EXCEPT ![g] = 1]
    <2>1. Free \subseteq Nat /\ Free # {}  BY Finite, Zenon DEF Free, filealloc
    <2> QED  BY <2>1, LeastIn, Zenon DEF Free, filealloc
  <1>2. /\ job[p] \in Job /\ Shape(job[p]) /\ new \in Seq(File)
        /\ job[p].todo = <<>> /\ job[p].ff = NoObj
        /\ FilesOf(job[p]) = new /\ ~panic /\ ofile[p] \in Rows
    BY AtFacts, Zenon
  <1>3. /\ Append(new, g) \in Seq(File) /\ l \in Labels /\ l # "fds"
        /\ Call(p, l, Append(new, g), <<>>)
    BY <1>1, <1>2 DEF filealloc, Labels
  <1>4. Becomes(p, l, Append(new, g), <<>>)  BY <1>3, CallIs, EmptyIn, Zenon
  <1>5. FilesOf(job'[p]) = Append(new, g)  BY <1>3, <1>4 DEF Becomes
  <1>6. job' \in [Proc -> Job] /\ \A q \in Proc : q # p => job'[q] = job[q]
    BY <1>4, Zenon DEF Becomes
  <1>7. Shape(job'[p])
    <2>1. Len(new) = IF l = "page" THEN 1 ELSE 0  BY <1>2, Zenon DEF At, Shape
    <2>2. Len(Append(new, g)) = IF l = "page" THEN 2 ELSE 1  BY <1>2, <2>1
    <2> QED  BY <1>4, <2>2 DEF Becomes, Shape
  <1>8. Types'
    <2>1. ref' \in [File -> Nat]  BY <1>1 DEF IInv, Types
    <2> QED  BY <1>6, <2>1, Zenon DEF IInv, Types
  <1>9. Jobs'  BY <1>2, <1>6, <1>7, JobsStep, Zenon DEF IInv
  <1>10. ASSUME NEW f \in File
         PROVE  ref'[f] = ref[f] - Mine(ofile[p], job[p], f) + Mine(ofile'[p], job'[p], f)
    <2>1. ref'[f] = ref[f] + Same(g, f)  BY <1>1 DEF IInv, Types, Same
    <2>2. /\ Cardinality(Places(ofile[p], f)) \in Nat /\ Cardinality(Places(new, f)) \in Nat
          /\ Mine(ofile[p], job[p], f) = Cardinality(Places(ofile[p], f)) + Cardinality(Places(new, f))
      BY <1>2, MineNat, Zenon DEF Mine
    <2>3. /\ Cardinality(Places(Append(new, g), f)) = Cardinality(Places(new, f)) + Same(g, f)
      BY <1>1, <1>2, PlacesAppend, Zenon
    <2>4. Mine(ofile'[p], job'[p], f)
            = Cardinality(Places(ofile[p], f)) + Cardinality(Places(Append(new, g), f))
      BY <1>5, Zenon DEF Mine
    <2>5. ref[f] \in Nat /\ Same(g, f) \in Nat  BY DEF IInv, Types, Same
    <2> QED  BY <2>1, <2>2, <2>3, <2>4, <2>5, SMT
  <1>11. \A fd \in Fd : Had(p, ofile'[p][fd])  BY Zenon DEF Had
  <1>12. ASSUME NEW k \in DOMAIN Append(new, g)
         PROVE  \/ k \in DOMAIN new /\ Append(new, g)[k] = new[k]
                \/ k = Len(new) + 1 /\ Append(new, g)[k] = g
    BY <1>2
  <1>13. \A k \in DOMAIN FilesOf(job'[p]) : Had(p, FilesOf(job'[p])[k])
    BY <1>1, <1>2, <1>5, <1>12, Zenon DEF Had
  <1>14. /\ \A q \in Proc, fd \in Fd : ofile[q][fd] # g
         /\ \A q \in Proc : \A k \in DOMAIN FilesOf(job[q]) : FilesOf(job[q])[k] # g
    BY <1>1, FreeUnheld, Zenon DEF IInv
  <1>15. obj[g] = NoObj  BY <1>1, Zenon DEF IInv, Spare
  <1>16. FreshAt(p)'
    <2>0. job'[p].new = Append(new, g) /\ ofile' = ofile /\ obj' = obj  BY <1>4, Zenon DEF Becomes
    <2>1. SUFFICES ASSUME NEW k \in DOMAIN Append(new, g)
                   PROVE  /\ \A q \in Proc, fd \in Fd : ofile'[q][fd] # Append(new, g)[k]
                          /\ \A q \in Proc : \A j \in DOMAIN FilesOf(job'[q]) :
                               FilesOf(job'[q])[j] = Append(new, g)[k] => q = p /\ j = k
                          /\ obj'[Append(new, g)[k]] = NoObj
      <3> HIDE DEF g, new
      <3> QED  BY <2>0, FreshNext, Zenon
    <2> HIDE DEF g, new
    <2>2. CASE k \in DOMAIN new /\ Append(new, g)[k] = new[k]
      <3>1. FreshAt(p)  BY Zenon DEF IInv, Fresh
      <3>2. /\ \A q \in Proc, fd \in Fd : ofile[q][fd] # new[k]
            /\ \A q \in Proc : \A j \in DOMAIN FilesOf(job[q]) :
                 FilesOf(job[q])[j] = new[k] => q = p /\ j = k
            /\ obj[new[k]] = NoObj
        <4>1. job[p].pc # "fds"  BY DEF At
        <4> QED  BY <2>2, <3>1, <4>1, Zenon DEF FreshAt, new
      <3>3. new[k] # g  BY <1>2, <1>14, <2>2, Zenon DEF new
      <3>4. ASSUME NEW q \in Proc, NEW j \in DOMAIN FilesOf(job'[q]), FilesOf(job'[q])[j] = new[k]
            PROVE  q = p /\ j = k
        <4>1. CASE q # p  BY <1>6, <3>2, <3>4, <4>1, Zenon
        <4>2. CASE q = p
          <5>1. j \in DOMAIN new /\ Append(new, g)[j] = new[j]
            BY <1>5, <1>12, <3>3, <3>4, <4>2, Zenon DEF new, g
          <5>2. j \in DOMAIN FilesOf(job[p]) /\ FilesOf(job[p])[j] = new[k]
            BY <1>2, <1>5, <3>4, <4>2, <5>1, Zenon DEF new, g
          <5> QED  BY <3>2, <4>2, <5>2, Zenon
        <4> QED  BY <4>1, <4>2, Zenon
      <3> QED  BY <2>0, <2>2, <3>2, <3>4, Zenon
    <2>3. CASE k = Len(new) + 1 /\ Append(new, g)[k] = g
      <3>1. ASSUME NEW q \in Proc, NEW j \in DOMAIN FilesOf(job'[q]), FilesOf(job'[q])[j] = g
            PROVE  q = p /\ j = k
        <4>1. q = p  BY <1>6, <1>14, <3>1, Zenon DEF g
        <4>2. j \in DOMAIN Append(new, g) /\ Append(new, g)[j] = g  BY <1>5, <3>1, <4>1, Zenon DEF new, g
        <4>3. ~(j \in DOMAIN new /\ Append(new, g)[j] = new[j])
          BY <1>2, <1>14, <4>2, Zenon DEF new, g
        <4> QED  BY <1>12, <2>3, <4>1, <4>2, <4>3, Zenon DEF new, g
      <3> QED  BY <1>14, <1>15, <2>0, <2>3, <3>1, Zenon DEF g
    <2> QED  BY <1>12, <2>2, <2>3, Zenon DEF new, g
  <1>17. Spare'
    <2>1. \A f \in File : ref'[f] = 0 => ref[f] = 0  BY <1>1 DEF IInv, Types
    <2> QED  BY <2>1, Zenon DEF IInv, Spare
  <1>18. ObjectsMatch'
    <2>1. \A q \in Proc : job'[q].ff = job[q].ff  BY <1>2, <1>4, <1>6, Zenon DEF Becomes
    <2>2. ASSUME NEW f \in File, NEW o, o # NoObj
          PROVE  (ref'[f] > 0 /\ obj'[f] = o) <=> (ref[f] > 0 /\ obj[f] = o)
      <3>1. CASE f = g  BY <1>15, <2>2, <3>1, Zenon
      <3>2. CASE f # g
        <4>1. ref'[f] = ref[f]  BY <1>1, <3>2 DEF IInv, Types
        <4> QED  BY <4>1, Zenon
      <3> QED  BY <3>1, <3>2, Zenon
    <2> QED  BY <2>1, <2>2, ObjectsStay, Zenon DEF IInv
  <1>19. ofile' = ofile /\ obj' = obj /\ ~panic'  BY <1>2, Zenon
  <1>20. \A q \in Proc : q # p => ofile'[q] = ofile[q] /\ job'[q] = job[q]  BY <1>6, <1>19
  <1>21. \A f \in File : obj'[f] = obj[f] \/ obj'[f] = NoObj \/ (Had(p, f) /\ ref[f] # 0)
    BY <1>19, Zenon
  <1> QED  BY <1>8, <1>9, <1>10, <1>11, <1>13, <1>16, <1>17, <1>18, <1>19, <1>20, <1>21, OwnStep, Zenon

----------------------------------------------------------------------------
(* The error paths: the files of the call become files to close.           *)
LEMMA GiveUpInv ==
    ASSUME FileTableAssumption, IInv, NEW p \in Proc, NEW l, At(p, l),
           Call(p, "idle", <<>>, job[p].new),
           UNCHANGED <<ref, obj, ofile, ends, iref, panic>>
    PROVE  IInv'
  <1>0. /\ ref' = ref /\ obj' = obj /\ ofile' = ofile /\ ends' = ends
        /\ iref' = iref /\ (panic' <=> panic)  BY Zenon
  <1> DEFINE new == job[p].new
  <1>1. /\ job[p] \in Job /\ Shape(job[p]) /\ new \in Seq(File)
        /\ job[p].todo = <<>> /\ job[p].ff = NoObj
        /\ FilesOf(job[p]) = new /\ ~panic /\ ofile[p] \in Rows
    BY AtFacts, Zenon
  <1>2. Becomes(p, "idle", <<>>, new)
    <2>1. "idle" \in Labels  BY DEF Labels
    <2> QED  BY <1>1, <2>1, CallIs, EmptyIn, Zenon
  <1>3. job' \in [Proc -> Job] /\ \A q \in Proc : q # p => job'[q] = job[q]
    BY <1>2, Zenon DEF Becomes
  <1>4. FilesOf(job'[p]) = FilesOf(job[p])  BY <1>1, <1>2 DEF Becomes
  <1>5. Types'  BY <1>0, <1>3, Zenon DEF IInv, Types
  <1>6. Jobs'
    <2>1. Len(FilesOf(job[p])) <= 2  BY <1>1, FilesOfCall, Zenon
    <2>2. Shape(job'[p])
      <3>1. job'[p].pc = "idle" /\ job'[p].new = <<>> /\ job'[p].todo = new  BY <1>2, Zenon DEF Becomes
      <3>2. Len(new) <= 2  BY <1>1, <2>1, Zenon
      <3>3. Len(job'[p].todo) <= 2  BY <3>1, <3>2, Zenon
      <3> QED  BY <3>1, <3>3 DEF Shape
    <2>3. \A q \in Proc : q # p => ofile'[q] = ofile[q] /\ job'[q] = job[q]  BY <1>0, <1>3
    <2> QED  BY <1>0, <2>2, <2>3, JobsStep, Zenon DEF IInv
  <1>7. ASSUME NEW f \in File
        PROVE  ref'[f] = ref[f] - Mine(ofile[p], job[p], f) + Mine(ofile'[p], job'[p], f)
    <2>1. Mine(ofile[p], job[p], f) \in Nat  BY <1>1, MineNat, Zenon
    <2>2. Mine(ofile'[p], job'[p], f) = Mine(ofile[p], job[p], f)  BY <1>0, <1>4, Zenon DEF Mine
    <2>3. ref[f] \in Nat /\ ref'[f] = ref[f]  BY <1>0 DEF IInv, Types
    <2> QED  BY <2>1, <2>2, <2>3, SMT
  <1>8. \A fd \in Fd : Had(p, ofile'[p][fd])  BY <1>0, Zenon DEF Had
  <1>9. \A k \in DOMAIN FilesOf(job'[p]) : Had(p, FilesOf(job'[p])[k])  BY <1>4, Zenon DEF Had
  <1>10. FreshAt(p)'
    <2>1. job'[p].new = <<>>  BY <1>2, Zenon DEF Becomes
    <2> QED  BY <2>1 DEF FreshAt
  <1>11. Spare'  BY <1>0, Zenon DEF IInv, Spare
  <1>12. ObjectsMatch'
    <2>1. \A q \in Proc : job'[q].ff = job[q].ff  BY <1>1, <1>2, <1>3, Zenon DEF Becomes
    <2> QED  BY <1>0, <2>1, ObjectsStay, Zenon DEF IInv
  <1>13. ~panic'  BY <1>0, <1>1, Zenon
  <1>14. \A q \in Proc : q # p => ofile'[q] = ofile[q] /\ job'[q] = job[q]  BY <1>0, <1>3
  <1>15. \A f \in File : obj'[f] = obj[f] \/ obj'[f] = NoObj \/ (Had(p, f) /\ ref[f] # 0)
    BY <1>0, Zenon
  <1> QED  BY <1>5, <1>6, <1>7, <1>8, <1>9, <1>10, <1>11, <1>12, <1>13, <1>14, <1>15, OwnStep, Zenon

(* A descriptor of p is set or cleared.                                    *)
RowSet(p, fd, g) ==
    /\ ofile' \in [Proc -> Rows] /\ \A q \in Proc : q # p => ofile'[q] = ofile[q]
    /\ ofile'[p][fd] = g /\ \A d \in Fd : d # fd => ofile'[p][d] = ofile[p][d]
    /\ \A x : Cardinality(Places(ofile'[p], x))
               = Cardinality(Places(ofile[p], x)) - Same(ofile[p][fd], x) + Same(g, x)

LEMMA SetFd ==
    ASSUME FileTableAssumption, IInv, NEW p \in Proc, NEW fd \in Fd, NEW g \in File \cup {None},
           ofile' = [ofile EXCEPT ![p][fd] = g]
    PROVE  RowSet(p, fd, g)
  <1>1. ofile \in [Proc -> [Fd -> File \cup {None}]]  BY Zenon DEF IInv, Types, Rows
  <1>2. /\ ofile' \in [Proc -> [Fd -> File \cup {None}]]
        /\ \A q \in Proc : q # p => ofile'[q] = ofile[q]
        /\ ofile'[p][fd] = g /\ \A d \in Fd : d # fd => ofile'[p][d] = ofile[p][d]
        /\ DOMAIN ofile[p] = Fd /\ DOMAIN ofile'[p] = Fd
    BY <1>1
  <1>3. ASSUME NEW x
        PROVE  Cardinality(Places(ofile'[p], x))
               = Cardinality(Places(ofile[p], x)) - Same(ofile[p][fd], x) + Same(g, x)
    <2>1. IsFiniteSet(Fd)  BY Finite, Zenon
    <2>2. PlaceMoves(ofile[p], ofile'[p], fd, x)  BY <1>2, <2>1, PlacesSet, Zenon
    <2> QED  BY <1>2, <2>2, Zenon DEF PlaceMoves
  <1> QED  BY <1>2, <1>3, Zenon DEF RowSet, Rows

(* An object gets one owner more, or keeps those it has.                   *)
LEMMA OwnsSame ==
    ASSUME NEW o, Names(o)' = Names(o), Closes(o)' = Closes(o)
    PROVE  Owns(o)' = Owns(o)
  BY Zenon DEF Owns, Names, Closes

LEMMA Distinct ==
    /\ AnInode # NoObj
    /\ \A k, e : End(k, e) # NoObj /\ End(k, e) # AnInode
    /\ \A k, e, h, d : End(k, e) = End(h, d) => k = h /\ e = d
  BY DEF AnInode, NoObj, End

LEMMA OwnsMore ==
    ASSUME FileTableAssumption, NEW o, NEW f \in File,
           Names(o)' = Names(o) \cup {f}, f \notin Names(o), Closes(o)' = Closes(o)
    PROVE  Owns(o)' = Owns(o) + 1
  <1>1. Names(o) \subseteq File /\ Closes(o) \subseteq Proc  BY Zenon DEF Names, Closes
  <1>2. IsFiniteSet(Names(o)) /\ Cardinality(Names(o)) \in Nat /\ Cardinality(Closes(o)) \in Nat
    BY <1>1, OwnersFinite, Zenon
  <1>3. Cardinality(Names(o) \cup {f}) = Cardinality(Names(o)) + 1  BY <1>2, FS_AddElement, Zenon
  <1>4. Owns(o) = Cardinality(Names(o)) + Cardinality(Closes(o))  BY Zenon DEF Owns, Names, Closes
  <1>5. Owns(o)' = Cardinality(Names(o)') + Cardinality(Closes(o)')  BY Zenon DEF Owns, Names, Closes
  <1>6. Owns(o)' = Cardinality(Names(o)) + 1 + Cardinality(Closes(o))  BY <1>3, <1>5, Zenon
  <1> QED  BY <1>2, <1>4, <1>6, SMT

(* openFd(): the new file gets a descriptor and its inode.                 *)
LEMMA OpenInv ==
    ASSUME FileTableAssumption, IInv, NEW p \in Proc, openFd(p), FreeFd(p) # {}
    PROVE  IInv'
  <1> DEFINE f == job[p].new[1]
             fd == Min(FreeFd(p))
  <1>0. /\ At(p, "open") /\ ofile' = [ofile EXCEPT ![p][fd] = f]
        /\ obj' = [obj EXCEPT ![f] = AnInode] /\ iref' = iref + 1
        /\ Call(p, "idle", <<>>, <<>>)
        /\ ref' = ref /\ ends' = ends /\ (panic' <=> panic)
    BY Zenon DEF openFd, fdalloc
  <1>1. /\ job[p] \in Job /\ Shape(job[p]) /\ job[p].new \in Seq(File)
        /\ job[p].pc = "open" /\ job[p].todo = <<>> /\ job[p].ff = NoObj
        /\ FilesOf(job[p]) = job[p].new /\ ~panic /\ ofile[p] \in Rows
    BY <1>0, AtFacts, Zenon
  <1>2. job[p].new = <<f>> /\ f \in File /\ 1 \in DOMAIN job[p].new
    <2>1. Len(job[p].new) = 1  BY <1>1 DEF Shape
    <2> QED  BY <1>1, <2>1
  <1>3. fd \in Fd /\ ofile[p][fd] = None
    <2>1. FreeFd(p) \subseteq Nat  BY Finite, Zenon DEF FreeFd
    <2> QED  BY <2>1, LeastIn, Zenon DEF FreeFd
  <1>4. RowSet(p, fd, f)  BY <1>0, <1>2, <1>3, SetFd, Zenon
  <1>5. Becomes(p, "idle", <<>>, <<>>)
    <2>1. "idle" \in Labels  BY DEF Labels
    <2> QED  BY <1>0, <2>1, CallIs, EmptyIn, Zenon
  <1>6. job'[p].new = <<>> /\ FilesOf(job'[p]) = <<>> /\ job'[p].ff = NoObj /\ job'[p].pc = "idle"
    BY <1>5 DEF Becomes
  <1>7. job' \in [Proc -> Job] /\ \A q \in Proc : q # p => job'[q] = job[q]
    BY <1>5, Zenon DEF Becomes
  <1>8. \A q \in Proc : q # p => ofile'[q] = ofile[q] /\ job'[q] = job[q]
    BY <1>4, <1>7, Zenon DEF RowSet
  <1>9. FreshAt(p)  BY Zenon DEF IInv, Fresh
  <1>10. obj[f] = NoObj /\ ref[f] # 0
    <2>1. obj[f] = NoObj  BY <1>1, <1>2, <1>9 DEF FreshAt
    <2>2. ref[f] # 0  BY <1>1, <1>2, FreeUnheld, Zenon DEF IInv
    <2> QED  BY <2>1, <2>2, Zenon
  <1>11. obj \in [File -> Object] /\ ref \in [File -> Nat] /\ iref \in Nat /\ AnInode \in Object
    BY DEF IInv, Types, Object
  <1>12. Types'
    <2>1. obj' \in [File -> Object]  BY <1>0, <1>11, Zenon
    <2>2. iref' \in Nat  BY <1>0, <1>11
    <2>3. ofile' \in [Proc -> Rows]  BY <1>4, Zenon DEF RowSet
    <2> QED  BY <1>0, <1>7, <2>1, <2>2, <2>3, Zenon DEF IInv, Types
  <1>13. Jobs'
    <2>1. Shape(job'[p])
      <3>1. job'[p].todo = <<>>  BY <1>5, Zenon DEF Becomes
      <3> QED  BY <1>6, <3>1 DEF Shape
    <2> QED  BY <1>0, <1>8, <2>1, JobsStep, Zenon DEF IInv
  <1>14. ASSUME NEW x \in File
         PROVE  ref'[x] = ref[x] - Mine(ofile[p], job[p], x) + Mine(ofile'[p], job'[p], x)
    <2>1. Cardinality(Places(ofile[p], x)) \in Nat  BY <1>1, MineNat, Zenon
    <2>2. Mine(ofile[p], job[p], x) = Cardinality(Places(ofile[p], x)) + Same(f, x)
      BY <1>1, <1>2, PlacesShort, Zenon DEF Mine
    <2>3. Mine(ofile'[p], job'[p], x) = Cardinality(Places(ofile'[p], x)) + 0
      BY <1>6, PlacesShort, Zenon DEF Mine
    <2>4. Cardinality(Places(ofile'[p], x)) = Cardinality(Places(ofile[p], x)) - Same(None, x) + Same(f, x)
      BY <1>3, <1>4, Zenon DEF RowSet
    <2>5. Same(None, x) = 0  BY Finite, Zenon DEF Same
    <2>6. ref'[x] = ref[x] /\ ref[x] \in Nat /\ Same(f, x) \in Nat  BY <1>0, <1>11 DEF Same
    <2> HIDE DEF f, fd
    <2> QED  BY <2>1, <2>2, <2>3, <2>4, <2>5, <2>6, SMT
  <1>15. Had(p, f)  BY <1>1, <1>2, Zenon DEF Had
  <1>16. \A d \in Fd : Had(p, ofile'[p][d])
    <2> TAKE d \in Fd
    <2>1. CASE d = fd  BY <1>4, <1>15, <2>1, Zenon DEF RowSet
    <2>2. CASE d # fd  BY <1>4, <2>2, Zenon DEF RowSet, Had
    <2> QED  BY <2>1, <2>2, Zenon
  <1>17. \A k \in DOMAIN FilesOf(job'[p]) : Had(p, FilesOf(job'[p])[k])  BY <1>6
  <1>18. FreshAt(p)'  BY <1>6 DEF FreshAt
  <1>19. \A x \in File : obj'[x] = obj[x] \/ obj'[x] = NoObj \/ (Had(p, x) /\ ref[x] # 0)
    <2> TAKE x \in File
    <2>1. CASE x = f  BY <1>10, <1>15, <2>1, Zenon
    <2>2. CASE x # f  BY <1>0, <1>11, <2>2, Zenon
    <2> QED  BY <2>1, <2>2, Zenon
  <1>20. Spare'
    <2>1. ASSUME NEW x \in File, ref'[x] = 0 PROVE obj'[x] = NoObj
      <3>1. ref[x] = 0  BY <1>0, <2>1, Zenon
      <3>2. x # f  BY <1>10, <3>1, Zenon
      <3>3. obj'[x] = obj[x]  BY <1>0, <1>11, <3>2, Zenon
      <3> QED  BY <3>1, <3>3, Zenon DEF IInv, Spare
    <2> QED  BY <2>1, Zenon DEF Spare
  <1>21. ObjectsMatch'
    <2>1. ASSUME NEW o PROVE Closes(o)' = Closes(o)
      <3>1. \A q \in Proc : job'[q].ff = job[q].ff  BY <1>1, <1>6, <1>7, Zenon
      <3> QED  BY <3>1, Zenon DEF Closes
    <2>2. Names(AnInode)' = Names(AnInode) \cup {f} /\ f \notin Names(AnInode)
      <3>1. ASSUME NEW x \in File
            PROVE  (ref'[x] > 0 /\ obj'[x] = AnInode) <=> ((ref[x] > 0 /\ obj[x] = AnInode) \/ x = f)
        <4>1. CASE x = f
          <5>1. ref'[f] > 0  BY <1>0, <1>2, <1>10, <1>11
          <5>2. obj'[f] = AnInode  BY <1>0, <1>2, <1>11, Zenon
          <5> QED  BY <4>1, <5>1, <5>2, Zenon
        <4>2. CASE x # f  BY <1>0, <1>11, <4>2, Zenon
        <4> QED  BY <4>1, <4>2, Zenon
      <3> QED  BY <1>2, <1>10, <3>1, Distinct, Zenon DEF Names
    <2>3. ASSUME NEW o, o # NoObj, o # AnInode PROVE Names(o)' = Names(o)
      <3>1. ASSUME NEW x \in File
            PROVE  (ref'[x] > 0 /\ obj'[x] = o) <=> (ref[x] > 0 /\ obj[x] = o)
        <4>1. CASE x = f  BY <1>0, <1>2, <1>10, <1>11, <2>3, <4>1, Zenon
        <4>2. CASE x # f  BY <1>0, <1>11, <4>2, Zenon
        <4> QED  BY <4>1, <4>2, Zenon
      <3> QED  BY <3>1, Zenon DEF Names
    <2>4. Owns(AnInode)' = Owns(AnInode) + 1  BY <1>2, <2>1, <2>2, OwnsMore, Zenon
    <2>5. iref' = Owns(AnInode)'  BY <1>0, <2>4, Zenon DEF IInv, ObjectsMatch
    <2>6. ASSUME NEW k \in Page, NEW e \in {"r", "w"}
          PROVE  Owns(End(k, e))' = IF e \in ends'[k] THEN 1 ELSE 0
      <3>1. Owns(End(k, e))' = Owns(End(k, e))  BY <2>1, <2>3, OwnsSame, Distinct, Zenon
      <3>2. Owns(End(k, e)) = IF e \in ends[k] THEN 1 ELSE 0  BY Zenon DEF IInv, ObjectsMatch
      <3> QED  BY <1>0, <3>1, <3>2, Zenon
    <2> QED  BY <2>5, <2>6, Zenon DEF ObjectsMatch
  <1>22. ~panic'  BY <1>0, <1>1, Zenon
  <1> QED  BY <1>8, <1>12, <1>13, <1>14, <1>16, <1>17, <1>18, <1>19, <1>20, <1>21, <1>22, OwnStep, Zenon

(* pipePage(): the page is there, and the two files are its ends.          *)
LEMMA PageInv ==
    ASSUME FileTableAssumption, IInv, NEW p \in Proc, At(p, "page"),
           NEW k \in Page, ends[k] = {}, ends' = [ends EXCEPT ![k] = {"r", "w"}],
           obj' = [obj EXCEPT ![job[p].new[1]] = End(k, "r"), ![job[p].new[2]] = End(k, "w")],
           Call(p, "fds", job[p].new, <<>>),
           UNCHANGED <<ref, ofile, iref, panic>>
    PROVE  IInv'
  <1>0. ref' = ref /\ ofile' = ofile /\ iref' = iref /\ (panic' <=> panic)  BY Zenon
  <1> DEFINE new == job[p].new
             f == job[p].new[1]
             g == job[p].new[2]
  <1>1. /\ job[p] \in Job /\ Shape(job[p]) /\ new \in Seq(File)
        /\ job[p].pc = "page" /\ job[p].todo = <<>> /\ job[p].ff = NoObj
        /\ FilesOf(job[p]) = new /\ ~panic /\ ofile[p] \in Rows
    BY AtFacts, Zenon
  <1>2. Len(new) = 2 /\ DOMAIN new = {1, 2} /\ f \in File /\ g \in File
    <2>1. Len(new) = 2  BY <1>1 DEF Shape
    <2> QED  BY <1>1, <2>1
  <1>3. FreshAt(p)  BY Zenon DEF IInv, Fresh
  <1>4. f # g
    <2>1. 1 \in DOMAIN new /\ 2 \in DOMAIN FilesOf(job[p]) /\ FilesOf(job[p])[2] = g
      BY <1>1, <1>2
    <2>2. \A j \in DOMAIN FilesOf(job[p]) : FilesOf(job[p])[j] = f => j = 1
      BY <1>3, <2>1, Zenon DEF FreshAt
    <2>3. FilesOf(job[p])[2] = f => 2 = 1  BY <2>1, <2>2, Zenon
    <2> QED  BY <2>1, <2>3
  <1>5. obj[f] = NoObj /\ obj[g] = NoObj /\ ref[f] # 0 /\ ref[g] # 0
    <2>1. 1 \in DOMAIN new /\ 2 \in DOMAIN new /\ job[p].pc # "fds"  BY <1>1, <1>2
    <2>2. obj[f] = NoObj /\ obj[g] = NoObj  BY <1>3, <2>1, Zenon DEF FreshAt
    <2>3. ref[f] # 0 /\ ref[g] # 0  BY <1>1, <1>2, <2>1, FreeUnheld, Zenon DEF IInv
    <2> QED  BY <2>2, <2>3, Zenon
  <1>6. Becomes(p, "fds", new, <<>>)
    <2>1. "fds" \in Labels  BY DEF Labels
    <2> QED  BY <1>1, <2>1, CallIs, EmptyIn, Zenon
  <1>7. /\ job' \in [Proc -> Job] /\ \A q \in Proc : q # p => job'[q] = job[q]
        /\ job'[p].pc = "fds" /\ job'[p].new = new /\ job'[p].todo = <<>> /\ job'[p].ff = NoObj
    BY <1>6, Zenon DEF Becomes
  <1>8. FilesOf(job'[p]) = FilesOf(job[p])  BY <1>1, <1>6 DEF Becomes
  <1>9. /\ obj \in [File -> Object] /\ ref \in [File -> Nat]
        /\ ends \in [Page -> SUBSET {"r", "w"}]
    BY Zenon DEF IInv, Types
  <1>9a. End(k, "r") \in Object /\ End(k, "w") \in Object
    BY DEF Object
  <1>10. /\ obj' \in [File -> Object] /\ obj'[f] = End(k, "r") /\ obj'[g] = End(k, "w")
         /\ \A x \in File : x # f /\ x # g => obj'[x] = obj[x]
    <2> DEFINE a == End(k, "r")
               b == End(k, "w")
    <2>1. /\ obj' = [obj EXCEPT ![f] = a, ![g] = b] /\ obj \in [File -> Object]
          /\ a \in Object /\ b \in Object /\ f \in File /\ g \in File /\ f # g
      BY <1>2, <1>4, <1>9, <1>9a, Zenon
    <2> HIDE DEF f, g, a, b
    <2>2. obj' \in [File -> Object] /\ obj'[f] = a /\ obj'[g] = b  BY <2>1, Zenon
    <2>3. \A x \in File : x # f /\ x # g => obj'[x] = obj[x]  BY <2>1
    <2> QED  BY <2>2, <2>3, Zenon DEF a, b
  <1>11. Types'
    <2>1. ends' \in [Page -> SUBSET {"r", "w"}]  BY <1>9
    <2> QED  BY <1>0, <1>7, <1>10, <2>1, Zenon DEF IInv, Types
  <1>12. \A q \in Proc : q # p => ofile'[q] = ofile[q] /\ job'[q] = job[q]  BY <1>0, <1>7
  <1>13. Jobs'
    <2>1. Shape(job'[p])  BY <1>2, <1>7 DEF Shape
    <2> QED  BY <1>0, <1>12, <2>1, JobsStep, Zenon DEF IInv
  <1>14. ASSUME NEW x \in File
         PROVE  ref'[x] = ref[x] - Mine(ofile[p], job[p], x) + Mine(ofile'[p], job'[p], x)
    <2>1. Mine(ofile[p], job[p], x) \in Nat  BY <1>1, MineNat, Zenon
    <2>2. Mine(ofile'[p], job'[p], x) = Mine(ofile[p], job[p], x)  BY <1>0, <1>8, Zenon DEF Mine
    <2>3. ref[x] \in Nat /\ ref'[x] = ref[x]  BY <1>0, <1>9
    <2> QED  BY <2>1, <2>2, <2>3, SMT
  <1>15. \A fd \in Fd : Had(p, ofile'[p][fd])  BY <1>0, Zenon DEF Had
  <1>16. \A j \in DOMAIN FilesOf(job'[p]) : Had(p, FilesOf(job'[p])[j])  BY <1>8, Zenon DEF Had
  <1>17. Had(p, f) /\ Had(p, g)
    <2>1. 1 \in DOMAIN new /\ 2 \in DOMAIN new  BY <1>2
    <2> QED  BY <1>1, <2>1, Zenon DEF Had
  <1>18. \A x \in File : obj'[x] = obj[x] \/ obj'[x] = NoObj \/ (Had(p, x) /\ ref[x] # 0)
    BY <1>5, <1>10, <1>17, Zenon
  <1>19. FreshAt(p)'
    <2>1. SUFFICES ASSUME NEW i \in DOMAIN job'[p].new
                   PROVE  /\ \A q \in Proc, fd \in Fd : ofile'[q][fd] # job'[p].new[i]
                          /\ \A q \in Proc : \A j \in DOMAIN FilesOf(job'[q]) :
                               FilesOf(job'[q])[j] = job'[p].new[i] => q = p /\ j = i
                          /\ job'[p].pc # "fds" => obj'[job'[p].new[i]] = NoObj
      BY Zenon DEF FreshAt
    <2>2. i \in DOMAIN new /\ job'[p].new[i] = new[i]  BY <1>7, Zenon
    <2>3. /\ \A q \in Proc, fd \in Fd : ofile[q][fd] # new[i]
          /\ \A q \in Proc : \A j \in DOMAIN FilesOf(job[q]) :
               FilesOf(job[q])[j] = new[i] => q = p /\ j = i
      BY <1>3, <2>2, Zenon DEF FreshAt
    <2>4. \A q \in Proc : FilesOf(job'[q]) = FilesOf(job[q])
      <3> TAKE q \in Proc
      <3>1. CASE q = p  BY <1>8, <3>1, Zenon
      <3>2. CASE q # p
        <4>1. job'[q] = job[q]  BY <1>7, <3>2, Zenon
        <4> QED  BY <4>1, Zenon
      <3> QED  BY <3>1, <3>2, Zenon
    <2>5. \A q \in Proc, fd \in Fd : ofile'[q][fd] # job'[p].new[i]  BY <1>0, <2>2, <2>3, Zenon
    <2>6. ASSUME NEW q \in Proc, NEW j \in DOMAIN FilesOf(job'[q]),
                 FilesOf(job'[q])[j] = job'[p].new[i]
          PROVE  q = p /\ j = i
      <3>1. j \in DOMAIN FilesOf(job[q]) /\ FilesOf(job[q])[j] = new[i]  BY <2>2, <2>4, <2>6, Zenon
      <3> QED  BY <2>3, <3>1, Zenon
    <2> QED  BY <1>7, <2>5, <2>6, Zenon
  <1>20. Spare'
    <2>1. ASSUME NEW x \in File, ref'[x] = 0 PROVE obj'[x] = NoObj
      <3>1. ref[x] = 0  BY <1>0, <2>1, Zenon
      <3>2. x # f /\ x # g  BY <1>5, <3>1, Zenon
      <3> QED  BY <1>10, <3>1, <3>2, Zenon DEF IInv, Spare
    <2> QED  BY <2>1, Zenon DEF Spare
  <1>21. ObjectsMatch'
    <2>1. ASSUME NEW o PROVE Closes(o)' = Closes(o)
      <3>1. \A q \in Proc : job'[q].ff = job[q].ff  BY <1>1, <1>7, Zenon
      <3> QED  BY <3>1, Zenon DEF Closes
    <2>2. /\ ref'[f] > 0 /\ ref'[g] > 0 /\ \A x \in File : ref'[x] = ref[x]
      BY <1>0, <1>2, <1>5, <1>9
    <2>3. End(k, "r") # End(k, "w") /\ NoObj # End(k, "r") /\ NoObj # End(k, "w")
      <3>1. "r" # "w"  OBVIOUS
      <3> QED  BY <3>1, Distinct, Zenon
    <2>4. Names(End(k, "r"))' = Names(End(k, "r")) \cup {f} /\ f \notin Names(End(k, "r"))
      <3>1. ASSUME NEW x \in File
            PROVE  (ref'[x] > 0 /\ obj'[x] = End(k, "r"))
                     <=> ((ref[x] > 0 /\ obj[x] = End(k, "r")) \/ x = f)
        <4>1. CASE x = f  BY <1>10, <2>2, <4>1, Zenon
        <4>2. CASE x = g
          <5>1. obj'[x] = End(k, "w") /\ obj[x] = NoObj /\ x # f  BY <1>4, <1>5, <1>10, <4>2, Zenon
          <5> QED  BY <2>3, <5>1, Zenon
        <4>3. CASE x # f /\ x # g  BY <1>10, <2>2, <4>3, Zenon
        <4> QED  BY <4>1, <4>2, <4>3, Zenon
      <3>2. Names(End(k, "r"))' = Names(End(k, "r")) \cup {f}  BY <1>2, <3>1, Zenon DEF Names
      <3>3. obj[f] # End(k, "r")  BY <1>5, <2>3, Zenon
      <3> QED  BY <3>2, <3>3, Zenon DEF Names
    <2>5. Names(End(k, "w"))' = Names(End(k, "w")) \cup {g} /\ g \notin Names(End(k, "w"))
      <3>1. ASSUME NEW x \in File
            PROVE  (ref'[x] > 0 /\ obj'[x] = End(k, "w"))
                     <=> ((ref[x] > 0 /\ obj[x] = End(k, "w")) \/ x = g)
        <4>1. CASE x = g  BY <1>10, <2>2, <4>1, Zenon
        <4>2. CASE x = f
          <5>1. obj'[x] = End(k, "r") /\ obj[x] = NoObj /\ x # g  BY <1>4, <1>5, <1>10, <4>2, Zenon
          <5> QED  BY <2>3, <5>1, Zenon
        <4>3. CASE x # f /\ x # g  BY <1>10, <2>2, <4>3, Zenon
        <4> QED  BY <4>1, <4>2, <4>3, Zenon
      <3>2. Names(End(k, "w"))' = Names(End(k, "w")) \cup {g}  BY <1>2, <3>1, Zenon DEF Names
      <3>3. obj[g] # End(k, "w")  BY <1>5, <2>3, Zenon
      <3> QED  BY <3>2, <3>3, Zenon DEF Names
    <2>6. ASSUME NEW o, o # NoObj, o # End(k, "r"), o # End(k, "w") PROVE Names(o)' = Names(o)
      <3>1. ASSUME NEW x \in File
            PROVE  (ref'[x] > 0 /\ obj'[x] = o) <=> (ref[x] > 0 /\ obj[x] = o)
        <4>1. CASE x = f  BY <1>5, <1>10, <2>6, <4>1, Zenon
        <4>2. CASE x = g  BY <1>5, <1>10, <2>6, <4>2, Zenon
        <4>3. CASE x # f /\ x # g  BY <1>10, <2>2, <4>3, Zenon
        <4> QED  BY <4>1, <4>2, <4>3, Zenon
      <3> QED  BY <3>1, Zenon DEF Names
    <2>7. iref' = Owns(AnInode)'
      <3>1. Owns(AnInode)' = Owns(AnInode)  BY <2>1, <2>6, OwnsSame, Distinct, Zenon
      <3> QED  BY <1>0, <3>1, Zenon DEF IInv, ObjectsMatch
    <2>8. ASSUME NEW h \in Page, NEW e \in {"r", "w"}
          PROVE  Owns(End(h, e))' = IF e \in ends'[h] THEN 1 ELSE 0
      <3>0. Owns(End(h, e)) = IF e \in ends[h] THEN 1 ELSE 0  BY Zenon DEF IInv, ObjectsMatch
      <3>1. CASE h # k
        <4>1. Owns(End(h, e))' = Owns(End(h, e))  BY <2>1, <2>6, <3>1, OwnsSame, Distinct, Zenon
        <4>2. ends'[h] = ends[h]  BY <1>9, <3>1, Zenon
        <4> QED  BY <3>0, <4>1, <4>2, Zenon
      <3>2. CASE h = k
        <4>1. Owns(End(h, e)) = 0  BY <3>0, <3>2
        <4>2. Owns(End(k, "r"))' = Owns(End(k, "r")) + 1  BY <1>2, <2>1, <2>4, OwnsMore, Zenon
        <4>3. Owns(End(k, "w"))' = Owns(End(k, "w")) + 1  BY <1>2, <2>1, <2>5, OwnsMore, Zenon
        <4>4. Owns(End(h, e))' = Owns(End(h, e)) + 1  BY <3>2, <4>2, <4>3, Zenon
        <4>5. ends'[h] = {"r", "w"}  BY <1>9, <3>2, Zenon
        <4> QED  BY <4>1, <4>4, <4>5
      <3> QED  BY <3>1, <3>2, Zenon
    <2> QED  BY <2>7, <2>8, Zenon DEF ObjectsMatch
  <1>22. ~panic'  BY <1>0, <1>1, Zenon
  <1> QED  BY <1>11, <1>12, <1>13, <1>14, <1>15, <1>16, <1>18, <1>19, <1>20, <1>21, <1>22, OwnStep, Zenon

(* A call ends, or goes on to close todo: the pointers of p have changed   *)
(* and the counts with them, and no file has come to life or died.         *)
LEMMA PointersInv ==
    ASSUME FileTableAssumption, IInv, NEW p \in Proc, ~panic, job[p].ff = NoObj,
           NEW m \in {"idle", "fork", "exit"}, NEW todo, Len(todo) <= 2, Becomes(p, m, <<>>, todo),
           ofile' \in [Proc -> Rows], \A q \in Proc : q # p => ofile'[q] = ofile[q],
           ref' \in [File -> Nat], \A f \in File : ref'[f] = 0 <=> ref[f] = 0,
           \A f \in File : ref'[f] = ref[f] - Mine(ofile[p], job[p], f) + Mine(ofile'[p], job'[p], f),
           \A fd \in Fd : Had(p, ofile'[p][fd]),
           \A k \in DOMAIN FilesOf(job'[p]) : Had(p, FilesOf(job'[p])[k]),
           obj' = obj, ends' = ends, iref' = iref, panic' <=> panic
    PROVE  IInv'
  <1>1. /\ job' \in [Proc -> Job] /\ job'[p].pc = m /\ job'[p].new = <<>> /\ job'[p].todo = todo
        /\ job'[p].ff = NoObj /\ \A q \in Proc : q # p => job'[q] = job[q]
    BY Zenon DEF Becomes
  <1>2. Types'  BY <1>1, Zenon DEF IInv, Types
  <1>3. \A q \in Proc : q # p => ofile'[q] = ofile[q] /\ job'[q] = job[q]  BY <1>1, Zenon
  <1>4. Jobs'
    <2>1. Shape(job'[p])
      <3>1. m \notin {"open", "pipe", "page", "fds"}  OBVIOUS
      <3>2. Len(job'[p].todo) <= 2  BY <1>1, Zenon
      <3> QED  BY <1>1, <3>1, <3>2, Zenon DEF Shape
    <2> QED  BY <1>3, <2>1, JobsStep, Zenon DEF IInv
  <1>5. FreshAt(p)'
    <2>1. DOMAIN job'[p].new = {}  BY <1>1
    <2> QED  BY <2>1, Zenon DEF FreshAt
  <1>6. Spare'  BY Zenon DEF IInv, Spare
  <1>7. ObjectsMatch'
    <2>1. \A q \in Proc : job'[q].ff = job[q].ff  BY <1>1, Zenon
    <2>2. \A f \in File : ref'[f] > 0 <=> ref[f] > 0
      <3>1. ref \in [File -> Nat]  BY Zenon DEF IInv, Types
      <3> QED  BY <3>1
    <2> QED  BY <2>1, <2>2, ObjectsStay, Zenon DEF IInv
  <1>8. \A f \in File : obj'[f] = obj[f] \/ obj'[f] = NoObj \/ (Had(p, f) /\ ref[f] # 0)
    BY Zenon
  <1>9. ~panic'  BY Zenon
  <1> QED  BY <1>2, <1>3, <1>4, <1>5, <1>6, <1>7, <1>8, <1>9, OwnStep, Zenon

(* filedup() for a descriptor that q gets: sys_dup()'s own, fork()'s       *)
(* child's.  A file with a descriptor is not one that a call has just      *)
(* made.                                                                   *)
LEMMA DupInv ==
    ASSUME FileTableAssumption, IInv, ~panic, NEW p \in Proc, NEW d \in Fd, ofile[p][d] # None,
           filedup(p, d), NEW q \in Proc, NEW fd \in Fd, ofile[q][fd] = None,
           ofile' = [ofile EXCEPT ![q][fd] = ofile[p][d]],
           UNCHANGED <<obj, ends, iref, job>>
    PROVE  IInv'
  <1> DEFINE f == ofile[p][d]
  <1>1. /\ ofile \in [Proc -> Rows] /\ job \in [Proc -> Job] /\ ref \in [File -> Nat]
        /\ ofile[p] \in Rows /\ ofile[q] \in Rows /\ job[q] \in Job /\ Shape(job[q])
    BY Zenon DEF IInv, Types, Jobs
  <1>2. f \in File  BY <1>1, Zenon DEF Rows
  <1>3. ref[f] # 0  BY <1>2, FreeUnheld, Zenon DEF IInv
  <1>4. /\ ref' = [ref EXCEPT ![f] = @ + 1] /\ (panic' <=> ref[f] < 1)
        /\ obj' = obj /\ ends' = ends /\ iref' = iref /\ job' = job
    BY Zenon DEF filedup
  <1>5. RowSet(q, fd, f)  BY <1>2, SetFd, Zenon
  <1>6. /\ ofile' \in [Proc -> Rows] /\ \A r \in Proc : r # q => ofile'[r] = ofile[r]
        /\ ofile'[q][fd] = f /\ \A e \in Fd : e # fd => ofile'[q][e] = ofile[q][e]
    BY <1>5, Zenon DEF RowSet
  <1>7. FreshAt(q)'
    <2>1. \A k \in DOMAIN job[q].new : \A r \in Proc, e \in Fd : ofile'[r][e] # job[q].new[k]
      <3> TAKE k \in DOMAIN job[q].new
      <3> TAKE r \in Proc, e \in Fd
      <3>1. \A a \in Proc, b \in Fd : ofile[a][b] # job[q].new[k]  BY Zenon DEF IInv, Fresh, FreshAt
      <3>2. ofile'[r][e] = f \/ ofile'[r][e] = ofile[r][e]
        <4>1. CASE r = q  BY <1>6, <4>1, Zenon
        <4>2. CASE r # q  BY <1>6, <4>2, Zenon
        <4> QED  BY <4>1, <4>2, Zenon
      <3> QED  BY <3>1, <3>2, Zenon
    <2>2. job'[q].new = job[q].new /\ job'[q].pc = job[q].pc /\ \A r \in Proc : job'[r] = job[r]
      BY <1>4, Zenon
    <2>3. SUFFICES ASSUME NEW k \in DOMAIN job'[q].new
                   PROVE  /\ \A r \in Proc, e \in Fd : ofile'[r][e] # job'[q].new[k]
                          /\ \A r \in Proc : \A j \in DOMAIN FilesOf(job'[r]) :
                               FilesOf(job'[r])[j] = job'[q].new[k] => r = q /\ j = k
                          /\ job'[q].pc # "fds" => obj'[job'[q].new[k]] = NoObj
      BY Zenon DEF FreshAt
    <2> DEFINE g == job'[q].new[k]
    <2>4. k \in DOMAIN job[q].new /\ g = job[q].new[k]  BY <2>2, Zenon
    <2> HIDE DEF g
    <2>5. FreshAt(q)  BY Zenon DEF IInv, Fresh
    <2>6. /\ \A r \in Proc : \A j \in DOMAIN FilesOf(job[r]) :
               FilesOf(job[r])[j] = g => r = q /\ j = k
          /\ job[q].pc # "fds" => obj[g] = NoObj
      BY <2>4, <2>5, Zenon DEF FreshAt
    <2>7. \A r \in Proc, e \in Fd : ofile'[r][e] # g  BY <2>1, <2>4, Zenon
    <2>8. ASSUME NEW r \in Proc, NEW j \in DOMAIN FilesOf(job'[r]), FilesOf(job'[r])[j] = g
          PROVE  r = q /\ j = k
      <3>1. job'[r] = job[r]  BY <2>2, Zenon
      <3> QED  BY <2>6, <2>8, <3>1, Zenon
    <2>9. job'[q].pc # "fds" => obj'[g] = NoObj  BY <1>4, <2>2, <2>6, Zenon
    <2> QED  BY <2>7, <2>8, <2>9, Zenon DEF g
  <1>8. \A e \in Fd : Had(q, ofile'[q][e])
    <2> TAKE e \in Fd
    <2>1. CASE e = fd  BY <1>6, <2>1, ZenonT(30) DEF Had
    <2>2. CASE e # fd  BY <1>6, <2>2, Zenon DEF Had
    <2> QED  BY <2>1, <2>2, Zenon
  <1>9. \A k \in DOMAIN FilesOf(job'[q]) : Had(q, FilesOf(job'[q])[k])  BY <1>4, Zenon DEF Had
  <1> HIDE DEF f
  <1>10. /\ ~panic' /\ ref' \in [File -> Nat] /\ (\A x \in File : ref'[x] = 0 <=> ref[x] = 0)
         /\ \A x \in File : ref'[x] = ref[x] + Same(f, x)
    <2>1. ref[f] \in Nat  BY <1>1, <1>2, Zenon
    <2>2. ~panic'  BY <1>3, <1>4, <2>1
    <2>3. ref' \in [File -> Nat] /\ \A x \in File : ref'[x] = ref[x] + Same(f, x)
      BY <1>1, <1>2, <1>4 DEF Same
    <2>4. \A x \in File : ref'[x] = 0 <=> ref[x] = 0  BY <1>1, <1>2, <1>3, <1>4
    <2> QED  BY <2>2, <2>3, <2>4, Zenon
  <1>11. ASSUME NEW x \in File
         PROVE  ref'[x] = ref[x] - Mine(ofile[q], job[q], x) + Mine(ofile'[q], job'[q], x)
    <2>1. /\ Cardinality(Places(ofile[q], x)) \in Nat
          /\ Cardinality(Places(FilesOf(job[q]), x)) \in Nat  BY <1>1, MineNat, Zenon
    <2>2. /\ Mine(ofile[q], job[q], x)
               = Cardinality(Places(ofile[q], x)) + Cardinality(Places(FilesOf(job[q]), x))
          /\ Mine(ofile'[q], job'[q], x)
               = Cardinality(Places(ofile'[q], x)) + Cardinality(Places(FilesOf(job[q]), x))
      BY <1>4, Zenon DEF Mine
    <2>3. Cardinality(Places(ofile'[q], x)) = Cardinality(Places(ofile[q], x)) - Same(None, x) + Same(f, x)
      BY <1>5, Zenon DEF RowSet
    <2>4. Same(None, x) = 0  BY Finite, Zenon DEF Same
    <2>5. ref'[x] = ref[x] + Same(f, x) /\ ref[x] \in Nat  BY <1>1, <1>10, Zenon
    <2>6. Same(f, x) \in Nat  BY DEF Same
    <2> QED  BY <2>1, <2>2, <2>3, <2>4, <2>5, <2>6, SMT
  <1>12. Types'  BY <1>4, <1>6, <1>10, Zenon DEF IInv, Types
  <1>13. Jobs'  BY <1>4, Zenon DEF IInv, Jobs
  <1>14. Spare'  BY <1>4, <1>10, Zenon DEF IInv, Spare
  <1>15. ObjectsMatch'
    <2>1. \A x \in File : ref'[x] > 0 <=> ref[x] > 0  BY <1>1, <1>10
    <2>2. \A r \in Proc : job'[r].ff = job[r].ff  BY <1>4, Zenon
    <2> QED  BY <1>4, <2>1, <2>2, ObjectsStay, Zenon DEF IInv
  <1>16. \A r \in Proc : r # q => ofile'[r] = ofile[r] /\ job'[r] = job[r]  BY <1>4, <1>6, Zenon
  <1>17. \A x \in File : obj'[x] = obj[x] \/ obj'[x] = NoObj \/ (Had(q, x) /\ ref[x] # 0)
    BY <1>4, Zenon
  <1> QED
    BY <1>7, <1>8, <1>9, <1>10, <1>11, <1>12, <1>13, <1>14, <1>15, <1>16, <1>17, OwnStep, Zenon

(* sys_close() and exit(): the descriptor is cleared, its file is to be    *)
(* closed.                                                                 *)
LEMMA ClearInv ==
    ASSUME FileTableAssumption, IInv, NEW p \in Proc, NEW m \in {"idle", "fork", "exit"}, At(p, m),
           NEW fd \in Fd \ FreeFd(p), ofile' = [ofile EXCEPT ![p][fd] = None],
           Call(p, m, <<>>, <<ofile[p][fd]>>),
           UNCHANGED <<ref, obj, ends, iref, panic>>
    PROVE  IInv'
  <1> DEFINE f == ofile[p][fd]
  <1>1. /\ ref' = ref /\ obj' = obj /\ ends' = ends /\ iref' = iref
        /\ (panic' <=> panic)  BY Zenon
  <1>3. /\ job[p] \in Job /\ Shape(job[p]) /\ job[p].new \in Seq(File)
        /\ job[p].pc = m /\ job[p].todo = <<>> /\ job[p].ff = NoObj
        /\ FilesOf(job[p]) = job[p].new /\ ~panic /\ ofile[p] \in Rows
    BY AtFacts, Zenon
  <1>4. FilesOf(job[p]) = <<>>  BY <1>3 DEF Shape
  <1>5. f \in File /\ fd \in Fd /\ f # None
    <2>1. fd \in Fd /\ ofile[p][fd] # None  BY Zenon DEF FreeFd
    <2>2. ofile[p][fd] \in File \cup {None}  BY <1>3, <2>1, Zenon DEF Rows
    <2> QED  BY <2>1, <2>2, Zenon
  <1>6. RowSet(p, fd, None)
    <2>1. None \in File \cup {None}  BY Zenon
    <2> QED  BY <1>5, <2>1, SetFd, Zenon
  <1>7. Becomes(p, m, <<>>, <<f>>)
    <2>1. m \in Labels /\ <<f>> \in Seq(File)  BY <1>5 DEF Labels
    <2> QED  BY <2>1, CallIs, EmptyIn, Zenon
  <1> HIDE DEF f
  <1>8. FilesOf(job'[p]) = <<f>>
    <2>1. <<>> \o <<f>> = <<f>>  OBVIOUS
    <2> QED  BY <1>7, <2>1, Zenon DEF Becomes
  <1>9. ASSUME NEW x \in File
        PROVE  ref'[x] = ref[x] - Mine(ofile[p], job[p], x) + Mine(ofile'[p], job'[p], x)
    <2>1. Cardinality(Places(ofile[p], x)) \in Nat  BY <1>3, MineNat, Zenon
    <2>2. /\ Mine(ofile[p], job[p], x) = Cardinality(Places(ofile[p], x)) + 0
          /\ Mine(ofile'[p], job'[p], x) = Cardinality(Places(ofile'[p], x)) + Same(f, x)
      BY <1>4, <1>8, PlacesShort, Zenon DEF Mine
    <2>3. Cardinality(Places(ofile'[p], x)) = Cardinality(Places(ofile[p], x)) - Same(f, x) + Same(None, x)
      BY <1>6, Zenon DEF RowSet, f
    <2>4. Same(None, x) = 0  BY Finite, Zenon DEF Same
    <2>5. ref'[x] = ref[x] /\ ref[x] \in Nat  BY <1>1 DEF IInv, Types
    <2>6. Same(f, x) \in Nat  BY DEF Same
    <2> QED  BY <2>1, <2>2, <2>3, <2>4, <2>5, <2>6, SMT
  <1>10. ofile' \in [Proc -> Rows] /\ \A q \in Proc : q # p => ofile'[q] = ofile[q]
    BY <1>6, Zenon DEF RowSet
  <1>11. \A e \in Fd : Had(p, ofile'[p][e])
    <2> TAKE e \in Fd
    <2>1. CASE e = fd  BY <1>6, <2>1, Zenon DEF RowSet, Had
    <2>2. CASE e # fd  BY <1>6, <2>2, Zenon DEF RowSet, Had
    <2> QED  BY <2>1, <2>2, Zenon
  <1>12. \A k \in DOMAIN FilesOf(job'[p]) : Had(p, FilesOf(job'[p])[k])
    <2>1. Had(p, f)  BY <1>5, Zenon DEF Had, f
    <2>2. \A k \in DOMAIN <<f>> : <<f>>[k] = f  OBVIOUS
    <2> QED  BY <1>8, <2>1, <2>2, Zenon
  <1>13. Len(<<f>>) <= 2  OBVIOUS
  <1>14. ref' \in [File -> Nat] /\ \A x \in File : ref'[x] = 0 <=> ref[x] = 0
    BY <1>1, Zenon DEF IInv, Types
  <1> QED  BY <1>1, <1>3, <1>7, <1>9, <1>10, <1>11, <1>12, <1>13, <1>14, PointersInv, Zenon

(* sys_pipe() has its two descriptors.                                     *)
LEMMA FdsInv ==
    ASSUME FileTableAssumption, IInv, NEW p \in Proc, pipeFds(p), ~(Cardinality(FreeFd(p)) < 2)
    PROVE  IInv'
  <1> DEFINE f == job[p].new[1]
             g == job[p].new[2]
             fd0 == Min(FreeFd(p))
             fd1 == Min(FreeFd(p) \ {fd0})
  <1>1. /\ At(p, "fds") /\ ofile' = [ofile EXCEPT ![p][fd0] = f, ![p][fd1] = g]
        /\ Call(p, "idle", <<>>, <<>>)
        /\ ref' = ref /\ obj' = obj /\ ends' = ends /\ iref' = iref
        /\ (panic' <=> panic)
    BY Zenon DEF pipeFds
  <1>2. /\ job[p] \in Job /\ Shape(job[p]) /\ job[p].new \in Seq(File)
        /\ job[p].pc = "fds" /\ job[p].todo = <<>> /\ job[p].ff = NoObj
        /\ FilesOf(job[p]) = job[p].new /\ ~panic /\ ofile[p] \in Rows
    BY <1>1, AtFacts, Zenon
  <1>3. job[p].new = <<f, g>> /\ f \in File /\ g \in File /\ DOMAIN job[p].new = {1, 2}
    <2>1. Len(job[p].new) = 2  BY <1>2 DEF Shape
    <2> QED  BY <1>2, <2>1
  <1>4. fd0 \in FreeFd(p) /\ fd1 \in FreeFd(p) \ {fd0}
    <2>1. FreeFd(p) \subseteq Nat /\ FreeFd(p) \subseteq Fd /\ IsFiniteSet(Fd)
      BY Finite, Zenon DEF FreeFd
    <2>2. IsFiniteSet(FreeFd(p))  BY <2>1, FS_Subset, Zenon
    <2>3. FreeFd(p) # {}
      <3>1. SUFFICES ASSUME FreeFd(p) = {} PROVE FALSE  OBVIOUS
      <3>2. Cardinality(FreeFd(p)) = 0  BY <2>2, <3>1, FS_EmptySet, Zenon
      <3> QED  BY <3>2
    <2>4. fd0 \in FreeFd(p)  BY <2>1, <2>3, LeastIn, Zenon
    <2> HIDE DEF fd0
    <2>5. FreeFd(p) \ {fd0} # {}
      <3>1. SUFFICES ASSUME FreeFd(p) \ {fd0} = {} PROVE FALSE  OBVIOUS
      <3>2. FreeFd(p) = {fd0}  BY <2>4, <3>1, Zenon
      <3>3. Cardinality({fd0}) = 1  BY FS_Singleton, Zenon
      <3> QED  BY <3>2, <3>3
    <2>6. FreeFd(p) \ {fd0} \subseteq Nat  BY <2>1, Zenon
    <2> QED  BY <2>4, <2>5, <2>6, LeastIn, Zenon
  <1>5. /\ fd0 \in Fd /\ fd1 \in Fd /\ fd0 # fd1
        /\ ofile[p][fd0] = None /\ ofile[p][fd1] = None
    BY <1>4, Zenon DEF FreeFd
  <1> HIDE DEF fd0, fd1, f, g
  <1>6. /\ ofile' \in [Proc -> Rows] /\ \A q \in Proc : q # p => ofile'[q] = ofile[q]
        /\ ofile'[p][fd0] = f /\ ofile'[p][fd1] = g
        /\ \A d \in Fd : d # fd0 /\ d # fd1 => ofile'[p][d] = ofile[p][d]
    <2>1. ofile \in [Proc -> [Fd -> File \cup {None}]]  BY Zenon DEF IInv, Types, Rows
    <2>2. ofile' \in [Proc -> [Fd -> File \cup {None}]]  BY <1>1, <1>3, <1>5, <2>1, SMTT(30)
    <2>3. /\ \A q \in Proc : q # p => ofile'[q] = ofile[q]
          /\ ofile'[p][fd0] = f /\ ofile'[p][fd1] = g
          /\ \A d \in Fd : d # fd0 /\ d # fd1 => ofile'[p][d] = ofile[p][d]
      BY <1>1, <1>3, <1>5, <2>1
    <2> QED  BY <2>2, <2>3, Zenon DEF Rows
  <1>7. ASSUME NEW x \in File
        PROVE  Cardinality(Places(ofile'[p], x))
                 = Cardinality(Places(ofile[p], x)) + Same(f, x) + Same(g, x)
    <2> DEFINE a == ofile[p]
               b == [a EXCEPT ![fd0] = f]
               c == ofile'[p]
    <2>1. a \in [Fd -> File \cup {None}] /\ c \in [Fd -> File \cup {None}]  BY <1>2, <1>6, Zenon DEF Rows
    <2>2. DOMAIN a = Fd /\ DOMAIN b = Fd /\ DOMAIN c = Fd /\ IsFiniteSet(Fd)  BY <2>1, Finite, Zenon
    <2>3. b[fd0] = f /\ \A d \in Fd : d # fd0 => b[d] = a[d]  BY <1>5, <2>1, Zenon
    <2>4. c[fd1] = g /\ \A d \in Fd : d # fd1 => c[d] = b[d]  BY <1>6, <2>3, Zenon
    <2>5. b[fd1] = None /\ a[fd0] = None  BY <1>5, <2>3, Zenon
    <2> HIDE DEF a, b, c
    <2>6. PlaceMoves(a, b, fd0, x)  BY <1>5, <2>2, <2>3, PlacesSet, Zenon
    <2>7. PlaceMoves(b, c, fd1, x)  BY <1>5, <2>2, <2>4, PlacesSet, Zenon
    <2>8. Same(None, x) = 0  BY Finite, Zenon DEF Same
    <2>9. Same(f, x) \in Nat /\ Same(g, x) \in Nat  BY DEF Same
    <2>10. Cardinality(Places(b, x)) = Cardinality(Places(a, x)) - 0 + Same(f, x)
      BY <2>3, <2>5, <2>6, <2>8, Zenon DEF PlaceMoves
    <2>11. Cardinality(Places(c, x)) = Cardinality(Places(b, x)) - 0 + Same(g, x)
      BY <2>4, <2>5, <2>7, <2>8, Zenon DEF PlaceMoves
    <2>12. Cardinality(Places(a, x)) \in Nat /\ Cardinality(Places(b, x)) \in Nat
      BY <2>6, <2>7, Zenon DEF PlaceMoves
    <2>13. Cardinality(Places(c, x)) = Cardinality(Places(a, x)) + Same(f, x) + Same(g, x)
      BY <2>9, <2>10, <2>11, <2>12, SMT
    <2> QED  BY <2>13, Zenon DEF a, c
  <1>8. Becomes(p, "idle", <<>>, <<>>)
    <2>1. "idle" \in Labels  BY DEF Labels
    <2> QED  BY <1>1, <2>1, CallIs, EmptyIn, Zenon
  <1>9. FilesOf(job'[p]) = <<>>  BY <1>8 DEF Becomes
  <1>10. ASSUME NEW x \in File
         PROVE  ref'[x] = ref[x] - Mine(ofile[p], job[p], x) + Mine(ofile'[p], job'[p], x)
    <2>1. Cardinality(Places(ofile[p], x)) \in Nat  BY <1>2, MineNat, Zenon
    <2>2. /\ Mine(ofile[p], job[p], x) = Cardinality(Places(ofile[p], x)) + (Same(f, x) + Same(g, x))
          /\ Mine(ofile'[p], job'[p], x) = Cardinality(Places(ofile'[p], x)) + 0
      BY <1>2, <1>3, <1>9, PlacesShort, Zenon DEF Mine
    <2>3. ref'[x] = ref[x] /\ ref[x] \in Nat  BY <1>1 DEF IInv, Types
    <2>4. Same(f, x) \in Nat /\ Same(g, x) \in Nat  BY DEF Same
    <2> QED  BY <1>7, <2>1, <2>2, <2>3, <2>4, SMT
  <1>11. \A e \in Fd : Had(p, ofile'[p][e])
    <2>1. 1 \in DOMAIN job[p].new /\ 2 \in DOMAIN job[p].new  BY <1>3
    <2>2. Had(p, f) /\ Had(p, g)  BY <1>2, <2>1, Zenon DEF Had, f, g
    <2> TAKE e \in Fd
    <2>3. CASE e = fd0  BY <1>6, <2>2, <2>3, Zenon
    <2>4. CASE e = fd1  BY <1>6, <2>2, <2>4, Zenon
    <2>5. CASE e # fd0 /\ e # fd1  BY <1>6, <2>5, Zenon DEF Had
    <2> QED  BY <2>3, <2>4, <2>5, Zenon
  <1>12. \A k \in DOMAIN FilesOf(job'[p]) : Had(p, FilesOf(job'[p])[k])  BY <1>9
  <1>13. Len(<<>>) <= 2 /\ "idle" \in {"idle", "fork", "exit"}  OBVIOUS
  <1>14. ref' \in [File -> Nat] /\ \A x \in File : ref'[x] = 0 <=> ref[x] = 0
    BY <1>1, Zenon DEF IInv, Types
  <1> QED  BY <1>1, <1>2, <1>6, <1>8, <1>10, <1>11, <1>12, <1>13, <1>14, PointersInv, Zenon

(* fork() and exit() begin and end: nothing is counted.                    *)
LEMMA TurnInv ==
    ASSUME FileTableAssumption, IInv, NEW p \in Proc,
           NEW l \in {"idle", "fork", "exit"}, At(p, l),
           NEW m \in {"idle", "fork", "exit"}, Call(p, m, <<>>, <<>>),
           UNCHANGED <<ref, obj, ofile, ends, iref, panic>>
    PROVE  IInv'
  <1>1. /\ ref' = ref /\ obj' = obj /\ ofile' = ofile /\ ends' = ends
        /\ iref' = iref /\ (panic' <=> panic)
    BY Zenon
  <1>2. /\ job[p] \in Job /\ Shape(job[p]) /\ job[p].new \in Seq(File)
        /\ job[p].pc = l /\ job[p].todo = <<>> /\ job[p].ff = NoObj
        /\ FilesOf(job[p]) = job[p].new /\ ~panic /\ ofile[p] \in Rows
    BY AtFacts, Zenon
  <1>3. FilesOf(job[p]) = <<>>  BY <1>2, Zenon DEF Shape
  <1>4. Becomes(p, m, <<>>, <<>>)
    <2>1. m \in Labels  BY DEF Labels
    <2> QED  BY <2>1, CallIs, EmptyIn, Zenon
  <1>5. FilesOf(job'[p]) = <<>>  BY <1>4 DEF Becomes
  <1>6. ASSUME NEW x \in File
        PROVE  ref'[x] = ref[x] - Mine(ofile[p], job[p], x) + Mine(ofile'[p], job'[p], x)
    <2>1. Mine(ofile[p], job[p], x) \in Nat  BY <1>2, MineNat, Zenon
    <2>2. Mine(ofile'[p], job'[p], x) = Mine(ofile[p], job[p], x)  BY <1>1, <1>3, <1>5, Zenon DEF Mine
    <2>3. ref[x] \in Nat /\ ref'[x] = ref[x]  BY <1>1 DEF IInv, Types
    <2> QED  BY <2>1, <2>2, <2>3, SMT
  <1>7. \A fd \in Fd : Had(p, ofile'[p][fd])  BY <1>1, Zenon DEF Had
  <1>8. \A k \in DOMAIN FilesOf(job'[p]) : Had(p, FilesOf(job'[p])[k])  BY <1>5
  <1>9. Len(<<>>) <= 2  OBVIOUS
  <1>10. ref' \in [File -> Nat] /\ \A x \in File : ref'[x] = 0 <=> ref[x] = 0
    BY <1>1, Zenon DEF IInv, Types
  <1>11. ofile' \in [Proc -> Rows] /\ \A q \in Proc : q # p => ofile'[q] = ofile[q]
    BY <1>1, Zenon DEF IInv, Types
  <1> QED  BY <1>1, <1>2, <1>4, <1>6, <1>7, <1>8, <1>9, <1>10, <1>11, PointersInv, Zenon

(* An object passes from its last file to the call that closes it, and     *)
(* then to nobody.                                                         *)
LEMMA OwnsMove ==
    ASSUME FileTableAssumption, NEW o, NEW f \in Names(o), NEW p \in Proc, p \notin Closes(o),
           Names(o)' = Names(o) \ {f}, Closes(o)' = Closes(o) \cup {p}
    PROVE  Owns(o)' = Owns(o)
  <1>1. Names(o) \subseteq File /\ Closes(o) \subseteq Proc /\ Names(o) \ {f} \subseteq File
    BY Zenon DEF Names, Closes
  <1>2. /\ IsFiniteSet(Names(o)) /\ IsFiniteSet(Closes(o)) /\ Cardinality(Closes(o)) \in Nat
        /\ Cardinality(Names(o)) \in Nat /\ Cardinality(Names(o) \ {f}) \in Nat
    BY <1>1, OwnersFinite, Zenon
  <1>3. Cardinality(Names(o) \ {f}) = Cardinality(Names(o)) - 1  BY <1>2, FS_RemoveElement, Zenon
  <1>4. Cardinality(Closes(o) \cup {p}) = Cardinality(Closes(o)) + 1  BY <1>2, FS_AddElement, Zenon
  <1>5. Owns(o) = Cardinality(Names(o)) + Cardinality(Closes(o))  BY Zenon DEF Owns, Names, Closes
  <1>6. Owns(o)' = Cardinality(Names(o)') + Cardinality(Closes(o)')  BY Zenon DEF Owns, Names, Closes
  <1>7. Owns(o)' = (Cardinality(Names(o)) - 1) + (Cardinality(Closes(o)) + 1)  BY <1>3, <1>4, <1>6, Zenon
  <1> QED  BY <1>2, <1>5, <1>7, SMT

LEMMA OwnsLess ==
    ASSUME FileTableAssumption, NEW o, NEW p \in Closes(o),
           Names(o)' = Names(o), Closes(o)' = Closes(o) \ {p}
    PROVE  Owns(o)' = Owns(o) - 1 /\ Owns(o) \in Nat /\ Owns(o)' \in Nat
  <1>1. Names(o) \subseteq File /\ Closes(o) \subseteq Proc /\ Closes(o) \ {p} \subseteq Proc
    BY Zenon DEF Names, Closes
  <1>2. /\ IsFiniteSet(Closes(o)) /\ Cardinality(Closes(o)) \in Nat
        /\ Cardinality(Names(o)) \in Nat /\ Cardinality(Closes(o) \ {p}) \in Nat
    BY <1>1, OwnersFinite, Zenon
  <1>3. Cardinality(Closes(o) \ {p}) = Cardinality(Closes(o)) - 1  BY <1>2, FS_RemoveElement, Zenon
  <1>5. Owns(o) = Cardinality(Names(o)) + Cardinality(Closes(o))  BY Zenon DEF Owns, Names, Closes
  <1>6. Owns(o)' = Cardinality(Names(o)') + Cardinality(Closes(o)')  BY Zenon DEF Owns, Names, Closes
  <1>7. Owns(o)' = Cardinality(Names(o)) + Cardinality(Closes(o) \ {p})  BY <1>6, Zenon
  <1> QED  BY <1>2, <1>3, <1>5, <1>7, SMT

(* What a call of fileclose() is.                                          *)
LEMMA Closing ==
    ASSUME IInv, NEW p \in Proc, job[p].todo # <<>> \/ job[p].ff # NoObj
    PROVE  /\ job[p] \in Job /\ Shape(job[p]) /\ job[p].todo \in Seq(File) /\ job[p].ff \in Object
           /\ job[p].new = <<>> /\ job[p].pc \in {"idle", "fork", "exit"} /\ Len(job[p].todo) <= 2
           /\ FilesOf(job[p]) = job[p].todo /\ ofile[p] \in Rows
  <1>1. job[p] \in Job /\ Shape(job[p]) /\ ofile[p] \in Rows  BY DEF IInv, Types, Jobs
  <1>2. job[p].pc \in Labels /\ job[p].todo \in Seq(File) /\ job[p].ff \in Object  BY <1>1 DEF Job
  <1>3. job[p].pc \in {"idle", "fork", "exit"}  BY <1>1, <1>2 DEF Shape, Labels
  <1>4. job[p].new = <<>> /\ Len(job[p].todo) <= 2  BY <1>1, <1>3, Zenon DEF Shape
  <1>5. FilesOf(job[p]) = job[p].todo  BY <1>1, <1>3, FilesOfCall, Zenon
  <1> QED  BY <1>1, <1>2, <1>3, <1>4, <1>5, Zenon

LEMMA FilecloseInv ==
    ASSUME FileTableAssumption, IInv, NEW p \in Proc, fileclose(p)
    PROVE  IInv'
  <1> DEFINE todo == job[p].todo
             f == Head(job[p].todo)
             o == IF ref[f] > 1 THEN NoObj ELSE obj[f]
  <1>1. /\ ~panic /\ todo # <<>> /\ job[p].ff = NoObj /\ (panic' <=> ref[f] < 1)
        /\ ref' = [ref EXCEPT ![f] = @ - 1]
        /\ (ref[f] > 1 => obj' = obj) /\ (~(ref[f] > 1) => obj' = [obj EXCEPT ![f] = NoObj])
        /\ job' = [job EXCEPT ![p].todo = Tail(@), ![p].ff = o]
        /\ ofile' = ofile /\ ends' = ends /\ iref' = iref
    BY Zenon DEF fileclose, FreeType
  <1>2. /\ job[p] \in Job /\ Shape(job[p]) /\ todo \in Seq(File)
        /\ job[p].new = <<>> /\ job[p].pc \in {"idle", "fork", "exit"} /\ Len(todo) <= 2
        /\ FilesOf(job[p]) = todo /\ ofile[p] \in Rows
    BY <1>1, Closing, Zenon
  <1>3. /\ f \in File /\ 1 \in DOMAIN todo /\ todo[1] = f /\ Tail(todo) \in Seq(File)
        /\ Len(Tail(todo)) <= 2
        /\ \A k \in DOMAIN Tail(todo) : \E i \in DOMAIN todo : Tail(todo)[k] = todo[i]
    <2>1. \A k \in DOMAIN Tail(todo) : k + 1 \in DOMAIN todo /\ Tail(todo)[k] = todo[k + 1]
      BY <1>1, <1>2
    <2> HIDE DEF todo
    <2>2. Tail(todo) \in Seq(File) /\ Len(Tail(todo)) <= 2  BY <1>1, <1>2
    <2>3. Head(todo) \in File /\ 1 \in DOMAIN todo /\ todo[1] = Head(todo)  BY <1>1, <1>2
    <2> QED  BY <2>1, <2>2, <2>3, Zenon DEF todo
  <1>4. /\ ref \in [File -> Nat] /\ obj \in [File -> Object] /\ job \in [Proc -> Job] /\ NoObj \in Object
    BY DEF IInv, Types, Object
  <1>5. ref[f] # 0 /\ ref[f] \in Nat
    <2>1. 1 \in DOMAIN FilesOf(job[p]) /\ FilesOf(job[p])[1] = f  BY <1>2, <1>3, Zenon
    <2> HIDE DEF f
    <2>2. ref[f] # 0  BY <1>3, <2>1, FreeUnheld, Zenon DEF IInv
    <2> QED  BY <1>3, <1>4, <2>2, Zenon
  <1>6. o \in Object  BY <1>3, <1>4, Zenon
  <1> HIDE DEF o
  <1>7. /\ job' \in [Proc -> Job] /\ \A q \in Proc : q # p => job'[q] = job[q]
        /\ job'[p].new = <<>> /\ job'[p].pc = job[p].pc /\ job'[p].todo = Tail(todo) /\ job'[p].ff = o
    <2> DEFINE j == [job[p] EXCEPT !.todo = Tail(@), !.ff = o]
    <2>1. job' = [job EXCEPT ![p] = j]
      <3>1. job' = [job EXCEPT ![p].todo = Tail(@), ![p].ff = o]  BY <1>1, Zenon
      <3> QED  BY <1>4, <3>1, Zenon
    <2>2. /\ j \in Job /\ j.new = <<>> /\ j.pc = job[p].pc /\ j.todo = Tail(todo) /\ j.ff = o
      BY <1>2, <1>3, <1>6, Zenon DEF Job
    <2> HIDE DEF j
    <2>3. job' \in [Proc -> Job] /\ job'[p] = j /\ \A q \in Proc : q # p => job'[q] = job[q]
      BY <1>4, <2>1, <2>2, Zenon
    <2> QED  BY <2>2, <2>3, Zenon
  <1>8. FilesOf(job'[p]) = Tail(todo)
    <2>1. <<>> \o Tail(todo) = Tail(todo)  BY <1>3
    <2> QED  BY <1>7, <2>1, Zenon DEF FilesOf
  <1> HIDE DEF f, todo
  <1>9. /\ ref' \in [File -> Nat] /\ (\A x \in File : ref'[x] = ref[x] - Same(f, x)) /\ ~panic'
    <2>1. ref[f] - 1 \in Nat /\ ~(ref[f] < 1)  BY <1>5
    <2>2. ref' = [ref EXCEPT ![f] = ref[f] - 1]  BY <1>1, Zenon
    <2>3. ref' \in [File -> Nat]  BY <1>4, <2>1, <2>2, Zenon
    <2>4. \A x \in File : ref'[x] = ref[x] - Same(f, x)  BY <1>3, <1>4, <2>2 DEF Same
    <2> QED  BY <1>1, <2>1, <2>3, <2>4, Zenon
  <1>10. /\ obj' \in [File -> Object] /\ \A x \in File : obj'[x] = obj[x] \/ obj'[x] = NoObj
         /\ \A x \in File : x # f => obj'[x] = obj[x]
    <2>1. CASE ref[f] > 1  BY <1>1, <1>4, <2>1, Zenon
    <2>2. CASE ~(ref[f] > 1)
      <3>1. obj' = [obj EXCEPT ![f] = NoObj]  BY <1>1, <2>2, Zenon
      <3> QED  BY <1>4, <3>1, Zenon
    <2> QED  BY <2>1, <2>2, Zenon
  <1>11. Types'  BY <1>1, <1>7, <1>9, <1>10, Zenon DEF IInv, Types
  <1>12. \A q \in Proc : q # p => ofile'[q] = ofile[q] /\ job'[q] = job[q]  BY <1>1, <1>7, Zenon
  <1>13. Jobs'
    <2>1. Shape(job'[p])
      <3>1. job[p].pc \notin {"open", "pipe", "page", "fds"}  BY <1>2
      <3>2. Len(job'[p].todo) <= 2  BY <1>3, <1>7, Zenon DEF todo
      <3> QED  BY <1>7, <3>1, <3>2, Zenon DEF Shape
    <2> QED  BY <1>1, <1>12, <2>1, JobsStep, Zenon DEF IInv
  <1>14. ASSUME NEW x \in File
         PROVE  ref'[x] = ref[x] - Mine(ofile[p], job[p], x) + Mine(ofile'[p], job'[p], x)
    <2>1. /\ Cardinality(Places(ofile[p], x)) \in Nat /\ Cardinality(Places(todo, x)) \in Nat
          /\ Mine(ofile[p], job[p], x) = Cardinality(Places(ofile[p], x)) + Cardinality(Places(todo, x))
      BY <1>2, MineNat, Zenon DEF Mine
    <2>2. Mine(ofile'[p], job'[p], x)
            = Cardinality(Places(ofile[p], x)) + Cardinality(Places(Tail(todo), x))
      BY <1>1, <1>8, Zenon DEF Mine
    <2>3. Cardinality(Places(Tail(todo), x)) = Cardinality(Places(todo, x)) - Same(f, x)
      BY <1>1, <1>2, PlacesTail, Zenon DEF f, todo
    <2>4. ref'[x] = ref[x] - Same(f, x) /\ ref[x] \in Nat  BY <1>4, <1>9, Zenon
    <2>5. Same(f, x) \in Nat  BY DEF Same
    <2> QED  BY <2>1, <2>2, <2>3, <2>4, <2>5, SMTT(30)
  <1>15. \A fd \in Fd : Had(p, ofile'[p][fd])  BY <1>1, Zenon DEF Had
  <1>16. \A k \in DOMAIN FilesOf(job'[p]) : Had(p, FilesOf(job'[p])[k])
    BY <1>2, <1>3, <1>8, Zenon DEF Had, todo
  <1>17. FreshAt(p)'
    <2>1. DOMAIN job'[p].new = {}  BY <1>7
    <2> QED  BY <2>1, Zenon DEF FreshAt
  <1>18. \A x \in File : x # f => ref'[x] = ref[x]
    <2>1. \A x \in File : x # f => ref[x] - Same(f, x) = ref[x]  BY <1>4 DEF Same
    <2> QED  BY <1>9, <2>1, Zenon
  <1>19. CASE ref[f] > 1
    <2>1. ref'[f] > 0  BY <1>3, <1>5, <1>9, <1>19 DEF Same, f
    <2>2. obj' = obj /\ o = NoObj  BY <1>1, <1>19, Zenon DEF o
    <2>3. \A x \in File : ref'[x] > 0 <=> ref[x] > 0
      <3>1. ref[f] > 0  BY <1>5
      <3> QED  BY <1>18, <2>1, <3>1, Zenon
    <2>4. \A x \in File : ref'[x] = 0 => ref[x] = 0
      <3>1. ref'[f] # 0  BY <2>1
      <3> QED  BY <1>18, <3>1, Zenon
    <2>5. Spare'  BY <2>2, <2>4, Zenon DEF IInv, Spare
    <2>6. ObjectsMatch'
      <3>1. \A q \in Proc : job'[q].ff = job[q].ff  BY <1>1, <1>7, <2>2, Zenon
      <3> QED  BY <1>1, <2>2, <2>3, <3>1, ObjectsStay, Zenon DEF IInv
    <2> QED  BY <1>9, <1>10, <1>11, <1>12, <1>13, <1>14, <1>15, <1>16, <1>17, <2>5, <2>6, OwnStep, Zenon
  <1>20. CASE ~(ref[f] > 1)
    <2>1. ref[f] > 0 /\ ref'[f] = 0
      <3>1. ref[f] = 1  BY <1>5, <1>20
      <3>2. ref'[f] = ref[f] - 1  BY <1>3, <1>4, <1>9 DEF Same, f
      <3> QED  BY <3>1, <3>2
    <2>2. obj'[f] = NoObj /\ o = obj[f]  BY <1>1, <1>3, <1>4, <1>20, Zenon DEF o, f
    <2>3. Spare'
      <3>1. ASSUME NEW x \in File, ref'[x] = 0 PROVE obj'[x] = NoObj
        <4>1. CASE x = f  BY <2>2, <4>1, Zenon
        <4>2. CASE x # f  BY <1>10, <1>18, <3>1, <4>2, Zenon DEF IInv, Spare
        <4> QED  BY <4>1, <4>2, Zenon
      <3> QED  BY <3>1, Zenon DEF Spare
    <2>4. ~(ref'[f] > 0)  BY <2>1
    <2>a. PICK a : a = obj[f]  OBVIOUS
    <2>b. job'[p].ff = a  BY <1>7, <2>2, <2>a, Zenon
    <2>5. ASSUME NEW c, c # NoObj, c # a PROVE Owns(c)' = Owns(c)
      <3>1. ASSUME NEW x \in File
            PROVE  (ref'[x] > 0 /\ obj'[x] = c) <=> (ref[x] > 0 /\ obj[x] = c)
        <4>1. CASE x = f  BY <2>2, <2>4, <2>5, <2>a, <4>1, Zenon
        <4>2. CASE x # f  BY <1>10, <1>18, <4>2, Zenon
        <4> QED  BY <4>1, <4>2, Zenon
      <3>2. ASSUME NEW q \in Proc PROVE job'[q].ff = c <=> job[q].ff = c
        <4>1. CASE q = p  BY <1>1, <2>5, <2>b, <4>1, Zenon
        <4>2. CASE q # p  BY <1>7, <4>2, Zenon
        <4> QED  BY <4>1, <4>2, Zenon
      <3>3. Names(c)' = Names(c)  BY <3>1, Zenon DEF Names
      <3>4. Closes(c)' = Closes(c)  BY <3>2, Zenon DEF Closes
      <3> QED  BY <3>3, <3>4, OwnsSame, Zenon
    <2>6. ASSUME a # NoObj PROVE Owns(a)' = Owns(a)
      <3>1. ASSUME NEW x \in File
            PROVE  (ref'[x] > 0 /\ obj'[x] = a) <=> ((ref[x] > 0 /\ obj[x] = a) /\ x # f)
        <4>1. CASE x = f  BY <2>4, <4>1, Zenon
        <4>2. CASE x # f  BY <1>10, <1>18, <4>2, Zenon
        <4> QED  BY <4>1, <4>2, Zenon
      <3>2. ASSUME NEW q \in Proc PROVE job'[q].ff = a <=> (job[q].ff = a \/ q = p)
        <4>1. CASE q = p  BY <2>b, <4>1, Zenon
        <4>2. CASE q # p  BY <1>7, <4>2, Zenon
        <4> QED  BY <4>1, <4>2, Zenon
      <3>a. PICK h \in File : h = f  BY <1>3, Zenon DEF f
      <3>3. Names(a)' = Names(a) \ {h}  BY <3>1, <3>a, Zenon DEF Names
      <3>4. Closes(a)' = Closes(a) \cup {p}  BY <3>2, Zenon DEF Closes
      <3>5. h \in Names(a)  BY <2>1, <2>a, <3>a, Zenon DEF Names
      <3>6. p \notin Closes(a)  BY <1>1, <2>6, Zenon DEF Closes
      <3> QED  BY <3>3, <3>4, <3>5, <3>6, OwnsMove, Zenon
    <2>7. ASSUME NEW c, c # NoObj PROVE Owns(c)' = Owns(c)  BY <2>5, <2>6, <2>7, Zenon
    <2>8. ObjectsMatch'
      <3>1. iref' = Owns(AnInode)'  BY <1>1, <2>7, Distinct, Zenon DEF IInv, ObjectsMatch
      <3>2. ASSUME NEW k \in Page, NEW e \in {"r", "w"}
            PROVE  Owns(End(k, e))' = IF e \in ends'[k] THEN 1 ELSE 0
        <4>1. Owns(End(k, e))' = Owns(End(k, e))  BY <2>7, Distinct, Zenon
        <4>2. Owns(End(k, e)) = IF e \in ends[k] THEN 1 ELSE 0  BY Zenon DEF IInv, ObjectsMatch
        <4> QED  BY <1>1, <4>1, <4>2, Zenon
      <3> QED  BY <3>1, <3>2, Zenon DEF ObjectsMatch
    <2> QED  BY <1>9, <1>10, <1>11, <1>12, <1>13, <1>14, <1>15, <1>16, <1>17, <2>3, <2>8, OwnStep, Zenon
  <1> QED  BY <1>19, <1>20, Zenon

(* The end of fileclose(): pipeclose() or iput() for the copied object.    *)
LEMMA CloseObjectInv ==
    ASSUME FileTableAssumption, IInv, NEW p \in Proc, closeObject(p)
    PROVE  IInv'
  <1>1. /\ ~panic /\ job[p].ff # NoObj /\ job' = [job EXCEPT ![p].ff = NoObj]
        /\ ref' = ref /\ obj' = obj /\ ofile' = ofile /\ (panic' <=> panic)
        /\ (job[p].ff = AnInode => iref' = iref - 1 /\ ends' = ends)
        /\ (job[p].ff # AnInode => ends' = [ends EXCEPT ![job[p].ff[2]] = @ \ {job[p].ff[3]}]
                                   /\ iref' = iref)
    BY Zenon DEF closeObject
  <1>2. /\ job[p] \in Job /\ Shape(job[p]) /\ job[p].ff \in Object
        /\ job[p].new = <<>> /\ job[p].pc \in {"idle", "fork", "exit"} /\ Len(job[p].todo) <= 2
        /\ FilesOf(job[p]) = job[p].todo /\ ofile[p] \in Rows
        /\ job[p].todo \in Seq(File)
    BY <1>1, Closing, Zenon
  <1>3. PICK a : a = job[p].ff  OBVIOUS
  <1>4. /\ job' \in [Proc -> Job] /\ \A q \in Proc : q # p => job'[q] = job[q]
        /\ job'[p].new = <<>> /\ job'[p].pc = job[p].pc /\ job'[p].todo = job[p].todo
        /\ job'[p].ff = NoObj
    <2> DEFINE j == [job[p] EXCEPT !.ff = NoObj]
    <2>0. job \in [Proc -> Job] /\ NoObj \in Object  BY DEF IInv, Types, Object
    <2>1. job' = [job EXCEPT ![p] = j]  BY <1>1, <2>0
    <2>2. /\ j \in Job /\ j.new = <<>> /\ j.pc = job[p].pc /\ j.todo = job[p].todo /\ j.ff = NoObj
      BY <1>2, <2>0, SMTT(30) DEF Job
    <2> HIDE DEF j
    <2>3. job' \in [Proc -> Job] /\ job'[p] = j /\ \A q \in Proc : q # p => job'[q] = job[q]
      BY <2>0, <2>1, <2>2, Zenon
    <2> QED  BY <2>2, <2>3, Zenon
  <1>5. FilesOf(job'[p]) = FilesOf(job[p])  BY <1>2, <1>4, Zenon DEF FilesOf
  <1>6. Owns(a)' = Owns(a) - 1 /\ Owns(a) \in Nat /\ Owns(a)' \in Nat
    <2>1. Names(a)' = Names(a)  BY <1>1, Zenon DEF Names
    <2>2. ASSUME NEW q \in Proc PROVE job'[q].ff = a <=> (job[q].ff = a /\ q # p)
      <3>1. CASE q = p  BY <1>1, <1>3, <1>4, <3>1, Zenon
      <3>2. CASE q # p  BY <1>4, <3>2, Zenon
      <3> QED  BY <3>1, <3>2, Zenon
    <2>3. Closes(a)' = Closes(a) \ {p} /\ p \in Closes(a)  BY <1>3, <2>2, Zenon DEF Closes
    <2> QED  BY <2>1, <2>3, OwnsLess, Zenon
  <1>7. ASSUME NEW c, c # NoObj, c # a PROVE Owns(c)' = Owns(c)
    <2>1. Names(c)' = Names(c)  BY <1>1, Zenon DEF Names
    <2>2. ASSUME NEW q \in Proc PROVE job'[q].ff = c <=> job[q].ff = c
      <3>1. CASE q = p  BY <1>3, <1>4, <1>7, <3>1, Zenon
      <3>2. CASE q # p  BY <1>4, <3>2, Zenon
      <3> QED  BY <3>1, <3>2, Zenon
    <2>3. Closes(c)' = Closes(c)  BY <2>2, Zenon DEF Closes
    <2> QED  BY <2>1, <2>3, OwnsSame, Zenon
  <1>8. iref' \in Nat /\ ends' \in [Page -> SUBSET {"r", "w"}] /\ ObjectsMatch'
    <2>0. /\ iref = Owns(AnInode) /\ iref \in Nat /\ ends \in [Page -> SUBSET {"r", "w"}]
          /\ \A k \in Page, e \in {"r", "w"} : Owns(End(k, e)) = IF e \in ends[k] THEN 1 ELSE 0
      BY Zenon DEF IInv, Types, ObjectsMatch
    <2>1. CASE a = AnInode
      <3>1. iref' = iref - 1 /\ ends' = ends  BY <1>1, <1>3, <2>1, Zenon
      <3>2. Owns(AnInode)' = Owns(AnInode) - 1 /\ Owns(AnInode)' \in Nat  BY <1>6, <2>1, Zenon
      <3>3. iref' = Owns(AnInode)'  BY <2>0, <3>1, <3>2, Zenon
      <3>4. ASSUME NEW k \in Page, NEW e \in {"r", "w"}
            PROVE  Owns(End(k, e))' = IF e \in ends'[k] THEN 1 ELSE 0
        <4>1. Owns(End(k, e))' = Owns(End(k, e))  BY <1>7, <2>1, Distinct, Zenon
        <4>2. Owns(End(k, e)) = IF e \in ends[k] THEN 1 ELSE 0  BY <2>0, Zenon
        <4> QED  BY <3>1, <4>1, <4>2, Zenon
      <3>5. ObjectsMatch'  BY <3>3, <3>4, Zenon DEF ObjectsMatch
      <3> QED  BY <2>0, <3>1, <3>2, <3>3, <3>5, Zenon
    <2>2. CASE a # AnInode
      <3>1. PICK h \in Page, d \in {"r", "w"} : a = End(h, d)
        BY <1>1, <1>2, <1>3, <2>2 DEF Object
      <3>2. a[2] = h /\ a[3] = d  BY <3>1 DEF End
      <3>3. ends' = [ends EXCEPT ![h] = ends[h] \ {d}] /\ iref' = iref
        BY <1>1, <1>3, <2>2, <3>2, Zenon
      <3>4. /\ ends' \in [Page -> SUBSET {"r", "w"}] /\ ends'[h] = ends[h] \ {d}
            /\ \A k \in Page : k # h => ends'[k] = ends[k]
        <4>1. ends[h] \ {d} \in SUBSET {"r", "w"}  BY <2>0, Zenon
        <4> QED  BY <2>0, <3>3, <4>1, Zenon
      <3>5. iref' = Owns(AnInode)'  BY <1>7, <2>0, <2>2, <3>3, Distinct, Zenon
      <3>6. ASSUME NEW k \in Page, NEW e \in {"r", "w"}
            PROVE  Owns(End(k, e))' = IF e \in ends'[k] THEN 1 ELSE 0
        <4>0. Owns(End(k, e)) = IF e \in ends[k] THEN 1 ELSE 0  BY <2>0, Zenon
        <4>1. CASE k = h /\ e = d
          <5>1. Owns(End(k, e))' = Owns(End(k, e)) - 1 /\ Owns(End(k, e))' \in Nat
            BY <1>6, <3>1, <4>1, Zenon
          <5>2. e \notin ends'[k]  BY <3>4, <4>1, Zenon
          <5>3. Owns(End(k, e)) \in {0, 1}  BY <4>0, Zenon
          <5>4. Owns(End(k, e))' = 0  BY <5>1, <5>3, SMT
          <5> QED  BY <5>2, <5>4, Zenon
        <4>2. CASE ~(k = h /\ e = d)
          <5>1. End(k, e) # a /\ End(k, e) # NoObj
            <6>1. End(k, e) = End(h, d) => k = h /\ e = d  BY Distinct, Zenon
            <6> QED  BY <3>1, <4>2, <6>1, Distinct, Zenon
          <5>2. Owns(End(k, e))' = Owns(End(k, e))  BY <1>7, <5>1, Zenon
          <5>3. e \in ends'[k] <=> e \in ends[k]  BY <3>4, <4>2, Zenon
          <5> QED  BY <4>0, <5>2, <5>3, Zenon
        <4> QED  BY <4>1, <4>2, Zenon
      <3>7. ObjectsMatch'  BY <3>5, <3>6, Zenon DEF ObjectsMatch
      <3> QED  BY <2>0, <3>3, <3>4, <3>7, Zenon
    <2> QED  BY <2>1, <2>2, Zenon
  <1>9. Types'  BY <1>1, <1>4, <1>8, Zenon DEF IInv, Types
  <1>10. \A q \in Proc : q # p => ofile'[q] = ofile[q] /\ job'[q] = job[q]  BY <1>1, <1>4, Zenon
  <1>11. Jobs'
    <2>1. Shape(job'[p])
      <3>1. job[p].pc \notin {"open", "pipe", "page", "fds"}  BY <1>2
      <3>2. Len(job'[p].todo) <= 2  BY <1>2, <1>4, Zenon
      <3> QED  BY <1>4, <3>1, <3>2, Zenon DEF Shape
    <2> QED  BY <1>1, <1>10, <2>1, JobsStep, Zenon DEF IInv
  <1>12. ASSUME NEW x \in File
         PROVE  ref'[x] = ref[x] - Mine(ofile[p], job[p], x) + Mine(ofile'[p], job'[p], x)
    <2>1. Mine(ofile[p], job[p], x) \in Nat  BY <1>2, MineNat, Zenon
    <2>2. Mine(ofile'[p], job'[p], x) = Mine(ofile[p], job[p], x)  BY <1>1, <1>5, Zenon DEF Mine
    <2>3. ref[x] \in Nat /\ ref'[x] = ref[x]  BY <1>1 DEF IInv, Types
    <2> QED  BY <2>1, <2>2, <2>3, SMT
  <1>13. \A fd \in Fd : Had(p, ofile'[p][fd])  BY <1>1, Zenon DEF Had
  <1>14. \A k \in DOMAIN FilesOf(job'[p]) : Had(p, FilesOf(job'[p])[k])  BY <1>5, Zenon DEF Had
  <1>15. FreshAt(p)'
    <2>1. DOMAIN job'[p].new = {}  BY <1>4
    <2> QED  BY <2>1, Zenon DEF FreshAt
  <1>16. Spare'  BY <1>1, Zenon DEF IInv, Spare
  <1>17. ~panic'  BY <1>1, Zenon
  <1>18. \A f \in File : obj'[f] = obj[f] \/ obj'[f] = NoObj \/ (Had(p, f) /\ ref[f] # 0)
    BY <1>1, Zenon
  <1> QED  BY <1>8, <1>9, <1>10, <1>11, <1>12, <1>13, <1>14, <1>15, <1>16, <1>17, <1>18, OwnStep, Zenon

----------------------------------------------------------------------------
LEMMA InitInv ==
    ASSUME FileTableAssumption, Init
    PROVE  IInv
  <1>0. /\ ref = [f \in File |-> 0] /\ obj = [f \in File |-> NoObj]
        /\ ofile = [p \in Proc |-> [fd \in Fd |-> None]]
        /\ ends = [k \in Page |-> {}] /\ iref = 0 /\ job = [p \in Proc |-> NoJob] /\ ~panic
    BY Zenon DEF Init
  <1>1. /\ NoJob \in Job /\ Shape(NoJob) /\ FilesOf(NoJob) = <<>> /\ DOMAIN NoJob.new = {}
        /\ NoJob.ff = NoObj /\ DOMAIN FilesOf(NoJob) = {}
    <2>1. /\ NoJob.pc = "idle" /\ NoJob.new = <<>> /\ NoJob.todo = <<>> /\ NoJob.ff = NoObj
      BY DEF NoJob
    <2>2. NoJob \in Job  BY DEF NoJob, Job, Labels, Object
    <2>3. FilesOf(NoJob) = <<>>  BY <2>1 DEF FilesOf
    <2>4. Shape(NoJob)  BY <2>1 DEF Shape
    <2> QED  BY <2>1, <2>2, <2>3, <2>4
  <1>2. Types
    <2>1. ref \in [File -> Nat] /\ iref \in Nat  BY <1>0
    <2>2. NoObj \in Object  BY DEF Object
    <2>3. [fd \in Fd |-> None] \in Rows  BY Zenon DEF Rows
    <2>5. obj \in [File -> Object] /\ ofile \in [Proc -> Rows] /\ job \in [Proc -> Job]
      BY <1>0, <1>1, <2>2, <2>3, Zenon
    <2>6. ends \in [Page -> SUBSET {"r", "w"}]  BY <1>0, Zenon
    <2> QED  BY <2>1, <2>5, <2>6, Zenon DEF Types
  <1>3. Jobs
    <2>1. \A p \in Proc : job[p] = NoJob /\ \A fd \in Fd : ofile[p][fd] = None  BY <1>0, Zenon
    <2> QED  BY <1>1, <2>1, Zenon DEF Jobs
  <1>4. Fresh
    <2>1. \A p \in Proc : DOMAIN job[p].new = {}  BY <1>0, <1>1, Zenon
    <2> QED  BY <2>1, Zenon DEF Fresh, FreshAt
  <1>5. Spare  BY <1>0, Zenon DEF Spare
  <1>6. RefsMatch
    <2>1. Table(ofile, job) /\ Called = Calls(job)  BY <1>2, <1>3, Tables, Zenon
    <2>2. Rowed(ofile, Proc, Fd) /\ Rowed(Called, Proc, 1 .. 2)  BY <2>1, RowsFinite, Zenon
    <2>3. \A p \in Proc : DOMAIN Called[p] = {}  BY <1>0, <1>1, Zenon DEF Called
    <2>4. \A p \in Proc : DOMAIN ofile[p] = Fd /\ \A fd \in Fd : ofile[p][fd] = None  BY <1>0, Zenon
    <2>5. SUFFICES ASSUME NEW f \in File
                   PROVE  ref[f] = Cardinality(Having(ofile, f)) + Cardinality(Having(Called, f))
      BY <1>0, Zenon DEF RefsMatch
    <2>6. Nowhere(Called, Proc, f)  BY <2>3, Zenon DEF Nowhere
    <2>7. Nowhere(ofile, Proc, f)  BY <2>4, Finite, Zenon DEF Nowhere
    <2>8. Cardinality(Having(ofile, f)) = 0 /\ Cardinality(Having(Called, f)) = 0
      BY <2>2, <2>6, <2>7, NoneHave, Zenon
    <2>9. ref[f] = 0  BY <1>0, Zenon
    <2> QED  BY <2>8, <2>9
  <1>7. ObjectsMatch
    <2>1. ASSUME NEW o, o # NoObj PROVE Owns(o) = 0
      <3>1. Names(o) = {} /\ Closes(o) = {}  BY <1>0, <1>1, <2>1, Zenon DEF Names, Closes
      <3>2. Cardinality({}) = 0  BY FS_EmptySet, Zenon
      <3>3. Owns(o) = Cardinality(Names(o)) + Cardinality(Closes(o))  BY Zenon DEF Owns, Names, Closes
      <3> QED  BY <3>1, <3>2, <3>3
    <2>2. Owns(AnInode) = 0 /\ \A k, e : Owns(End(k, e)) = 0  BY <2>1, Distinct, Zenon
    <2>3. \A k \in Page : \A e : e \notin ends[k]  BY <1>0, Zenon
    <2> QED  BY <1>0, <2>2, <2>3, Zenon DEF ObjectsMatch
  <1> QED  BY <1>2, <1>3, <1>4, <1>5, <1>6, <1>7, Zenon DEF IInv

LEMMA StutterInv == IInv /\ UNCHANGED vars => IInv'
  <1> SUFFICES ASSUME IInv, UNCHANGED vars PROVE IInv'  OBVIOUS
  <1>1. /\ ref' = ref /\ obj' = obj /\ ofile' = ofile /\ ends' = ends
        /\ iref' = iref /\ job' = job /\ (panic' <=> panic)
    BY Zenon DEF vars
  <1>2. Types' /\ Jobs'  BY <1>1, Zenon DEF IInv, Types, Jobs
  <1>3. Fresh' /\ Spare'
    <2>1. Spare'  BY <1>1, Zenon DEF IInv, Spare
    <2>2. ASSUME NEW p \in Proc PROVE FreshAt(p)'
      <3>1. FreshAt(p)  BY Zenon DEF IInv, Fresh
      <3> QED  BY <1>1, <3>1 DEF FreshAt
    <2> QED  BY <2>1, <2>2, Zenon DEF Fresh
  <1>4. RefsMatch'
    <2>1. Called' = Called  BY <1>1, Zenon DEF Called
    <2> QED  BY <1>1, <2>1, Zenon DEF IInv, RefsMatch
  <1>5. ObjectsMatch'  BY <1>1, ObjectsStay, Zenon DEF IInv
  <1> QED  BY <1>2, <1>3, <1>4, <1>5, Zenon DEF IInv

LEMMA NextInv ==
    ASSUME FileTableAssumption, Children, IInv, [Next]_vars
    PROVE  IInv'
  <1>1. CASE UNCHANGED vars  BY <1>1, StutterInv, Zenon
  <1>2. ASSUME NEW p \in Proc, sys_open(p) PROVE IInv'
    BY <1>2, AllocInv, Zenon DEF sys_open
  <1>3. ASSUME NEW p \in Proc, openFd(p) PROVE IInv'
    <2>1. CASE FreeFd(p) # {}  BY <1>3, <2>1, OpenInv, Zenon
    <2>2. CASE FreeFd(p) = {}
      <3>1. /\ At(p, "open") /\ Call(p, "idle", <<>>, <<job[p].new[1]>>)
            /\ UNCHANGED <<ref, obj, ofile, ends, iref, panic>>
        BY <1>3, <2>2, Zenon DEF openFd
      <3>2. job[p].new \in Seq(File) /\ job[p].pc = "open" /\ Shape(job[p])  BY <3>1, AtFacts, Zenon
      <3>3. Len(job[p].new) = 1  BY <3>2 DEF Shape
      <3>4. <<job[p].new[1]>> = job[p].new  BY <3>2, <3>3
      <3>5. Call(p, "idle", <<>>, job[p].new)  BY <3>1, <3>4, Zenon
      <3> QED  BY <3>1, <3>5, GiveUpInv, Zenon
    <2> QED  BY <2>1, <2>2, Zenon
  <1>4. ASSUME NEW p \in Proc, sys_pipe(p) PROVE IInv'
    BY <1>4, AllocInv, Zenon DEF sys_pipe
  <1>5. ASSUME NEW p \in Proc, pipeFile(p) PROVE IInv'
    <2>1. At(p, "pipe") /\ UNCHANGED <<obj, ofile, ends, iref, panic>>  BY <1>5, Zenon DEF pipeFile
    <2>2. CASE filealloc(p, "page")  BY <2>1, <2>2, AllocInv, Zenon
    <2>3. CASE Free = {} /\ Call(p, "idle", <<>>, job[p].new) /\ ref' = ref
      <3>1. UNCHANGED <<ref, obj, ofile, ends, iref, panic>>  BY <2>1, <2>3, Zenon
      <3> QED  BY <2>1, <2>3, <3>1, GiveUpInv, Zenon
    <2> QED  BY <1>5, <2>2, <2>3, Zenon DEF pipeFile
  <1>6. ASSUME NEW p \in Proc, pipePage(p) PROVE IInv'
    <2>1. At(p, "page") /\ UNCHANGED <<ref, ofile, iref, panic>>  BY <1>6, Zenon DEF pipePage
    <2>2. CASE Call(p, "idle", <<>>, CloseBoth(job[p].new)) /\ UNCHANGED <<obj, ends>>
      <3>1. UNCHANGED <<ref, obj, ofile, ends, iref, panic>>  BY <2>1, <2>2, Zenon
      <3>2. Call(p, "idle", <<>>, job[p].new)  BY <2>2, Zenon DEF CloseBoth
      <3> QED  BY <2>1, <3>1, <3>2, GiveUpInv, Zenon
    <2>3. ASSUME NEW k \in Page, ends[k] = {}, ends' = [ends EXCEPT ![k] = {"r", "w"}],
                 obj' = [obj EXCEPT ![job[p].new[1]] = End(k, "r"), ![job[p].new[2]] = End(k, "w")],
                 Call(p, "fds", job[p].new, <<>>)
          PROVE  IInv'
      BY <2>1, <2>3, PageInv, Zenon
    <2> QED  BY <1>6, <2>2, <2>3, Zenon DEF pipePage
  <1>7. ASSUME NEW p \in Proc, pipeFds(p) PROVE IInv'
    <2>1. CASE ~(Cardinality(FreeFd(p)) < 2)  BY <1>7, <2>1, FdsInv, Zenon
    <2>2. CASE Cardinality(FreeFd(p)) < 2
      <3>1. /\ At(p, "fds") /\ Call(p, "idle", <<>>, job[p].new)
            /\ UNCHANGED <<ref, obj, ofile, ends, iref, panic>>
        BY <1>7, <2>2, Zenon DEF pipeFds
      <3> QED  BY <3>1, GiveUpInv, Zenon
    <2> QED  BY <2>1, <2>2, Zenon
  <1>8. ASSUME NEW p \in Proc, sys_dup(p) PROVE IInv'
    <2>1. PICK d \in Fd \ FreeFd(p) : filedup(p, d) /\ ofile' = fdalloc(p, ofile[p][d])
      BY <1>8, Zenon DEF sys_dup
    <2>2. ~panic /\ FreeFd(p) # {} /\ UNCHANGED <<obj, ends, iref, job>>  BY <1>8, Zenon DEF sys_dup, At
    <2>3. PICK fd : fd = Min(FreeFd(p)) /\ ofile' = [ofile EXCEPT ![p][fd] = ofile[p][d]]
      BY <2>1, Zenon DEF fdalloc
    <2>4. FreeFd(p) \subseteq Nat  BY Finite, Zenon DEF FreeFd
    <2>5. fd \in FreeFd(p)  BY <2>2, <2>3, <2>4, LeastIn, Zenon
    <2>6. fd \in Fd /\ ofile[p][fd] = None /\ d \in Fd /\ ofile[p][d] # None
      BY <2>1, <2>5, Zenon DEF FreeFd
    <2> QED  BY <2>1, <2>2, <2>3, <2>6, DupInv, Zenon
  <1>9. ASSUME NEW p \in Proc, sys_close(p) PROVE IInv'
    <2>1. "idle" \in {"idle", "fork", "exit"}  OBVIOUS
    <2> QED  BY <1>9, <2>1, ClearInv, Zenon DEF sys_close
  <1>10. ASSUME NEW p \in Proc, fork(p) PROVE IInv'
    <2>1. At(p, "idle") /\ Call(p, "fork", <<>>, <<>>) /\ UNCHANGED <<ref, obj, ofile, ends, iref, panic>>
      BY <1>10, Zenon DEF fork
    <2> QED  BY <2>1, TurnInv, Zenon
  <1>11. ASSUME NEW p \in Proc, forkDup(p) PROVE IInv'
    <2>1. PICK q \in child[p] : ToDup(p, q) # {} /\ filedup(p, Min(ToDup(p, q)))
             /\ ofile' = [ofile EXCEPT ![q][Min(ToDup(p, q))] = ofile[p][Min(ToDup(p, q))]]
      BY <1>11, Zenon DEF forkDup
    <2>2. q \in Proc /\ ~panic /\ UNCHANGED <<obj, ends, iref, job>>
      BY <1>11, <2>1, Zenon DEF forkDup, At, Children
    <2>3. ToDup(p, q) \subseteq Nat  BY Finite, Zenon DEF ToDup, FreeFd
    <2>4. PICK fd : fd = Min(ToDup(p, q))  BY Zenon
    <2>5. fd \in ToDup(p, q)  BY <2>1, <2>3, <2>4, LeastIn, Zenon
    <2>6. fd \in Fd /\ ofile[p][fd] # None /\ ofile[q][fd] = None  BY <2>5, Zenon DEF ToDup, FreeFd
    <2>7. filedup(p, fd) /\ ofile' = [ofile EXCEPT ![q][fd] = ofile[p][fd]]  BY <2>1, <2>4, Zenon
    <2> QED  BY <2>2, <2>6, <2>7, DupInv, Zenon
  <1>12. ASSUME NEW p \in Proc, forkDone(p) PROVE IInv'
    <2>1. At(p, "fork") /\ Call(p, "idle", <<>>, <<>>) /\ UNCHANGED <<ref, obj, ofile, ends, iref, panic>>
      BY <1>12, Zenon DEF forkDone
    <2> QED  BY <2>1, TurnInv, Zenon
  <1>13. ASSUME NEW p \in Proc, exit(p) PROVE IInv'
    <2>1. At(p, "idle") /\ Call(p, "exit", <<>>, <<>>) /\ UNCHANGED <<ref, obj, ofile, ends, iref, panic>>
      BY <1>13, Zenon DEF exit
    <2> QED  BY <2>1, TurnInv, Zenon
  <1>14. ASSUME NEW p \in Proc, exitClose(p) PROVE IInv'
    <2>1. PICK fd : /\ fd = Min(Fd \ FreeFd(p)) /\ ofile' = [ofile EXCEPT ![p][fd] = None]
                    /\ Call(p, "exit", <<>>, <<ofile[p][fd]>>)
      BY <1>14, Zenon DEF exitClose
    <2>2. At(p, "exit") /\ FreeFd(p) # Fd /\ UNCHANGED <<ref, obj, ends, iref, panic>>
      BY <1>14, Zenon DEF exitClose
    <2>3. fd \in Fd \ FreeFd(p)
      <3>1. Fd \ FreeFd(p) \subseteq Nat  BY Finite, Zenon
      <3>2. Fd \ FreeFd(p) # {}  BY <2>2, Zenon DEF FreeFd
      <3> QED  BY <2>1, <3>1, <3>2, LeastIn, Zenon
    <2>4. "exit" \in {"idle", "fork", "exit"}  OBVIOUS
    <2> QED  BY <2>1, <2>2, <2>3, <2>4, ClearInv, Zenon
  <1>15. ASSUME NEW p \in Proc, exitDone(p) PROVE IInv'
    <2>1. At(p, "exit") /\ Call(p, "idle", <<>>, <<>>) /\ UNCHANGED <<ref, obj, ofile, ends, iref, panic>>
      BY <1>15, Zenon DEF exitDone
    <2> QED  BY <2>1, TurnInv, Zenon
  <1>16. ASSUME NEW p \in Proc, fileclose(p) PROVE IInv'  BY <1>16, FilecloseInv, Zenon
  <1>17. ASSUME NEW p \in Proc, closeObject(p) PROVE IInv'  BY <1>17, CloseObjectInv, Zenon
  <1> QED
    BY <1>1, <1>2, <1>3, <1>4, <1>5, <1>6, <1>7, <1>8, <1>9, <1>10, <1>11, <1>12, <1>13, <1>14, <1>15,
       <1>16, <1>17, Zenon DEF Next

(* A child is a process.                                                   *)
LEMMA ChildrenInv == Children /\ [Next]_vars => Children'
  <1> SUFFICES ASSUME Children, [Next]_vars PROVE Children'  OBVIOUS
  <1>1. CASE child' = child  BY <1>1, Zenon DEF Children
  <1>2. ASSUME NEW p \in Proc, fork(p) PROVE Children'
    <2>1. PICK q \in Proc : child' = [child EXCEPT ![p] = {q}]  BY <1>2, Zenon DEF fork
    <2> QED  BY <2>1, Zenon DEF Children
  <1>3. ASSUME NEW p \in Proc, forkDone(p) PROVE Children'
    <2>1. child' = [child EXCEPT ![p] = {}]  BY <1>3, Zenon DEF forkDone
    <2> QED  BY <2>1, Zenon DEF Children
  <1> QED
    BY <1>1, <1>2, <1>3, Zenon
    DEF Next, vars, sys_open, openFd, sys_pipe, pipeFile, pipePage, pipeFds, sys_dup, sys_close,
        forkDup, exit, exitClose, exitDone, fileclose, closeObject

(* In every behaviour of the file table the reference counts are those of  *)
(* the descriptors and calls that name a file, no call panics, and what    *)
(* files own is owned once.                                                *)
THEOREM FilesSafe ==
    ASSUME FileTableAssumption
    PROVE  Spec => [](RefsMatch /\ ObjectsMatch)
  <1>1. Init => Children /\ IInv  BY InitInv, Zenon DEF Init, Children
  <1>2. Children /\ IInv /\ [Next]_vars => (Children /\ IInv)'  BY NextInv, ChildrenInv, Zenon
  <1>3. IInv => RefsMatch /\ ObjectsMatch  BY Zenon DEF IInv
  <1> QED  BY <1>1, <1>2, <1>3, PTL DEF Spec
=============================================================================
