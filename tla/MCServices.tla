----------------------------- MODULE MCServices -----------------------------
(***************************************************************************)
(* What system calls use, on small instances side by side: pipes, path     *)
(* names and the inode cache, the file table, the clock, the console,      *)
(* memory.  part says which of them a behaviour is about; the variables of *)
(* the others stay at their initial values.  Pipe is extended, the others  *)
(* are instances.                                                          *)
(***************************************************************************)
EXTENDS Pipe, TLC

VARIABLES
    part,
    dinode, ent, iref, busy, core, cwd, opened, t, npanic,      \* Names
    ref, obj, ofile, alive, child, pends, irefs, call, fpanic,  \* FileTable
    ticks, tpc, ticks0, nap, tkilled, since, lag, doomed,       \* Ticks
    buf, r, w, e, canon, clock, cpc, target, dst, ckilled,      \* Console
    free, img, sz, new, stack, job, lost, vpanic                \* Vm

names   == <<dinode, ent, iref, busy, core, cwd, opened, t, npanic>>
ftable  == <<ref, obj, ofile, alive, child, pends, irefs, call, fpanic>>
clocks  == <<ticks, tpc, ticks0, nap, tkilled, since, lag, doomed>>
console == <<buf, r, w, e, canon, clock, cpc, target, dst, ckilled>>
memory  == <<free, img, sz, new, stack, job, lost, vpanic>>

----------------------------------------------------------------------------
(* Both processes remove /a and create b; p also makes /a, q enters it,    *)
(* links, opens and removes b, and uses the odd names.                     *)
Abs(op, path) == [op |-> op, abs |-> TRUE, path |-> path, abs2 |-> FALSE, new |-> <<>>]
Rel(op, path) == [Abs(op, path) EXCEPT !.abs = FALSE]
Link(path, to) == [Abs("link", path) EXCEPT !.abs2 = TRUE, !.new = to]

Common == {Abs("unlink", <<"a">>), Rel("create", <<"b">>)}

MCCalls == [
    p |-> Common \cup {Abs("mkdir", <<"a">>)},
    q |-> Common \cup {Abs("chdir", <<"a">>), Link(<<"a", "b">>, <<"b">>), Rel("open", <<"b">>),
                      Rel("unlink", <<"b">>), Rel("unlink", <<".">>), Abs("mkdir", <<>>)}]

N == INSTANCE Names WITH
    Proc <- {"p", "q"}, NoProc <- "none", NInum <- 4, NINODE <- 3, Name <- {"a", "b"},
    Calls <- MCCalls, Chain <- <<>>,
    ref <- iref, ofile <- opened, panic <- npanic

F == INSTANCE FileTable WITH
    Proc <- {1, 2}, Init1 <- 1, NFILE <- 3, NOFILE <- 2, Page <- {1},
    ends <- pends, iref <- irefs, job <- call, panic <- fpanic

(* The clock wraps; a negative time is a long one.                         *)
T == INSTANCE Ticks WITH
    UINT <- 5, Naps <- {-2, 2}, MaxLag <- 1,
    pc <- tpc, n <- nap, killed <- tkilled

(* Two readers and a small ring; and one reader and a ring in which a line *)
(* of two characters can still be edited.                                  *)
C == INSTANCE Console WITH
    Reader <- Proc, NoReader <- NoProc, Plain <- {"x"}, NL <- "nl", CR <- "cr",
    EOF <- "eof", ERASE <- "erase", KILL <- "kill", INPUT_BUF <- 2, UINT <- 4, MaxN <- 2,
    lock <- clock, pc <- cpc, killed <- ckilled

C1 == INSTANCE Console WITH
    Reader <- {1}, NoReader <- 0, Plain <- {"x"}, NL <- "nl", CR <- "cr",
    EOF <- "eof", ERASE <- "erase", KILL <- "kill", INPUT_BUF <- 3, UINT <- 6, MaxN <- 2,
    lock <- clock, pc <- cpc, killed <- ckilled

(* The console's ring as the two sequences it stands for.                  *)
L == INSTANCE LineDiscipline WITH
    Reader <- Proc, Char <- C!Char, NL <- "nl", CR <- "cr",
    EOF <- "eof", ERASE <- "erase", KILL <- "kill", Capacity <- 2,
    ready <- C!From(r, w), line <- C!From(w, e)

L1 == INSTANCE LineDiscipline WITH
    Reader <- {1}, Char <- C1!Char, NL <- "nl", CR <- "cr",
    EOF <- "eof", ERASE <- "erase", KILL <- "kill", Capacity <- 3,
    ready <- C1!From(r, w), line <- C1!From(w, e)

ASSUME PartsAssumption ==
    /\ F!FileTableAssumption
    /\ T!TicksAssumption /\ C!ConsoleAssumption /\ C1!ConsoleAssumption

(* Enough pages for two processes of one page, too few for exec().         *)
V == INSTANCE Vm WITH
    Proc <- {1, 2}, Init1 <- 1, NPage <- 14, KTABS <- 1, MaxPages <- 6, PTESPERTAB <- 2,
    Sizes <- {2}, panic <- vpanic

----------------------------------------------------------------------------
(* One part's initial states at a time, and one initial state of each of   *)
(* the others; one content of the pipe's new page.                         *)
MCInit ==
    /\ part \in {"pipe", "names", "table", "clock", "console", "line", "memory"}
    /\ Init /\ N!Init /\ F!Init /\ T!Init /\ V!Init
    /\ IF part = "line" THEN C1!Init ELSE C!Init
    /\ data = [k \in DOMAIN data |-> CHOOSE b \in Byte : TRUE] /\ out = data[0]
    /\ part # "pipe" => rd = Proc /\ wr = Proc
    /\ part # "clock" => ticks = 0

(* The pipe's life ends when both ends are closed.                         *)
MCNext ==
    \/ /\ part = "pipe" /\ (Next \/ UNCHANGED vars)
       /\ UNCHANGED <<part, names, ftable, clocks, console, memory>>
    \/ /\ part = "names" /\ N!Next
       /\ UNCHANGED <<part, vars, ftable, clocks, console, memory>>
    \/ /\ part = "table" /\ F!Next
       /\ UNCHANGED <<part, vars, names, clocks, console, memory>>
    \/ /\ part = "clock" /\ T!Next
       /\ UNCHANGED <<part, vars, names, ftable, console, memory>>
    \/ /\ \/ part = "console" /\ C!Next
          \/ part = "line" /\ C1!Next
       /\ UNCHANGED <<part, vars, names, ftable, clocks, memory>>
    \/ /\ part = "memory" /\ V!Next
       /\ UNCHANGED <<part, vars, names, ftable, clocks, console>>

(* Nothing tells apart the processes of the pipe, the clock and the        *)
(* console, nor the bytes.                                                 *)
Alike == Permutations(Proc) \cup Permutations(Byte)

MCSpec == MCInit /\ [][MCNext]_<<part, vars, names, ftable, clocks, console, memory>>

----------------------------------------------------------------------------
(* Names' RefsCounted, of iget(), idup(), iput() and every error path:     *)
(* ip->ref is the number of pointers to the inode.                         *)
RefsCounted == part = "names" => N!RefsCounted

(* Names' CopiesAgree, of ilock(), iupdate(), iput() and ialloc(): a valid *)
(* copy of an inode in the cache is what is on disk.                       *)
CopiesAgree == part = "names" => N!CopiesAgree

(* Names' NoPanic, of link(), unlink(), create() and chdir(): no call runs *)
(* into a panic of ilock(), iput() or unlink().                            *)
NoPanic == part = "names" => N!NoPanic

(* Names' LinksCovered, of dirlink(), sys_link(), sys_unlink(), create():  *)
(* what a path leads to is allocated, with a link for each of its names.   *)
LinksCovered == part = "names" => N!LinksCovered

(* Names' NoLockCycle: namex(), create(), sys_link() and sys_unlink()      *)
(* never lock inodes in a cycle.                                           *)
NoLockCycle == part = "names" => N!NoLockCycle

(* FileTable's RefsMatch and ObjectsMatch: f->ref counts the descriptors   *)
(* and calls that have the file, through the error paths of the callers of *)
(* filealloc() and filedup(); and fileclose() gives back each inode        *)
(* reference and each end of a pipe once, although after it has freed the  *)
(* file.                                                                   *)
FilesMatch == part = "table" => F!RefsMatch /\ F!ObjectsMatch

(* Ticks' KilledLeaves and SleepsItsTime, of sys_sleep(): a killed process *)
(* leaves at the next tick, another after n ticks and not before.          *)
SleepsEnd == [](part = "clock" => T!KilledLeaves) /\ T!SleepsItsTime

(* Console's FullIsReady and SleepersHaveReason, of consoleintr() and      *)
(* consoleread(): a full ring has something to read, and a reader sleeps   *)
(* only while there is nothing.                                            *)
InputIsRead ==
    /\ part = "console" => C!FullIsReady /\ C!SleepersHaveReason
    /\ part = "line" => C1!FullIsReady /\ C1!SleepersHaveReason

(* The console's ring with its three indices, which wrap, is a line        *)
(* discipline: consoleread() delivers what was typed, edited only while    *)
(* the line was not finished, in order and once, and ^D ends one read()    *)
(* with nothing.                                                           *)
ConsoleImplementsLines ==
    /\ part = "console" => L!LineInit
    /\ part = "line" => L1!LineInit
    /\ [][part = "console" /\ (L!lineVars)' # L!lineVars => L!LineNext]_console
    /\ [][part = "line" /\ (L1!lineVars)' # L1!lineVars => L1!LineNext]_console

(* Vm's PagesConserved, of kalloc.c, vm.c and exec(): every page is free   *)
(* or has one owner, or was lost where setupkvm() or mappages() failed.    *)
PagesConserved == part = "memory" => V!PagesConserved

(* Vm's ImageWhole, of sbrk(), fork() and exec(): a process has every page *)
(* below its size.                                                         *)
ImageWhole == part = "memory" => V!ImageWhole
=============================================================================
