# TLA+ models of the xv6-freebsd kernel

xv6-freebsd is the xv6 teaching kernel (a multiprocessor Unix for x86, `kern/`)
with a BSD-flavoured userland. These modules model the parts of the kernel in
which processes, CPUs, interrupts and crashes meet. TLC checks them on small
instances; TLAPS proves theorems about pipes, the log, the buffer cache, processes, the
file table, the clock, the console and the start of the processors for every instance.

## The system and its parts

| Part | State | Operations | What makes it hard |
|---|---|---|---|
| Pipes (`pipe.c`) | ring, `nread`/`nwrite`, open ends, lock | read, write, close | sleep/wakeup, kill, counters that wrap, freeing the page |
| Processes (`proc.c`) | process table, `ptable.lock`, per-CPU state | scheduler, sched, yield, fork, exit, wait, kill, sleep, wakeup | the lock is handed over across `swtch()`; several CPUs; the timer |
| Spinlocks (`spinlock.c`) | holder, `ncli`, `intena`, interrupt flag | acquire, release, pushcli, popcli | per-CPU state seen by processes that migrate |
| Traps (`trap.c`) | `killed`, `ticks` | system calls, timer, device interrupts | interrupts anywhere they are enabled |
| Log (`log.c`) | header and log blocks on disk, `lh`, `outstanding`, `committing` | begin_op, end_op, log_write, commit, recovery | group commit, crashes, torn writes, reservations |
| Buffer cache (`bio.c`) and disk (`ide.c`) | buffers with flags, LRU list, request queue | bget, bread, bwrite, brelse, iderw, ideintr | recycling, pinned buffers, one sleep channel for two purposes |
| Inodes and blocks (`fs.c`) | inode cache, bitmap, block lists | iget, ilock, iput, balloc, bmap, readi, writei, itrunc | reference counts, freeing the last reference |
| Names and file calls (`fs.c`, `sysfile.c`) | directories | namex, link, unlink, create, open | lock order, half-done operations |
| Files (`file.c`) | reference counts, offsets | dup, close, read, write | sharing across fork; chunks against the log's size |
| Console (`console.c`) | input ring with an edit index | consoleintr, consoleread | interrupts editing what a reader waits for |
| Memory (`vm.c`, `kalloc.c`, `exec.c`) | free list, page tables | kalloc, kfree, allocuvm, copyuvm, exec | running out of memory half way |
| Clock calls (`sysproc.c`) | `ticks` | sleep, uptime | wrap, kill |
| Boot (`main.c`) | stacks, `started`, `use_lock` | startothers, mpenter, kinit2 | processors start while memory has no lock |
| Interrupt controllers, `mkfs`, userland | | | sequential or hardware |

Processes reach pipes and inodes through file descriptors. Every file system
call is a transaction of the log, which keeps its blocks in the buffer cache,
which queues requests for the disk. Everything that waits uses `sleep()` and
`wakeup()` of `proc.c`. `PROJECT.json` lists each part, modelled or not.

## Modules

| Module | Models | Role |
|---|---|---|
| `ByteStream` | what a pipe promises | a bounded FIFO of bytes that ends when the write end is closed |
| `Pipe` | `pipe.c`, with `fileclose` and `kill` around it | component |
| `PipeProofs` | | proofs about `Pipe` |
| `Proc` | `proc.c`, `spinlock.c`, the timer path of `trap.c`, `ilock`/`iunlock` | component |
| `ProcProofs` | | proofs about `Proc` |
| `AtomicDisk` | what the log promises | current and committed disk; a commit takes place only while no call is active; a crash goes back to the committed one |
| `Log` | `log.c` | component |
| `LogProofs` | | proofs about `Log` |
| `BlockStore` | what the buffer cache promises | blocks with one current value and one holder each |
| `Bio` | `bio.c` over `ide.c` | component |
| `BioProofs` | | proofs about `Bio` |
| `Names` | inodes, directories and names in `fs.c`; `open`, `create`, `mkdir`, `mknod`, `link`, `unlink`, `chdir` in `sysfile.c`; the directories `mkfs` makes | component |
| `ByteFile` | what `fs.c` promises of contents | a sequence of bytes per file |
| `FileData` | `balloc`, `bfree`, `bmap`, `itrunc`, `writei` in `fs.c`, `filewrite`, `fileread`, `lseek`, `O_TRUNC`, `O_APPEND` | component |
| `FileTable` | `file.c`, the descriptors of `sysfile.c`, `pipealloc`, what `fork` and `exit` do to files | component |
| `Tally` | | the places of a table of pointers that hold an object |
| `FileTableProofs` | | proofs about `FileTable` |
| `LineDiscipline` | what console input promises | finished input and a line that can still be edited |
| `Console` | input in `console.c` | component |
| `Ticks` | the clock of `trap.c`, `sys_sleep` | component |
| `Vm` | `vm.c`, `kalloc.c`, `growproc`, `fork`, `exec.c` | component |
| `Boot` | `main.c`, `kinit2` | component |
| `MachineProofs` | | proofs about `Ticks`, `Console` and `Boot` |
| `Lemmas` | | arithmetic of wrapping counters, and counting pointers, for several proofs |
| `MCServices`, `MCStorage`, `MCLive` | | several components side by side, see below |
| `MCProc`, `MCNames`, `MCFileData` | | instances of one component |

### Components side by side

`MCServices` (pipe, names, file table, clock, console, memory), `MCStorage` (log,
buffer cache, file contents) and `MCLive` (log, pipe, boot) put several small
instances into one run. A variable `part`, fixed in the initial state, says which
component a behaviour is about; the others keep their initial values. So each
component is checked in all of its own behaviours, and the state space is the sum of
theirs, not the product. The properties of a component are guarded by `part`; where two
of them belong together, the run checks them as one:

| Run | Property | Of |
|---|---|---|
| `services` | `FilesMatch` | `FileTable`: `RefsMatch`, `ObjectsMatch` |
| | `SleepsEnd` | `Ticks`: `KilledLeaves`, `SleepsItsTime` |
| | `InputIsRead` | `Console`: `FullIsReady`, `SleepersHaveReason` |
| `storage` | `BufferWaitsEnd` | `Bio`: `SleepersHaveReason`, `QueueSound` |
| | `BlocksAccounted` | `FileData`: `BlocksOwnedOnce`, `NoHoles` |
| | `LayersTypeOK` | the `TypeOK` of `Log`, `Bio` and `FileData` |
| `live` | `ProcessorsApart` | `Boot`: `KmemExclusive`, `StacksDistinct` |

This is not
a composition: where components meet, one of them has the other's effect as an
action (`Pipe` has `fileclose` and `kill`, `Log` the cache's eviction, `FileTable`
the ends of pipes), and the abstract modules state what is relied on.

### Conventions

A section of code under a spinlock is one step when nothing in it sleeps or
switches; when it does, the lock is a variable that names its holder. Local
variables that live across steps are functions from processes, and `pc` says
where a process is. `sleep(chan, lk)` releases `lk` and goes to an "asleep"
label in one step (in `Proc`, where this is what is to be shown, it takes its
real steps). Where one line of code decides a property, it is an operator of its
own; operators with the comment "Mutant" are wrong versions of the operator
that follows them and are used by no specification.

### Pipe

The variables `data`, `nread`, `nwrite`, `readopen`, `writeopen` are the fields
of `struct pipe`; `lock` its lock; `rd` and `wr` the processes with a descriptor
for each end; `i` and `n` the locals. Counters are modulo `UINT` (2^32 in the
code), a multiple of `PIPESIZE`. Each byte copied is a step. `kill` sets the flag
and wakes a sleeper, as in `proc.c`, without the pipe's lock. `gaveup` records
that a writer returned from a full pipe without waking readers.

### Proc

`state`, `pid`, `parent`, `chan`, `killed` and `exitstatus` are columns of
`ptable`. `ptlock` is the CPU that holds `ptable.lock`. `ctx` says whether a
process's kernel stack is in use, and `cproc`, `spc`, `nxt` where each CPU's
`scheduler()` is, including its position in the table. `irq` is the code of the
timer trap on top of `pc`, since the timer interrupts system calls too. `saved`
is `sched()`'s local `intena`. The exit value is the pid, so that values of
different processes differ. The inode lock stands for all clients of
`sleep()` with a lock other than `ptable.lock`.

### Log

`home`, `slot`, `head` are on disk, and survive `Crash`; `buf`, `dirty`, `busy` are the
cache; `lh`, `outstanding`, `committing` are `struct log`. Each disk write is a
step, and a crash in the middle of one leaves the block `Torn`. The header's
fields lie in one sector, so its write is atomic. `log_write()` is two steps:
its checks hold no lock. `mode` ends in `"panic"` or `"overrun"` when a check
fails or the log would be written past its end. `bget` may recycle any clean
buffer at any time. `OpBlocks` is how many blocks a call really changes.

`Promise` maps `Log` to `AtomicDisk`: the committed disk is what a recovery would
make of the disk now, the current one is the cache.

### Bio

Sets of buffers stand for the flags `B_BUSY`, `B_VALID`, `B_DIRTY`; `lru` is the
list from most to least recently used, in any order at first (`Orders`), with each of the
`NBUF` buffers once; `idequeue` is the driver's queue, whose
head is the active request. A process holds up to two buffers (`bp` and `kept`),
taken in the order of block numbers: this stands for log block before home
block and indirect block before bitmap block. `pins` is the log's record of its
blocks. Panics stop the machine and are recorded. `Outcome` says whether disk
reads may fail; after a failed read the code hands out what was in the buffer.

`Store` maps `Bio` to `BlockStore`: a block's value is in its valid buffer if
there is one, else on disk; a process sees the buffers it holds.

### Names

`dinode` and `ent` are the disk; `ref`, `busy` and `core` the inode cache (reference
counts, who has `I_BUSY`, the copy, `Invalid` when `I_VALID` is off); `cwd` and `ofile`
what processes point to; `t` the call a process is in, with its locals. `t.todo` are
inodes that the call still has to `iput()` before it goes on. What a process does to an
inode it has locked is one step with the `ilock()` before it. Locking a second
inode, `ialloc()`, the `iget()` after it, and the two halves of an `iput()` that frees
(`iputFrees`, `iputFreed`, between which `icache.lock` is dropped) are steps of their own. A
path is a sequence of names. Waiting for `I_BUSY` is a guard; how it sleeps is in `Proc`.

### FileData

`used` is the bitmap, `data` the blocks (an indirect block holds block numbers),
`addrs` and `size` the inodes, `inode` and `off` the open files. A turn of
`filewrite()`'s loop is one step, because the inode is locked during it. `balloc()`
and `bmap()` are operators that take and return the blocks, since they follow each
other within a step. `full` is `balloc()`'s panic. `Promise` maps an inode to the
bytes below its size, found through `Addr`.

### FileTable

`ref` and `obj` are `ftable`; `ofile` the descriptors; `ends` which ends of each pipe
are open; `iref` the inode references that files own. `fileclose()` is two
steps: the entry is freed under `ftable.lock`, the object is closed after it. `fork()`
takes a step per `filedup()`, with its panic, and `child` is the process it is making, which
runs only when all are done.

### Console

`buf`, `r`, `w`, `e` are one minor device's ring, with indices modulo `UINT`; `canon` is
`ICANON`; `lock` the reader with `cons.lock`. A character typed is one step; a reader
takes a step per character. Characters that nobody will read again are forgotten
(`Kept`), which only saves states. `MCServices` maps `r..w` to finished input and `w..e` to
the line of `LineDiscipline` (`L`, `L1`).

### Ticks

`since`, `lag` and `doomed` are history variables that count ticks: since the call,
since the wakeup, since the kill. `timer` waits for a process that has been awake for
`MaxLag` ticks: this is the scheduling delay up to which the result holds.

### Vm

Pages are counted, not named: `free` is the length of the free list, an address
space is a directory, kernel tables, user tables and mapped pages. Each `kalloc()` is a
step that may fail; then the code's own clean-up follows, with what it forgets (`lost`).
`Skipped` are the pages that `deallocuvm()` leaves mapped: where a page table is missing it
goes on by the size of a table, and not to the start of the next one.

### Boot

`word` is the memory word through which a processor gets its stack; `kmem` the
processors inside the allocator, `locked` the one that holds `kmem.lock`. Every `kalloc()`
and `kfree()` of the boot is a step in and a step out (those of `freerange()` and of
`userinit()` taken together), and each of the two tests `use_lock`.

## What TLC checks

| Run | Instance | Shows |
|---|---|---|
| `services` | pipe: 2 processes, ring of 2, counters modulo 4, calls of up to 3 bytes | it implements `ByteStream`; no lost wakeup; the page is freed only when unused |
| | names: 2 processes, 4 inodes, cache of 3, names `a`, `b`, `.`, `..`; 2 calls in common, one more for `p`, six more for `q` | references are counted on every path; cached copies agree with the disk; no panic but for a full table; what can be reached stays allocated; no cycle of locks |
| | file table: 2 processes, 3 files, 2 descriptors, 1 page | counts equal the pointers; pipes and inodes are released exactly once |
| | clock: 2 processes, `ticks` modulo 5, times 2 and -2 | sleeps last as long as asked; a killed process leaves |
| | console: 2 readers, ring of 2, indices modulo 4; and 1 reader, ring of 3, indices modulo 6, where two characters of an unfinished line can be edited | it implements `LineDiscipline`; a full ring has a finished line; no lost wakeup |
| | memory: 2 processes, 14 pages, images of up to 6 | no page is freed twice or while in use; images stay whole through failures |
| `storage` | log: 2 processes, 3 blocks, 2 values, 2 log blocks, calls of up to 2 blocks | it implements `AtomicDisk` through crashes and torn writes; no lost wakeup; logged blocks are pinned |
| | cache: 2 processes, 2 buffers, 3 blocks, 1 pinned block | it implements `BlockStore`; no lost wakeup, request or buffer; no deadlock |
| | contents: 2 processes, 2 inodes, 2 files, 3 blocks of 2 bytes, 1 direct and 1 indirect | it implements `ByteFile`; each block has one owner; no holes |
| `live` | log: 3 processes, 3 log blocks, calls that use less than they reserve; pipe: ring of 1; boot: 3 processors | sleepers in `begin_op()` are woken; closing an end releases the other side; all processors start; no panic or overrun of the log; stacks are distinct; the free list has one user |
| `proc_safety` | 3 slots, 2 CPUs, pids below 4, 1 kill | nine invariants: stacks, `sched()`'s assertions, the interrupt flag, wakeups of `wait()` and `ilock()`, parents, exit values, exclusion |
| `proc_live` | 3 slots, 1 CPU | killed processes exit; init's zombie children are reaped |
| `pipe_kill` (violation) | 2 processes, ring of 1 | a killed process may stay asleep in a pipe |
| `proc_kill` (violation) | 2 slots, 1 CPU | `kill(0)` kills a process of the future |
| `log_mkfs` (violation) | 2 processes that use their whole reservation | the log that `mkfs` makes is one block short |
| `log_fchdir` (violation) | with `sys_fchdir` | the count of calls goes wrong |
| `log_raw` (violation) | with raw disk writes | a logged block loses its pin |
| `names_mkfs` (violation) | `/a` and `/a/b` made by `mkfs`; `rmdir` and lookups | a directory in use is freed |
| `seek` (violation) | as contents above | `lseek()` past the end overwrites bytes |

The bounds are chosen so that the cases that matter occur: counters, `ticks` and
indices wrap; calls are longer than the ring; a parent, a child and init exit and wait
on two CPUs; log slots fill up, and calls overlap a commit; more blocks are wanted
than there are buffers; inodes, cache entries, files, descriptors, pages and disk
blocks run out in the middle of calls; a page table is missing below one that is there; a
directory is removed while another process is in it or creates in it. With two processes
nobody else runs during the loop of `fork()` in `FileTable`; `FilesSafe` has no such limit. `MaxN`, `MaxPid`, `MaxKill`, `MaxPins`, `OpBlocks`, `MaxLag` and `Sizes`
are the bounds on counters, and a process has at most one file open in `Names`.

Symmetry is used where nothing tells elements apart and no liveness is checked: the
CPUs in `proc_safety`, the bytes and processes of the pipe in `services`, the
blocks and processes of the log in `storage`. Deadlock is checked in the runs `services`,
`storage` and `live`: nobody is stuck. A pipe's life ends when both ends are closed, and
the machine stops after a panic; these ends are steps that change nothing. It is
not checked in `Proc`, where init may exit.

### Fairness

* `Pipe`: a process in a call is run (the scheduler goes round the table), and one
  that keeps asking for the lock gets it, because no spinlock is held across a
  switch. A killed process closes its files. Nothing is assumed of programs.
* `Proc`: a CPU goes on with the code it is in; the timer takes the CPU from
  whoever computes, but not before every instruction, so system calls get on; a
  killed process reaches `exit()`; init calls `wait()` in its loop. `proc_live`
  takes one CPU, whose scheduler is fair by its order of search. A
  process that waits in `ilock()` may starve, so the properties except it.
* `Log`: a process in a call is run, and each call comes to its `end_op()`;
  recovery runs. Nobody is obliged to start a call. Crashes stay possible.
* `Boot`: each processor goes on with its code; a processor that spins in a loop is
  not obliged to leave it.
* `Names`, `FileData`, `FileTable`, `Console`, `Ticks`, `Vm`: safety only.
* `Bio`: safety only; `QueueSound` is the invariant from which progress follows
  when the disk answers.

## What is proved

`PipeProofs` proves, for every set of processes, every `PIPESIZE` > 0 and every
`UINT` that is a multiple (at least twofold) of it, every `MaxN` and every set of bytes:

* `TypeCorrect`: `Spec => []TypeOK`;
* `PipeSleepersSafe` and `PipeFreedUnused`: `Spec => []SleepersHaveReason`, `Spec => []FreedIsUnused`;
* `PipeRefinesStream`: `Spec => ImplementsStream`.

The assumptions are `SizeAssumption` and `ProcAssumption` of `Pipe`; the first holds
of the code (512 divides 2^32).

`SleepersHaveReason` is not inductive: it speaks of moments when nobody holds the
lock, and says nothing of a process between its test and `sleep()`. The
inductive invariant `IInv` adds who holds the lock (`LockInv`), which ends are open
and who may still close them (`EndsInv`), that the ring never overflows and a
reader that starts to copy has bytes or end of file (`RingInv`), and what a
process about to sleep has seen (`WakeInv`): only a reader that is copying may
have made room without having woken the writers yet, and only a writer in its
loop may have added bytes without having woken the readers. `InitInv` and one
lemma per action show that `IInv` is kept; `NextInv` combines them.

For the refinement, `Unread` is the sequence of bytes between the counters.
`Lemmas` has the arithmetic: a step of a counter changes the count by one,
and places in the ring stay apart while the count is at most `PIPESIZE`, wrap
or no wrap. Each action then maps to a step of `ByteStream` or to a stutter.

`MachineProofs` has three parts:

* The clock, from `TicksAssumption` (times below the wrap less the scheduling delay), for any
  set of processes: `KilledSleeperLeaves` (`Spec => []KilledLeaves`) and `SleepIsExact`
  (`Spec => SleepsItsTime`). The invariant ties the wrapped difference `ticks - ticks0` to the
  ticks that really passed, which the code cannot see: they agree or differ by `UINT`, and
  a process at its test is at most `lag` late.
* The start, for any number of processors: `BootSafe` (`Spec => [](StacksDistinct /\
  KmemExclusive)`). Neither is inductive: it needs how far `startothers()` has got (processors
  from `c` on are off, only `c` may be on its way, so the word is not overwritten before it is
  read), and that nobody but the boot processor is in the allocator before a process is
  runnable, and the boot processor is not in it when `use_lock` is set.
* The console, from `ConsoleAssumption`, for any readers, ring size and index width:
  `ConsoleSafe` (`Spec => [](SleepersHaveReason /\ FullIsReady)`). The invariant orders the
  indices by their distance from `r` (`w` no further than `e`, `e` no further than the ring is
  long), and says that a reader between its test and `sleep()` has `cons.lock`.

`FileTableProofs`, from `FileTableAssumption` (init exists, the tables are finite), for any
processes, files, descriptors and pipe pages: `FilesSafe`
(`Spec => [](RefsMatch /\ ObjectsMatch)`, which the run has as `FilesMatch`). A count is the size of a
set of places that hold the file: pairs of a process and a descriptor, or a position in the
call's list. A step changes the row of one process, so `Recount` of `Lemmas` gives the
new count from what that row had and has; no sum over the processes is needed. The invariant adds what
a call has at each of its places (`Jobs`), that a file just made is in no other hands (`Fresh`:
giving it an object or a descriptor harms nobody), and that a free file has no object (`Spare`:
the next owner of the entry does not inherit one).

`LogProofs`, from `LogAssumption` alone, for any blocks, values, processes, log size and
reservation:

* `LogSleepersSafe`, `LogPins`, `LogOutstanding`: `Spec => []SleepersHaveReason`, and the same
  of `LoggedArePinned` and `OutstandingCounts`;
* `LogRefinesAtomicDisk`: `Spec => ImplementsAtomicDisk`;
* `LogNeverFull`: `Spec /\ []Frugal => []LogCounts`, for the log that `mkfs` makes (`MkfsLog`) and
  for any `OpBlocks`. `Frugal` says of the state that no call in progress has modified
  `MAXOPBLOCKS` blocks; it is a condition on the behaviour, not on the constants. So the log is
  exceeded only after a call has used its whole reservation. The bound is the code's own: with
  ten blocks per call, the code's `MAXOPBLOCKS`, three calls fill the log, and the run `log_mkfs`
  has the counterexample; with a log one block longer `log_write()` still panics, on the next
  block that the log already has. The code does not keep all calls within it: `filewrite()`'s
  unaligned chunk (`file.c:140`) can modify eleven blocks or more, which `begin_op()` admits as
  ten.

The inductive invariant says who counts as active and who commits (`CountInv`: one process
at most commits, and then nobody is active; a sleeper has a commit or a full log to wait
for), that a busy buffer is the one its holder is about to log (`BusyInv`), and what is where
at each point of a commit (`LogInv`): the header on disk is empty except during an
installation or a replay; until then logged blocks are pinned and every other buffer is
as on disk; during it the log's blocks are what the buffers hold, and those below `tail` are
home already. For the refinement, `Recovered`, the disk that a recovery would make, is
shown to change at the header's write only. Each write to a home block leaves it as
it is, because the log has that block; so does a torn one, because the replay writes the
block again. For the size, `Left` is the set of blocks that the calls in progress may still
add, as pairs of a call and a number, if they stay frugal; the log and `Left` together fit. `begin_op()`
adds to it what `Room` has tested, `log_write()` takes from it what it appends, and a call
that ends gives up the rest.

`ProcProofs`, from `ProcAssumption` (at least one slot), for any number of slots and any
set of CPUs: each of the nine invariants of the run `proc_safety`, under a name that starts
with `Proc`. None but the types is inductive. The invariant `IInv` has four parts beside the types:

* `CpuInv` is the discipline of the locks. The code a process is in determines the nesting of
  `pushcli()`, the locks its CPU holds and, except between `swtch()` and the restoration
  of `intena`, what `intena` remembers. A scheduler that scans holds `ptable.lock`.
* `SlotInv` relates a slot to the code of its process. One on a CPU has the state that
  its code has set (`StateAt`: something else than `RUNNING` only right before `sched()`, where
  `CpuInv` says that the lock is held); one off a CPU is where `swtch()` left it, with the
  interrupt state it will restore.
* `InodeInv` extends "sleepers have a reason" to a process between its test of `I_BUSY` and its
  sleep: `sleep()` takes `ptable.lock` before it gives up `icache.lock`.
* `FamilyInv` says who a process in `fork()` is making, that no two make the same, that init
  never exits and has no parent, and that an exiting process has its own exit value.

There is a lemma per action (32 of them). Most rest on one of a few lemmas on how a step may move:
`PushMove`, `PopMove`, `StayMove` for the CPU, `SlotMove`, `InodeMove`, `FamilyMove` for the table.
The central case is `NoneSwitching`: who has taken `ptable.lock` finds no process between a
change of its state and its switch, so that it may wake, run or reap what it sees.
TLC checked `IInv` on the instance of `proc_safety` before it was proved.

`BioProofs`, from `BioAssumption` alone, for any buffers, blocks, values and processes:

* `BioSleepersSafe`, `BioQueueSound`, `BioPanicsOnlyWhenFull`, `BioTypeCorrect`:
  `Spec => []SleepersHaveReason`, and the same of `QueueSound`, `PanicsOnlyWhenFull` and `TypeOK`;
* `BioRefinesBlockStore`: `Spec => ImplementsBlockStore`, if `Outcome = {"ok"}`. After a failed
  read the code hands out what was in the buffer, which is no value of the block.

The inductive invariant has, beside the types, what a process's place in the code says of the
buffers it holds (`LocalInv`), that the busy buffers are those with a holder, one each
(`OwnInv`), that a block is in one buffer at most and a dirty buffer is logged or on its way to
the disk (`CacheInv`), and what the flags are at each point of `iderw()` (`IoInv`).
For the refinement, `DataInv` adds that a clean valid buffer agrees with the disk, unless its
holder has changed it and not yet written or logged it. `Mem` and
`View`, the images of the state, are then shown to change in one place at a time: who
takes a buffer sees the block's current value, who gives it up leaves it, and a buffer that
`bget()` recycles is clean, so that what it held is on disk.

Only model-checked:

* all liveness: fairness and ENABLED are outside the proof system's reach;
* everything about `Names`: its invariants hold together only (a count is right because a copy
  agrees with the disk because an inode being freed is locked by nobody), and
  an inductive proof over all its actions is not part of this project. `LinksCovered` follows
  paths of any length, which is recursive;
* `FileData`: what `writei()` does to the bytes is a recursive definition;
* `Vm`: pages are counted with sums over the processes, and what such a sum does when one
  term changes is an induction over a finite set, which the provers cannot instantiate;
* the console's refinement.

## Where the code and its documentation disagree

* `pipe.c:105` (and 84): `kill()` between the test of `killed` and `sleep()` leaves
  the process asleep, though `proc.c:426` says "Wake process from sleep if
  necessary." (`pipe_kill`). `consoleread()` and `sys_sleep()` have the same shape; for
  `sys_sleep()` the next tick repairs it (`KilledLeaves`).
* `proc.c:424`: `kill()` marks slots without a process; the next owner of the slot
  inherits `killed`, "If non-zero, have been killed" (`proc_kill`).
* `mkfs.c:31`: the log has `LOGSIZE - 1` data blocks, `begin_op()` reckons with
  `LOGSIZE`, "max data blocks in on-disk log" (`log_mkfs`).
* `sysfile.c:420`: `fchdir` calls `end_op()` without `begin_op()` (`log_fchdir`).
* `ide.c:223`: a raw write unpins a logged block (`log_raw`).
* `mkfs.c:224`: `mkfs` does not count `..` in the links of the parent, the kernel does
  (`dp->nlink++;  // for ".."`, `sysfile.c:269`); removing a directory that `mkfs` made
  frees its parent (`names_mkfs`).
* `sysfile.c:509`: `lseek()` past the end writes its zeroes at the current offset, not
  at the end, though `NOTES:67-68` calls it fixed (`seek`).

Also seen, without a run: `allocuvm()` does not look at the result of `mappages()`
(`vm.c:240`), though its comment says "Returns new size or 0 on error."; `ImageWhole` is
stated up to the first such failure. `setupkvm()` and `copyuvm()` lose pages when they
fail (`vm.c:142`, `vm.c:330`); `PagesConserved` counts them in `lost`.

## Not modelled

* Port and device I/O: interrupt controllers, the disk controller's protocol, the UART,
  scan codes, screen output, boot loader. Sequential, and about hardware.
* The size of `filewrite()`'s chunks against the log's reservation (`file.c:140`): `Log`
  takes the blocks a call modifies as a constant. `LogNeverFull` says what a chunk
  must keep to.
* Reclaiming an inode that was created in, or linked into, a directory already
  removed: the code never does, and no property asks for it.
* `skipelem()`, argument fetching, `stat`, `utime`, ELF headers and the layout of `argv`:
  sequential functions of their arguments, which the models abstract.
* Composition of `Log` over `BlockStore`, or of `Names` over `Log`: each layer is checked against
  its promise, and the layer above does not instantiate it.
* The user programs and libraries under `src/cmd` and `src/lib`. They are imported
  (a V7 shell, BSD commands, curses, regex, libc), single-threaded, and are the bulk of
  the repository: the kernel is under 4% of its lines. For this reason the modules
  cover a small share of the repository although they cover most of the kernel's
  operations that change shared state.
