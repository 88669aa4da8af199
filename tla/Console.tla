------------------------------ MODULE Console ------------------------------
(***************************************************************************)
(* Console input (kern/console.c): the keyboard's interrupt handler edits  *)
(* and finishes lines in a ring, readers take them, ioctl() switches       *)
(* between canonical and raw mode at any moment, without cons.lock.  The   *)
(* handler runs under cons.lock, one step for a character; a reader keeps  *)
(* the lock from character to character and gives it up to sleep.          *)
(***************************************************************************)
EXTENDS Integers, Sequences

CONSTANTS
    Reader, NoReader,
    Plain,                  \* characters without a meaning
    NL, CR, EOF, ERASE, KILL,       \* '\n', '\r', ^D, ^H, ^U
    INPUT_BUF,
    UINT,                   \* 2^32, a multiple of INPUT_BUF
    MaxN                    \* bound: the n of read()

ConsoleAssumption ==
    /\ NoReader \notin Reader
    /\ INPUT_BUF \in Nat \ {0} /\ UINT \in Nat /\ INPUT_BUF < UINT

Char == Plain \cup {NL, CR, EOF, ERASE, KILL}

VARIABLES
    buf, r, w, e,           \* input[minor]
    canon,                  \* termios[minor].c_lflag & ICANON
    lock,                   \* the reader that holds cons.lock
    pc, target, dst,        \* by reader: consoleread()'s locals
    killed

ring == <<buf, r, w, e>>
vars == <<ring, canon, lock, pc, target, dst, killed>>

Init ==
    /\ buf = [k \in 0 .. INPUT_BUF - 1 |-> NL] /\ r = 0 /\ w = 0 /\ e = 0
    /\ canon = TRUE /\ lock = NoReader
    /\ pc = [p \in Reader |-> "idle"] /\ target = [p \in Reader |-> 0]
    /\ dst = [p \in Reader |-> <<>>] /\ killed = {}

Add(i, k) == (i + k) % UINT
Sub(i, j) == (i - j) % UINT
At(i) == buf[i % INPUT_BUF]

\* buf, without the characters that nobody will read again.
Kept(from, to) ==
    LET live == {Add(from, k) % INPUT_BUF : k \in 0 .. Sub(to, from) - 1}
    IN  [k \in 0 .. INPUT_BUF - 1 |-> IF k \in live THEN buf[k] ELSE NL]

----------------------------------------------------------------------------
(* consoleintr(), for one character.                                       *)
Wakeup == pc' = [p \in Reader |-> IF pc[p] = "asleep" THEN "test" ELSE pc[p]]

HasRoom == Sub(e, r) < INPUT_BUF

\* Mutant: a line that fills the buffer is not finished.
LineEnds(c) == c \in {NL, EOF}

Finishes(c) == c \in {NL, EOF} \/ Add(e, 1) = Add(r, INPUT_BUF)

Put(c, finish) ==
    /\ HasRoom
    /\ buf' = [buf EXCEPT ![e % INPUT_BUF] = c] /\ e' = Add(e, 1)
    /\ IF finish THEN w' = Add(e, 1) /\ Wakeup ELSE UNCHANGED <<w, pc>>
    /\ UNCHANGED r

Erase == e # w /\ e' = Sub(e, 1) /\ buf' = Kept(r, e') /\ UNCHANGED <<r, w, pc>>

KillLine ==
    /\ e # w
    /\ \E k \in 0 .. Sub(e, w) :
        /\ k = 0 \/ At(Add(w, k - 1)) = NL
        /\ \A j \in k + 1 .. Sub(e, w) : At(Add(w, j - 1)) # NL
        /\ e' = Add(w, k)
    /\ buf' = Kept(r, e') /\ UNCHANGED <<r, w, pc>>

Cooked(c) == IF c = CR THEN NL ELSE c

consoleintr ==
    /\ lock = NoReader
    /\ \/ canon /\ Erase
       \/ canon /\ KillLine
       \/ canon /\ \E c \in Char \ {ERASE, KILL} : Put(Cooked(c), Finishes(Cooked(c)))
       \/ ~canon /\ \E c \in Char : Put(c, TRUE)
    /\ UNCHANGED <<canon, lock, target, dst, killed>>

(* TCSETA.                                                                 *)
consoleioctl ==
    /\ canon' = ~canon
    /\ UNCHANGED <<ring, lock, pc, target, dst, killed>>

----------------------------------------------------------------------------
Goto(p, l) == pc' = [pc EXCEPT ![p] = l]

\* Return what is in dst, with cons.lock released.
Return(p) ==
    /\ Goto(p, "idle") /\ lock' = NoReader
    /\ dst' = [dst EXCEPT ![p] = <<>>] /\ target' = [target EXCEPT ![p] = 0]

\* A killed process does not come back for more.
consoleread(p) ==
    /\ pc[p] = "idle" /\ p \notin killed
    /\ \E n \in 1 .. MaxN : target' = [target EXCEPT ![p] = n]
    /\ Goto(p, "test")
    /\ UNCHANGED <<ring, canon, lock, dst, killed>>

\* The head of the inner loop, with the lock free or kept.
Tests(p) == pc[p] = "test" /\ lock \in {NoReader, p}

readEmpty(p) ==
    /\ Tests(p) /\ r = w
    /\ \/ p \in killed /\ Return(p)
       \/ p \notin killed /\ Goto(p, "sleep") /\ lock' = p /\ UNCHANGED <<dst, target>>
    /\ UNCHANGED <<ring, canon, killed>>

readSleep(p) ==
    /\ pc[p] = "sleep"
    /\ Goto(p, "asleep") /\ lock' = NoReader
    /\ UNCHANGED <<ring, canon, target, dst, killed>>

\* Mutant: ^D is consumed by the read() that it ends.
TakeEof(p) == r' = Add(r, 1)

\* r++, and r-- again when ^D ends a read() that has something.
SaveEof(p) == r' = IF dst[p] = <<>> THEN Add(r, 1) ELSE r

readTake(p) ==
    /\ Tests(p) /\ r # w
    /\ IF At(r) = EOF /\ canon
       THEN SaveEof(p) /\ Return(p)
       ELSE /\ r' = Add(r, 1) /\ dst' = [dst EXCEPT ![p] = Append(@, At(r))]
            /\ Goto(p, "more") /\ lock' = p /\ UNCHANGED target
    /\ buf' = Kept(r', e) /\ UNCHANGED <<w, e, canon, killed>>

readMore(p) ==
    /\ pc[p] = "more"
    /\ IF dst[p][Len(dst[p])] = NL \/ ~canon \/ Len(dst[p]) = target[p]
       THEN Return(p)
       ELSE Goto(p, "test") /\ UNCHANGED <<lock, dst, target>>
    /\ UNCHANGED <<ring, canon, killed>>

(* kill() of one of the readers: wakes it if it sleeps.                    *)
kill(p) ==
    /\ killed = {} /\ killed' = {p}
    /\ pc' = IF pc[p] = "asleep" THEN [pc EXCEPT ![p] = "test"] ELSE pc
    /\ UNCHANGED <<ring, canon, lock, target, dst>>

----------------------------------------------------------------------------
Next ==
    \/ consoleintr \/ consoleioctl
    \/ \E p \in Reader :
        \/ consoleread(p) \/ readEmpty(p) \/ readSleep(p)
        \/ readTake(p) \/ readMore(p) \/ kill(p)

Spec == Init /\ [][Next]_vars

----------------------------------------------------------------------------
From(i, j) == [k \in 1 .. Sub(j, i) |-> At(Add(i, k - 1))]

(* A full ring always has something to read, so that typing can go on: a   *)
(* line that fills the ring is finished, whatever the mode was before.     *)
FullIsReady == Sub(e, r) = INPUT_BUF => w = e

(* No lost wakeup: a reader sleeps only while there is nothing to read,    *)
(* even when another reader has put ^D back.                               *)
SleepersHaveReason == \A p \in Reader : pc[p] = "asleep" => r = w
=============================================================================
