----------------------------- MODULE BlockStore -----------------------------
(***************************************************************************)
(* What the buffer cache (kern/bio.c over kern/ide.c) promises: the disk's *)
(* blocks as variables, each with a lock.  A process that holds a block    *)
(* sees and changes its one current value, wherever that value is kept.    *)
(***************************************************************************)
CONSTANTS Block, Value, Proc

VARIABLES
    mem,        \* the current value of each block
    view        \* by process: the blocks it holds, with the values it sees

storeVars == <<mem, view>>

StoreInit == mem \in [Block -> Value] /\ view = [p \in Proc |-> <<>>]

With(s, k, v) == [j \in DOMAIN s \cup {k} |-> IF j = k THEN v ELSE s[j]]
Without(s, k) == [j \in DOMAIN s \ {k} |-> s[j]]

(* From values m of the blocks and views w to m2 and w2.                   *)
Grab(p, k, m, w, m2, w2) ==
    /\ \A q \in Proc : k \notin DOMAIN w[q]
    /\ w2 = [w EXCEPT ![p] = With(@, k, m[k])] /\ m2 = m

Update(p, k, v, m, w, m2, w2) ==
    /\ k \in DOMAIN w[p]
    /\ m2 = [m EXCEPT ![k] = v] /\ w2 = [w EXCEPT ![p] = With(@, k, v)]

Drop(p, k, m, w, m2, w2) ==
    /\ k \in DOMAIN w[p]
    /\ w2 = [w EXCEPT ![p] = Without(@, k)] /\ m2 = m

StoreNext ==
    \E m \in {mem}, w \in {view}, m2 \in {mem'}, w2 \in {view'}, p \in Proc, k \in Block :
        \/ Grab(p, k, m, w, m2, w2) \/ Drop(p, k, m, w, m2, w2)
        \/ \E v \in Value : Update(p, k, v, m, w, m2, w2)

StoreSpec == StoreInit /\ [][StoreNext]_storeVars
=============================================================================
