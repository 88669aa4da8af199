\* Two directories made by mkfs, one in the other.
CONSTANTS
    p = p
    q = q
    Proc = {p, q}
    NoProc = NoProc
    NInum = 4
    NINODE = 3
    Name = {"a", "b"}
    Calls <- RmdirCalls
    Chain <- TwoDirs
SPECIFICATION Spec
INVARIANTS
    NoPanic
