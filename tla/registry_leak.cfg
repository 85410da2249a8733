\* Two adapters with two ports each, every allocation succeeding.
CONSTANTS
    a1 = a1  a2 = a2  p1 = p1  p2 = p2
    Adapters = {a1, a2}
    Ports = {p1, p2}
    AllocMayFail = FALSE
    MaxPending = 1
    NoRoot = NoRoot
SPECIFICATION Spec
INVARIANT NoLeak
\* Once every adapter is removed the registry has nothing left to do.
CHECK_DEADLOCK FALSE
