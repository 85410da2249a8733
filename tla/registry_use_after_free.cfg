\* Two adapters, each with one port whose init may fail for lack of memory.
CONSTANTS
    a1 = a1  a2 = a2  p1 = p1  p2 = p2
    Adapters = {a1, a2}
    Ports = {p1}
    AllocMayFail = TRUE
    MaxPending = 1
    NoRoot = NoRoot
SPECIFICATION Spec
INVARIANT NoUseAfterFree
\* Once every adapter is removed the registry has nothing left to do.
CHECK_DEADLOCK FALSE
