\* Two adapters with two ports each, probed and removed in any order, with
\* the menu name and firmware block allocations failing or not.
CONSTANTS
    a1 = a1  a2 = a2  p1 = p1  p2 = p2
    Adapters = {a1, a2}
    Ports = {p1, p2}
    AllocMayFail = TRUE
    MaxPending = 1
    NoRoot = NoRoot
SPECIFICATION Spec
INVARIANT TypeOK
\* Once every adapter is removed the registry has nothing left to do.
CHECK_DEADLOCK FALSE
