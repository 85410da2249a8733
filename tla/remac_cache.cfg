\* Two ports: one probed on a 3-block heap, or both on a 5-block heap;
\* discards, -ENOMEM, failed probes and register_netdev failures all happen.
CONSTANTS
    d1 = d1  d2 = d2  r1 = r1  r2 = r2  r3 = r3  m1 = m1  m2 = m2
    Devices = {d1, d2}
    Remacs = {r1, r2, r3}
    Macs = {m1, m2}
    NoMac = NoMac
    Starts <- StartStates
    RegisterMayFail = TRUE
SPECIFICATION Spec
INVARIANT TypeOK
INVARIANT CountMatchesList
INVARIANT RemacsUnique
PROPERTY DiscardsLeastRecentlyUsed
PROPERTY RemacMapRefined
\* Removing every device, or a trap in the discarder, ends the driver.
CHECK_DEADLOCK FALSE
