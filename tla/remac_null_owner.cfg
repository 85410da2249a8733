\* The heap fills while the second port is being probed.
CONSTANTS
    d1 = d1  d2 = d2  r1 = r1  r2 = r2  r3 = r3  m1 = m1  m2 = m2
    Devices = {d1, d2}
    Remacs = {r1, r2, r3}
    Macs = {m1, m2}
    NoMac = NoMac
    Starts <- SecondPortToProbe
    RegisterMayFail = TRUE
SPECIFICATION Spec
INVARIANT NoNullOwnerRead
CHECK_DEADLOCK FALSE
