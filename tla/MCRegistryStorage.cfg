SPECIFICATION Spec
CONSTANTS
    c1 = c1 c2 = c2 k1 = k1 k2 = k2 k3 = k3 d1 = d1 d2 = d2
    Client = {c1, c2}
    Event <- MCEvent
    Read = Read
    None = None
    MaxEvents = 2
    Garbled = Garbled
    MaxCrashes = 1
    MaxDamages = 1
    MaxFaults = 1
SYMMETRY Symmetry
INVARIANT Recoverable
PROPERTY LogKept
CHECK_DEADLOCK FALSE
