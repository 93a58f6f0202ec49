SPECIFICATION Spec
SYMMETRY Symmetric
CONSTANTS
    Sessions = {s1, s2}
    Streams = {t1, t2}
    BeatTtl = 2
    Ttls = {3}
    MaxTime = 3
    MaxOps = 4
    MaxFaults = 1
INVARIANTS HeartbeatingHolderKeeps ClosedSessionsHoldNothing
CHECK_DEADLOCK FALSE
