SPECIFICATION FairSpec
CONSTANTS
    Keys = {k1, k2, k3}
    Callers = {c1, c2}
    Workers = {w1}
    Modes = {"legacy", "bounded"}
    ReadCap = 1
    WriteCap = 1
    CacheSize = 2
    MaxCalls <- FewCalls
INVARIANTS SharedJobsAreAlive CachePointersLive
PROPERTIES EveryCallReturns DestructorDrains
CHECK_DEADLOCK FALSE
