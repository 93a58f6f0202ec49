SPECIFICATION FairSpec
CONSTANTS
    Threads = {t1, t2}
    MaxCalls = 3
INVARIANTS WritersRunAlone WaitsDescend
PROPERTY EveryRequestReturns
CHECK_DEADLOCK FALSE
