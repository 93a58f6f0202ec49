SPECIFICATION Spec
CONSTANTS
    Writes = {w1}
    Saves = {s1, s2}
    Distills = {}
    Register = {}
    Acked = {w1, s1}
    Bad = {w1}
    Barren = {}
    CkptInterval = 2
    MaxAttempts = 1
    MaxRestarts = 2
    MaxDown = 0
    HookSplit = TRUE
    IoCanFail = TRUE
INVARIANT NoLossUnlessBreached
PROPERTY ImplementsAckedQueue
CHECK_DEADLOCK FALSE
