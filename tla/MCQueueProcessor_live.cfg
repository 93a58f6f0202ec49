SPECIFICATION FairSpec
CONSTANTS
    Writes = {w1}
    Saves = {}
    Distills = {d1}
    Register = {w1}
    Acked = {d1}
    Bad = {d1}
    Barren = {d1}
    CkptInterval = 2
    MaxAttempts = 1
    MaxRestarts = 1
    MaxDown = 1
    HookSplit = FALSE
    IoCanFail = FALSE
PROPERTY EveryItemSettles
CHECK_DEADLOCK FALSE
