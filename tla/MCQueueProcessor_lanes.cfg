SPECIFICATION Spec
CONSTANTS
    Writes = {w1}
    Saves = {}
    Distills = {d1}
    Register = {w1}
    Acked = {d1}
    Bad = {}
    Barren = {d1}
    CkptInterval = 2
    MaxAttempts = 2
    MaxRestarts = 2
    MaxDown = 1
    HookSplit = FALSE
    IoCanFail = TRUE
INVARIANTS AckedIsDurable CrashesAreCounted PoisonedForCause
CHECK_DEADLOCK FALSE
