SPECIFICATION Spec
CONSTANTS
    MaxLinks = 3
    Kinds <- MCBridge
    Depth = 1
    Workers = 1
    MaxConns = 2
    MaxCalls = 2
    MaxStops = 0
INVARIANT StaleFramesSkipped
CHECK_DEADLOCK FALSE
