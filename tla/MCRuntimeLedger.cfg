SPECIFICATION FairSpec
CONSTANTS
    MaxTail = 4
    MaxForeign = 2
    MaxFaults = 2
    Chunk = 2
INVARIANTS ExactlyOnce AcknowledgedIsDurable TornOnlyUnderIntent
PROPERTIES ImplementsOutbox EveryRecordShipped
CHECK_DEADLOCK FALSE
