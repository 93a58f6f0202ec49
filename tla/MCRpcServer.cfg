SPECIFICATION FairSpec
CONSTANTS
    MaxLinks = 3
    Kinds <- MCKinds
    Depth = 1
    Workers = 1
    MaxConns = 2
    MaxCalls = 2
    MaxStops = 1
INVARIANTS OwnAnswerUnlessAbandoned MarkMatchesTask
CHECK_DEADLOCK FALSE
PROPERTIES ImplementsRemoteCalls EveryCallReturns
