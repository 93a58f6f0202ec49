SPECIFICATION FairSpec
CONSTANTS
    MaxAgents = 3
    Dreams = {1}
    Brittle = {2}
    MaxConcurrent = 2
    MaxIterations = 1
    MaxFailures = 1
    MaxOps = 1
    MaxRestarts = 1
INVARIANTS RecordMatchesSchedule CyclesAreCounted StoppedUnlessOverwritten LimitHolds FailingIsPaused
PROPERTY EveryAgentRests
CHECK_DEADLOCK FALSE
