SPECIFICATION FairSpec
CONSTANTS
    Daemons = {d1, d2, d3}
    MaxCrashes = 2
INVARIANTS LanesOwnTheStore ReachableUnlessGap ServingIsRecorded
PROPERTIES KilledOnlyUnreachable ProcessesSettle
CHECK_DEADLOCK FALSE
