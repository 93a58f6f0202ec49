SPECIFICATION Spec
CONSTANTS
    Sessions = {s1, s2}
    Streams = {x}
    CodeStates = {c, d}
    SaveStates <- SaveStatesMC
    MaxSaves = 2
    MaxStops = 1
    MaxCrashes = 1
SYMMETRY Symmetry
INVARIANTS
    RevisionsIncrease
    ReplacesWhatWasRead
    StopKeepsMilestone
    AckedStays
PROPERTY ImplementsRevisions
CHECK_DEADLOCK FALSE
