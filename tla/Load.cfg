SPECIFICATION FairSpec
CONSTANTS
    Workers = {w1, w2}
    Volume = 2
    MaxRuns = 2
    MaxCancels = 1
    MaxLeft = 1
    UsizeMod = 16
INVARIANTS
    CountersExact
    OwnAnswer
PROPERTY
    RunCompletes
CHECK_DEADLOCK FALSE
