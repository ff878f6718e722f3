SPECIFICATION FairSpec
CONSTANTS
    Documents = {d1, d2}
    BatchSize = 2
    MaxChunks = 5
    MaxFaults = 2
    MaxCrashes = 1
CHECK_DEADLOCK FALSE
INVARIANTS
    WholeOrNothing
PROPERTIES
    FollowsLifecycle
    EveryTaskSettles
