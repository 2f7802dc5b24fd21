SPECIFICATION FairSpec
CONSTANTS
    i1 = i1
    i2 = i2
    w1 = w1
    Ids = {i1}
    Workers = {w1}
    QueueDepth = 0
    MaxAttempts = 2
    RecoverBatch = 1
    Nobody = Nobody
    SlowUploads = FALSE
    MaxCrashes = 1
    MaxFaults = 1
    MaxMishaps = 1
    MaxSyncs = 0
INVARIANTS
    ClaimedOnce
PROPERTIES
    EveryJobEnds
    OrphansCollected
