SPECIFICATION Spec
CONSTANTS
    i1 = i1
    i2 = i2
    w1 = w1
    Ids = {i1}
    Workers = {w1}
    QueueDepth = 0
    MaxAttempts = 2
    RecoverBatch = 1
    Nobody = Nobody
    SlowUploads = TRUE
    MaxCrashes = 0
    MaxFaults = 0
    MaxMishaps = 0
    MaxSyncs = 0
INVARIANTS
    SlotsAccounted
