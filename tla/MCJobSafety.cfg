SPECIFICATION SpecAfterCrash
CONSTANTS
    i1 = i1
    i2 = i2
    w1 = w1
    Ids = {i1, i2}
    Workers = {w1}
    QueueDepth = 0
    MaxAttempts = 2
    RecoverBatch = 1
    Nobody = Nobody
    SlowUploads = TRUE
    MaxCrashes = 0
    MaxFaults = 1
    MaxMishaps = 1
    MaxSyncs = 1
SYMMETRY MCSymmetry
CONSTRAINT MCBound
INVARIANTS
    TypeOK
    SlotsAccounted
    ResultBehindRow
    InputKept
    AttemptsBounded
PROPERTIES
    ContractKept
