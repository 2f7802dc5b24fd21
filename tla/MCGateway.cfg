SPECIFICATION Spec
CONSTANTS
    Images = {1, 2, 3}
    MaxFaults = 2
    MaxSharedFaults = 1
    NumIds = 2
    SweepBatch = 1
    MaxWrites = 2
    MaxStoreFaults = 2
    Surfaces = {"di"}
    Requests = {"r1"}
    Calls = {"di", "r1"}
    Recovered <- MCRecovered
    Submits = {"x1"}
    Slots = 2
INVARIANTS BackupWhole WayBack SchemaTrue ArtifactsWhole OutcomeTrue ShutdownKeepsWork
PROPERTIES StartedAgain LeftoversSwept SignalEnds
CHECK_DEADLOCK FALSE
