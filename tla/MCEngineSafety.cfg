SPECIFICATION Spec
CONSTANTS
    N = 2
    SplitPages = 1
    PartAttempts = 2
    WholeAttempts = 3
    RetryOnceLimit = 2
    Slots = 2
    Permits = 1
    MaxOthers = 1
    MaxOtherDocs = 1
    Ends = {"stop", "deadline"}
INVARIANTS
    TypeOK
    SlotsHeldByCalls
    CancelledFromOutside
    FilesOwned
    NothingLeft
PROPERTY Promise
