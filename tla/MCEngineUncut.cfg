SPECIFICATION Spec
CONSTANTS
    N = 3
    SplitPages = 2
    PartAttempts = 1
    WholeAttempts = 1
    RetryOnceLimit = 1
    Slots = 2
    Permits = 1
    MaxOthers = 0
    MaxOtherDocs = 0
    Ends = {"stop", "deadline"}
INVARIANT FailsOnlyAsWhole
