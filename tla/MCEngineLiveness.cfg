SPECIFICATION FairSpec
CONSTANTS
    N = 3
    SplitPages = 2
    PartAttempts = 1
    WholeAttempts = 1
    RetryOnceLimit = 1
    Slots = 1
    Permits = 1
    MaxOthers = 0
    MaxOtherDocs = 1
    Ends = {}
INVARIANT PagesOwned
PROPERTY RunReturns
