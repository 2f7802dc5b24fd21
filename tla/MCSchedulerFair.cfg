SPECIFICATION SpecWithHistory
CONSTANTS
    c1 = c1 c2 = c2 c3 = c3 c4 = c4 c5 = c5
    j1 = j1 j2 = j2 j3 = j3
    None = None
    Limit = 2
    Callers <- MCCallers
    Jobs <- MCJobs
    JobOf <- MCJobOf
SYMMETRY MCSymmetry
INVARIANTS TypeOK SlotsConserved NoIdleSlot QueuedOrGranted
PROPERTY PromiseKept
