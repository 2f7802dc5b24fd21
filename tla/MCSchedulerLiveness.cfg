SPECIFICATION FairSpec
CONSTANTS
    c1 = c1 c2 = c2 c3 = c3 c4 = c4 c5 = c5
    j1 = j1 j2 = j2 j3 = j3
    None = None
    Limit = 0
    Callers <- MCFewCallers
    Jobs <- MCFewJobs
    JobOf <- MCFewJobOf
PROPERTY EveryWaitEnds
