SPECIFICATION FairSpec
CONSTANTS
    Jobs = {j1}
    Workers = {w1, w2}
    MaxPage = 2
    Burst = 1
    ClaimCount = 1
    MaxFaults = 1
INVARIANTS JobNeverLost NotifiedIsComplete
PROPERTY EveryJobSettles
CHECK_DEADLOCK FALSE
