SPECIFICATION Spec
CONSTANTS
    Jobs = {j1, j2, j3}
    Workers = {w1}
    MaxPage = 2
    Burst = 1
    ClaimCount = 2
    MaxFaults = 1
SYMMETRY Symmetry
INVARIANTS TypeOK NewestNeverDeferred BurstYieldsToLow
CHECK_DEADLOCK FALSE
