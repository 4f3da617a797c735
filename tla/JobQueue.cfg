SPECIFICATION FairSpec
CONSTANTS
    Keys = {k1}
    Requests = {r1, r2}
    Stamps = {s1, s2}
    NoJob = NoJob
    CompletedStale = 0
    QueuedStale = 1
    DedupTTL = 2
    MaxNow = 2
    MaxSubmits = 2
    MaxFaults = 1
INVARIANTS TypeOK PromisedJobIsReal
PROPERTIES ReservationRemovedByOwner PromiseIsKept
CHECK_DEADLOCK FALSE
