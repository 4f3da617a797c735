SPECIFICATION Spec
CONSTANTS
    Keys = {k1}
    Requests = {r1, r2}
    Stamps = {s1}
    NoJob = NoJob
    CompletedStale = 0
    QueuedStale = 1
    DedupTTL = 2
    MaxNow = 2
    MaxSubmits = 3
    MaxFaults = 0
INVARIANT OneFreshReservation
CHECK_DEADLOCK FALSE
