SPECIFICATION FairSpec
CONSTANTS
    r1 = r1
    r2 = r2
    j1 = j1
    Records = {r1, r2}
    Jobs = {j1}
    JobOf <- SharedJob
    Handlers = {h1, h2}
    NoRecord = NoRecord
    MaxRestarts = 1
PROPERTIES EveryRecordIsTold RecordsDrain

CHECK_DEADLOCK FALSE
