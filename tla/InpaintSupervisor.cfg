SPECIFICATION FairSpec
CONSTANTS
    Threads = {t1, t2}
    NoThread = NoThread
    MaxCalls = 3
    ResetsTwice = TRUE
INVARIANTS TypeOK AnswerIsOwn OneModelProcess
PROPERTIES PoisonedChildIsNotAskedAgain EveryCallReturns
CHECK_DEADLOCK FALSE
