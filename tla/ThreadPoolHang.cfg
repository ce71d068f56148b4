\* wait_all racing the last task, under fair scheduling.
CONSTANTS
    Workers = {w1}
    InitialSize = 1
    Tasks = {t1}
    Waiters = {c1}
    Nobody = Nobody
    NoTask = NoTask
SPECIFICATION FairSpec
PROPERTIES WaitAllReturns
CHECK_DEADLOCK FALSE
