\* One worker that resize can make two, two tasks, one caller of wait_all.
CONSTANTS
    Workers = {w1, w2}
    InitialSize = 1
    Tasks = {t1, t2}
    Waiters = {c1}
    Nobody = Nobody
    NoTask = NoTask
SPECIFICATION FairSpec
INVARIANTS TypeOK TaskConserved CountersExact JoinedMeansDrained
PROPERTIES WaitAllMeansRun EveryTaskRuns
CHECK_DEADLOCK FALSE
