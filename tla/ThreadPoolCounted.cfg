\* The unit test ThreadPoolStats: one client, no pause, no resize needed.
CONSTANTS
    Workers = {w1}
    InitialSize = 1
    Tasks = {t1}
    Waiters = {c1}
    Nobody = Nobody
    NoTask = NoTask
SPECIFICATION Spec
PROPERTIES WaitAllMeansCounted
CHECK_DEADLOCK FALSE
