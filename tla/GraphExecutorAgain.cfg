\* The same graph is executed again after a cancelled call.
CONSTANTS
    Tasks <- MCTasks
    Graphs <- MCGraphs
    MaxCalls = 2
SPECIFICATION Spec
INVARIANTS NeverQueuedTwice
CHECK_DEADLOCK FALSE
