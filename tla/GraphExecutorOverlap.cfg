\* Another graph is executed while lambdas of a cancelled call are running.
CONSTANTS
    Tasks <- MCTasks
    Graphs <- MCGraphs
    MaxCalls = 2
SPECIFICATION Spec
INVARIANTS OkAlwaysMeansAllRun
CHECK_DEADLOCK FALSE
