\* An executor used for two graphs one after the other, or twice for the same
\* graph, cancelled at any time.
CONSTANTS
    Tasks <- MCTasks
    Graphs <- MCGraphs
    MaxCalls = 2
SPECIFICATION FairSpec
INVARIANTS TypeOK RunsOnce DependencyOrder OkMeansAllRun CompletedExact RunningCovers
PROPERTIES ExecuteReturns
CHECK_DEADLOCK FALSE
