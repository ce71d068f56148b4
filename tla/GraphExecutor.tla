--------------------------- MODULE GraphExecutor ---------------------------
(***************************************************************************)
(* sci::GraphExecutor running a TaskGraph on a ThreadPool                  *)
(* (src/scheduler/task_graph.cpp, src/scheduler/task.cpp).                 *)
(*                                                                         *)
(* One client calls execute, other threads may call cancel, and the pool   *)
(* runs the lambdas that process_ready_tasks enqueues.  Of the pool only   *)
(* what ThreadPool shows is used: every accepted lambda is run once, at    *)
(* some later time and in any order; the executor shares ownership of the  *)
(* pool, so it is never shut down under its feet.                          *)
(* A lambda first runs the task's function and later, under mtx_, marks    *)
(* the task; without a pool the client does both itself.                   *)
(*                                                                         *)
(* A call of execute is clean when the graph was not executed before and   *)
(* nothing of an earlier call is still on the pool.  After a cancelled     *)
(* call the client may well make a call that is not clean; what execute    *)
(* promises then is another question than what it promises for clean calls.*)
(***************************************************************************)
EXTENDS Integers, FiniteSets

CONSTANTS Tasks,        \* the ids of the tasks of the graph
          Graphs,       \* the sets of edges <<from, to>> a graph may have
          MaxCalls      \* bound: how often execute is called

ASSUME ExecutorAssumption ==
    /\ IsFiniteSet(Tasks)
    /\ Graphs \subseteq SUBSET (Tasks \X Tasks)
    /\ MaxCalls \in Nat

VARIABLES edges,            \* the graph's edges
          pooled,           \* thread_pool_ is not null
          status,           \* Task::status_
          running_tasks, completed_tasks, running, completed, cancelled,
          epc,              \* execute: what it does next
          ready,            \* the ids process_ready_tasks still has to visit
          result,           \* what the last execute returned
          calls,            \* how often execute was called
          fresh,            \* the graph has not been executed yet
          clean,            \* the last call of execute was a clean one
          queued, ran,      \* lambdas not yet started / not yet marked, by id
          stale,            \* lambdas of earlier graphs that have not ended
          runs              \* how often each task's function was called

graph == <<edges, pooled, fresh, clean>>
sets == <<running_tasks, completed_tasks, running, completed>>
lambdas == <<queued, ran, stale>>
vars == <<edges, pooled, status, running_tasks, completed_tasks, running,
          completed, cancelled, epc, ready, result, calls, fresh, clean,
          queued, ran, stale, runs>>

ExecuteSteps == {"idle", "count", "clear", "loop", "process", "mark", "return"}
Statuses == {"pending", "completed", "failed"}
Results == {"none", "ok", "cancelled", "invalid", "thrown"}

Dependencies(t) == {d \in Tasks : <<d, t>> \in edges}

\* is_dag: every set of tasks has one without a predecessor in the set.
IsDag ==
    \A S \in SUBSET Tasks \ {{}} :
        \E t \in S : \A d \in S : <<d, t>> \notin edges

\* Mutant: a dependency only has to have been run, not to have succeeded.
ReadyTasksAnyOutcome ==
    {t \in Tasks : /\ status[t] = "pending"
                   /\ \A d \in Dependencies(t) : status[d] # "pending"}

ReadyTasks ==
    {t \in Tasks : /\ status[t] = "pending"
                   /\ \A d \in Dependencies(t) : status[d] = "completed"}

Zero == [t \in Tasks |-> 0]

Init ==
    /\ edges \in Graphs
    /\ pooled \in BOOLEAN
    /\ status = [t \in Tasks |-> "pending"]
    /\ running_tasks = {} /\ completed_tasks = {}
    /\ running = 0 /\ completed = 0
    /\ cancelled = FALSE
    /\ epc = "idle"
    /\ ready = {}
    /\ result = "none"
    /\ calls = 0
    /\ fresh = TRUE /\ clean = TRUE
    /\ queued = Zero /\ ran = Zero /\ stale = 0 /\ runs = Zero

InFlight(t) == queued[t] + ran[t]

\* The lambdas of this graph, numbered task by task.
LambdasOfGraph == UNION {{t} \X (1 .. InFlight(t)) : t \in Tasks}

InFlightOfGraph == Cardinality(LambdasOfGraph)

-----------------------------------------------------------------------------
(* execute *)

ExecuteCall ==
    /\ epc = "idle"
    /\ calls < MaxCalls
    /\ cancelled' = FALSE
    /\ calls' = calls + 1
    /\ fresh' = FALSE
    /\ clean' = (fresh /\ InFlightOfGraph = 0 /\ stale = 0)
    /\ result' = "none"
    /\ epc' = "count"
    /\ UNCHANGED <<edges, pooled, status, sets, ready, lambdas, runs>>

\* Mutant: running_ is reset as well.
ExecuteResetBoth ==
    /\ epc = "count"
    /\ completed' = 0
    /\ running' = 0
    /\ epc' = "clear"
    /\ UNCHANGED <<graph, status, running_tasks, completed_tasks,
                   cancelled, ready, result, calls, lambdas, runs>>

\* Mutant: completed_ keeps what an earlier call counted.
ExecuteResetNothing ==
    /\ epc = "count"
    /\ epc' = "clear"
    /\ UNCHANGED <<graph, status, sets, cancelled, ready, result, calls,
                   lambdas, runs>>

\* running_ is not reset: lambdas of an earlier call still count there.
ExecuteResetCount ==
    /\ epc = "count"
    /\ completed' = 0
    /\ epc' = "clear"
    /\ UNCHANGED <<graph, status, running_tasks, completed_tasks, running,
                   cancelled, ready, result, calls, lambdas, runs>>

\* Under mtx_; the graph's validity does not depend on other threads.
ExecuteClear ==
    /\ epc = "clear"
    /\ running_tasks' = {}
    /\ completed_tasks' = {}
    /\ \/ IsDag /\ epc' = "loop" /\ UNCHANGED result
       \/ ~IsDag /\ epc' = "idle" /\ result' = "invalid"
    /\ UNCHANGED <<graph, status, running, completed, cancelled, ready, calls,
                   lambdas, runs>>

\* Mutant: a graph is finished when a single task is.
AnyComplete == completed > 0

AllComplete == completed = Cardinality(Tasks)

\* One evaluation of the loop's condition, then get_ready_tasks.
ExecuteLoop ==
    /\ epc = "loop"
    /\ \/ /\ ~AllComplete /\ ~cancelled
          /\ ready' = ReadyTasks
          /\ epc' = "process"
       \/ /\ AllComplete \/ cancelled
          /\ epc' = "return"
          /\ UNCHANGED ready
    /\ UNCHANGED <<graph, status, sets, cancelled, result, calls, lambdas, runs>>

ExecuteReturn ==
    /\ epc = "return"
    /\ result' = IF cancelled THEN "cancelled" ELSE "ok"
    /\ epc' = "idle"
    /\ UNCHANGED <<graph, status, sets, cancelled, ready, calls, lambdas, runs>>

-----------------------------------------------------------------------------
(* process_ready_tasks *)

\* The ids are visited in the hash map's order, so in any order.
ProcessSkip(t) ==
    /\ epc = "process"
    /\ t \in ready
    /\ ~cancelled
    /\ t \in running_tasks \cup completed_tasks
    /\ ready' = ready \ {t}
    /\ UNCHANGED <<graph, status, sets, cancelled, epc, result, calls,
                   lambdas, runs>>

\* Mutant: status alone decides whether a task is dispatched again.
ProcessDispatchUnguarded(t) ==
    /\ epc = "process"
    /\ pooled
    /\ t \in ready
    /\ ~cancelled
    /\ running_tasks' = running_tasks \cup {t}
    /\ running' = running + 1
    /\ queued' = [queued EXCEPT ![t] = @ + 1]
    /\ ready' = ready \ {t}
    /\ UNCHANGED <<graph, status, completed_tasks, completed, cancelled, epc,
                   result, calls, ran, stale, runs>>

\* Claim the task under mtx_, count it and hand a lambda to the pool.
ProcessDispatch(t) ==
    /\ epc = "process"
    /\ pooled
    /\ t \in ready
    /\ ~cancelled
    /\ t \notin running_tasks \cup completed_tasks
    /\ running_tasks' = running_tasks \cup {t}
    /\ running' = running + 1
    /\ queued' = [queued EXCEPT ![t] = @ + 1]
    /\ ready' = ready \ {t}
    /\ UNCHANGED <<graph, status, completed_tasks, completed, cancelled, epc,
                   result, calls, ran, stale, runs>>

\* FunctionalTask::execute: the function reports success or anything else,
\* or throws a std::exception, which counts as a failure.
RunFunction(t) ==
    /\ runs' = [runs EXCEPT ![t] = @ + 1]
    /\ \E s \in {"completed", "failed"} : status' = [status EXCEPT ![t] = s]

\* Mutant: the count of completed tasks is forgotten.
MarkCompletedUncounted(t) ==
    /\ running_tasks' = running_tasks \ {t}
    /\ completed_tasks' = completed_tasks \cup {t}
    /\ running' = running - 1
    /\ UNCHANGED completed

\* mark_completed, called with mtx_ held; a failed task is marked as well.
MarkCompleted(t) ==
    /\ running_tasks' = running_tasks \ {t}
    /\ completed_tasks' = completed_tasks \cup {t}
    /\ running' = running - 1
    /\ completed' = completed + 1

\* Without a pool: claim, count and run the task on the client's thread ...
ProcessInline(t) ==
    /\ epc = "process"
    /\ ~pooled
    /\ t \in ready
    /\ ~cancelled
    /\ t \notin running_tasks \cup completed_tasks
    /\ running_tasks' = running_tasks \cup {t}
    /\ running' = running + 1
    /\ ready' = ready \ {t}
    /\ RunFunction(t)
    /\ ran' = [ran EXCEPT ![t] = @ + 1]
    /\ epc' = "mark"
    /\ UNCHANGED <<graph, completed_tasks, completed, cancelled, result, calls,
                   queued, stale>>

\* ... then mark it.
ProcessInlineMark(t) ==
    /\ epc = "mark"
    /\ ran[t] > 0
    /\ MarkCompleted(t)
    /\ ran' = [ran EXCEPT ![t] = @ - 1]
    /\ epc' = "process"
    /\ UNCHANGED <<graph, status, cancelled, ready, result, calls, queued,
                   stale, runs>>

\* What the function throws besides std::exception leaves execute itself.
ProcessInlineThrow(t) ==
    /\ epc = "process"
    /\ ~pooled
    /\ t \in ready
    /\ ~cancelled
    /\ t \notin running_tasks \cup completed_tasks
    /\ running_tasks' = running_tasks \cup {t}
    /\ running' = running + 1
    /\ ready' = {}
    /\ runs' = [runs EXCEPT ![t] = @ + 1]
    /\ epc' = "idle"
    /\ result' = "thrown"
    /\ UNCHANGED <<graph, status, completed_tasks, completed, cancelled,
                   calls, lambdas>>

\* All ids visited, or cancelled: sleep a millisecond and look again.
ProcessEnd ==
    /\ epc = "process"
    /\ ready = {} \/ cancelled
    /\ epc' = "loop"
    /\ ready' = {}
    /\ UNCHANGED <<graph, status, sets, cancelled, result, calls, lambdas, runs>>

-----------------------------------------------------------------------------
(* The lambdas on the pool's threads, and other clients *)

LambdaRun(t) ==
    /\ queued[t] > 0
    /\ RunFunction(t)
    /\ queued' = [queued EXCEPT ![t] = @ - 1]
    /\ ran' = [ran EXCEPT ![t] = @ + 1]
    /\ UNCHANGED <<graph, sets, cancelled, epc, ready, result, calls, stale>>

\* An exception that is no std::exception leaves execute and ends the lambda
\* before mark_completed; packaged_task keeps it in a future nobody reads.
LambdaThrow(t) ==
    /\ queued[t] > 0
    /\ runs' = [runs EXCEPT ![t] = @ + 1]
    /\ queued' = [queued EXCEPT ![t] = @ - 1]
    /\ UNCHANGED <<graph, status, sets, cancelled, epc, ready, result, calls, ran,
                   stale>>

LambdaMark(t) ==
    /\ pooled
    /\ ran[t] > 0
    /\ MarkCompleted(t)
    /\ ran' = [ran EXCEPT ![t] = @ - 1]
    /\ UNCHANGED <<graph, status, cancelled, epc, ready, result, calls, queued,
                   stale, runs>>

\* The same for a task that is not in the graph now being executed: its id
\* is another one, but the counters are the same.
StaleMark ==
    /\ stale > 0
    /\ stale' = stale - 1
    /\ running' = running - 1
    /\ completed' = completed + 1
    /\ UNCHANGED <<graph, status, running_tasks, completed_tasks, cancelled, epc,
                   ready, result, calls, queued, ran, runs>>

StaleThrow ==
    /\ stale > 0
    /\ stale' = stale - 1
    /\ UNCHANGED <<graph, status, sets, cancelled, epc, ready, result, calls,
                   queued, ran, runs>>

Cancel ==
    /\ cancelled' = TRUE
    /\ UNCHANGED <<graph, status, sets, epc, ready, result, calls, lambdas, runs>>

\* The client builds another graph for the same executor.  Its tasks have
\* new ids, so whatever is on the pool belongs to none of them.
NewGraph ==
    /\ epc = "idle"
    /\ ~fresh
    /\ edges' \in Graphs
    /\ fresh' = TRUE
    /\ status' = [t \in Tasks |-> "pending"]
    /\ queued' = Zero /\ ran' = Zero /\ runs' = Zero
    /\ stale' = stale + InFlightOfGraph
    /\ result' = "none"
    /\ UNCHANGED <<pooled, clean, sets, cancelled, epc, ready, calls>>

-----------------------------------------------------------------------------

Execute ==
    \/ ExecuteResetCount
    \/ ExecuteClear
    \/ ExecuteLoop
    \/ ExecuteReturn
    \/ \E t \in Tasks : \/ ProcessSkip(t)
                        \/ ProcessDispatch(t)
                        \/ ProcessInline(t)
                        \/ ProcessInlineMark(t)
                        \/ ProcessInlineThrow(t)
    \/ ProcessEnd

Lambda(t) == LambdaRun(t) \/ LambdaThrow(t) \/ LambdaMark(t)

Next ==
    \/ ExecuteCall
    \/ Execute
    \/ \E t \in Tasks : Lambda(t)
    \/ StaleMark
    \/ StaleThrow
    \/ Cancel
    \/ NewGraph

Spec == Init /\ [][Next]_vars

\* execute keeps running and the pool runs what it accepted.
FairSpec ==
    /\ Spec
    /\ WF_vars(Execute)
    /\ \A t \in Tasks : WF_vars(Lambda(t))

-----------------------------------------------------------------------------
(* Properties *)

\* Types of all variables; the unsigned counters never wrap below zero.
TypeOK ==
    /\ edges \in Graphs /\ pooled \in BOOLEAN
    /\ fresh \in BOOLEAN /\ clean \in BOOLEAN
    /\ status \in [Tasks -> Statuses]
    /\ running_tasks \subseteq Tasks /\ completed_tasks \subseteq Tasks
    /\ running \in Nat /\ completed \in Nat
    /\ cancelled \in BOOLEAN
    /\ epc \in ExecuteSteps /\ result \in Results
    /\ ready \subseteq Tasks
    /\ calls \in 0 .. MaxCalls
    /\ queued \in [Tasks -> Nat] /\ ran \in [Tasks -> Nat] /\ stale \in Nat
    /\ runs \in [Tasks -> Nat]

\* In a clean call no task is handed to the pool again while it waits there,
\* runs or is done, although its status stays kPending until its function
\* returns, and a task that threw is not tried again.
RunsOnce == clean => \A t \in Tasks : runs[t] + queued[t] <= 1

\* In a clean call a task's function is only called after all functions it
\* depends on have returned success.
DependencyOrder ==
    clean => \A e \in edges : runs[e[2]] > 0 => status[e[1]] = "completed"

\* When a clean call of execute returns Ok, every task of the graph has been
\* run and marked, and nothing of it is left on the pool.
OkMeansAllRun ==
    clean /\ result = "ok" => \A t \in Tasks : runs[t] = 1 /\ InFlight(t) = 0

\* While a clean call runs, completed_, which is written by every lambda and
\* decides when execute returns, counts exactly the tasks of this graph that
\* ended.
CompletedExact ==
    clean /\ epc \in {"loop", "process", "mark", "return"} =>
        completed = Cardinality({t \in Tasks : /\ runs[t] = 1
                                               /\ InFlight(t) = 0
                                               /\ status[t] # "pending"})

\* num_running() never misses a task that is on the pool, of this call or of
\* an earlier one, so the unsigned running_ never wraps below zero.
RunningCovers == running >= InFlightOfGraph + stale

\* If all calls are clean and every function that was called reports success,
\* execute returns, also when it races its own lambdas.
ExecuteReturns ==
    [](/\ clean
       /\ \A t \in Tasks : runs[t] > 0 => status[t] = "completed") =>
        (epc # "idle" ~> epc = "idle")

\* What the comment in process_ready_tasks says without the restriction to
\* clean calls: a task is not queued again before it has been executed.
NeverQueuedTwice == \A t \in Tasks : InFlight(t) <= 1

\* The same for the result of execute: Ok means that every task was run.
OkAlwaysMeansAllRun == result = "ok" => \A t \in Tasks : runs[t] >= 1
=============================================================================
