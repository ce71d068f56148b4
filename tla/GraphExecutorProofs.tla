------------------------ MODULE GraphExecutorProofs ------------------------
(***************************************************************************)
(* Safety of GraphExecutor for any graphs, any number of tasks and of      *)
(* calls of execute.                                                       *)
(***************************************************************************)
EXTENDS GraphExecutor, FiniteSetTheorems, TLAPS

Untouched(t) == runs[t] = 0 /\ queued[t] = 0 /\ ran[t] = 0 /\ status[t] = "pending"

Ended(t) == runs[t] = 1 /\ queued[t] = 0 /\ ran[t] = 0 /\ status[t] # "pending"

EndedTasks == {t \in Tasks : Ended(t)}

\* The life of a task in a clean call: not claimed, queued, run and not marked,
\* marked, or left behind by an exception.  The two sets of ids say which.
Phase(t) ==
    \/ Untouched(t) /\ t \notin running_tasks \cup completed_tasks
    \/ /\ queued[t] = 1 /\ runs[t] = 0 /\ ran[t] = 0 /\ status[t] = "pending"
       /\ t \in running_tasks
    \/ /\ queued[t] = 0 /\ runs[t] = 1 /\ ran[t] = 1 /\ status[t] # "pending"
       /\ t \in running_tasks
    \/ Ended(t) /\ t \in completed_tasks
    \/ /\ queued[t] = 0 /\ runs[t] = 1 /\ ran[t] = 0 /\ status[t] = "pending"
       /\ t \in running_tasks

\* A task that is about to be claimed, queued or run has its dependencies behind it.
Released(t) ==
    t \in ready \/ queued[t] > 0 \/ runs[t] > 0
        => \A d \in Dependencies(t) : status[d] = "completed"

\* Between calls: a new graph is untouched, and nobody is left to visit.
IdleInv ==
    /\ fresh => epc = "idle" /\ result = "none" /\ \A t \in Tasks : Untouched(t)
    /\ epc \notin {"process", "mark"} => ready = {}

\* A clean call before it has reset the counter and the sets of ids ...
StartInv ==
    clean /\ epc \in {"count", "clear"} =>
        /\ \A t \in Tasks : Untouched(t)
        /\ epc = "clear" => completed = 0

\* ... and from then on, after its return too.
WorkInv ==
    clean /\ ~fresh /\ epc \notin {"count", "clear"} =>
        /\ \A t \in Tasks : Phase(t) /\ Released(t)
        /\ epc # "idle" => completed = Cardinality(EndedTasks)

\* Nothing of an earlier call is counted in a clean one.
CleanInv == clean /\ ~fresh => stale = 0

\* Why execute returns, and what an Ok stands for.
ReturnInv ==
    clean /\ ~fresh =>
        /\ epc = "return" => cancelled \/ EndedTasks = Tasks
        /\ result = "ok" => EndedTasks = Tasks
        /\ epc \in {"count", "clear"} => result = "none"

\* The inductive invariant.
ExecutorInv ==
    /\ TypeOK
    /\ RunningCovers
    /\ IdleInv
    /\ StartInv
    /\ WorkInv
    /\ CleanInv
    /\ ReturnInv

-----------------------------------------------------------------------------
(* Counting lambdas *)

\* The lambdas of the graph are finitely many.
LEMMA LambdasFinite ==
    ASSUME TypeOK
    PROVE  IsFiniteSet(LambdasOfGraph) /\ InFlightOfGraph \in Nat
<1> DEFINE f == [t \in Tasks |-> {t} \X (1 .. InFlight(t))]
           S == {{t} \X (1 .. InFlight(t)) : t \in Tasks}
<1>1. f \in Surjection(Tasks, S)
  BY DEF Surjection
<1>2. IsFiniteSet(S)
  BY <1>1, FS_Surjection, ExecutorAssumption
<1>3. ASSUME NEW t \in Tasks
      PROVE  IsFiniteSet({t} \X (1 .. InFlight(t)))
  <2>1. InFlight(t) \in Int
    BY DEF TypeOK, InFlight
  <2>2. IsFiniteSet({t})
    BY FS_Singleton
  <2>3. IsFiniteSet(1 .. InFlight(t))
    BY <2>1, FS_Interval
  <2>4. QED
    BY <2>2, <2>3, FS_Product
<1>4. \A T \in S : IsFiniteSet(T)
  BY <1>3
<1>5. IsFiniteSet(LambdasOfGraph)
  BY <1>2, <1>4, FS_UNION DEF LambdasOfGraph
<1>6. QED
  BY <1>5, FS_CardinalityType DEF InFlightOfGraph

\* Which pairs are lambdas.
LEMMA LambdasAre ==
    ASSUME NEW t, NEW k
    PROVE  <<t, k>> \in LambdasOfGraph <=> t \in Tasks /\ k \in 1 .. InFlight(t)
BY DEF LambdasOfGraph

\* One lambda more for t.
LEMMA LambdaAdded ==
    ASSUME TypeOK, NEW t \in Tasks, InFlight(t)' = InFlight(t) + 1,
           \A u \in Tasks : u # t => InFlight(u)' = InFlight(u)
    PROVE  InFlightOfGraph' = InFlightOfGraph + 1
<1> DEFINE new == <<t, InFlight(t) + 1>>
<1>1. InFlight(t) \in Nat
  BY DEF TypeOK, InFlight
<1>2. LambdasOfGraph' = LambdasOfGraph \cup {new}
  <2>1. 1 .. (InFlight(t) + 1) = (1 .. InFlight(t)) \cup {InFlight(t) + 1}
    BY <1>1
  <2>2. \A u \in Tasks : {u} \X (1 .. InFlight(u)')
           = ({u} \X (1 .. InFlight(u))) \cup (IF u = t THEN {new} ELSE {})
    BY <2>1
  <2>3. QED
    BY <2>2 DEF LambdasOfGraph
<1>3. new \notin LambdasOfGraph
  BY <1>1, LambdasAre
<1>4. QED
  BY <1>2, <1>3, LambdasFinite, FS_AddElement DEF InFlightOfGraph

\* One lambda less for t.
LEMMA LambdaEnded ==
    ASSUME TypeOK, NEW t \in Tasks, InFlight(t) > 0, InFlight(t)' = InFlight(t) - 1,
           \A u \in Tasks : u # t => InFlight(u)' = InFlight(u)
    PROVE  InFlightOfGraph' = InFlightOfGraph - 1
<1> DEFINE old == <<t, InFlight(t)>>
<1>1. InFlight(t) \in Nat
  BY DEF TypeOK, InFlight
<1>2. LambdasOfGraph' = LambdasOfGraph \ {old}
  <2>1. 1 .. (InFlight(t) - 1) = (1 .. InFlight(t)) \ {InFlight(t)}
    BY <1>1
  <2>2. \A u \in Tasks : {u} \X (1 .. InFlight(u)') = ({u} \X (1 .. InFlight(u))) \ {old}
    BY <2>1
  <2>3. QED
    BY <2>2 DEF LambdasOfGraph
<1>3. old \in LambdasOfGraph
  BY <1>1, LambdasAre
<1>4. QED
  BY <1>2, <1>3, LambdasFinite, FS_RemoveElement DEF InFlightOfGraph

\* As many as before.
LEMMA LambdasKept ==
    ASSUME \A u \in Tasks : InFlight(u)' = InFlight(u)
    PROVE  InFlightOfGraph' = InFlightOfGraph
BY DEF InFlightOfGraph, LambdasOfGraph

\* None at all.
LEMMA NoLambdas ==
    ASSUME \A u \in Tasks : InFlight(u) = 0
    PROVE  InFlightOfGraph = 0
<1>1. LambdasOfGraph = {}
  BY DEF LambdasOfGraph
<1>2. QED
  BY <1>1, FS_EmptySet DEF InFlightOfGraph

-----------------------------------------------------------------------------
(* Steps that leave the tasks alone *)

work == <<edges, status, queued, ran, runs, running_tasks, completed_tasks, completed>>

\* What the invariant says of tasks is kept when they are.
LEMMA WorkKept ==
    ASSUME UNCHANGED work
    PROVE  /\ \A t \in Tasks : /\ Untouched(t)' <=> Untouched(t)
                               /\ Ended(t)' <=> Ended(t)
                               /\ Phase(t)' <=> Phase(t)
                               /\ InFlight(t)' = InFlight(t)
                               /\ Dependencies(t)' = Dependencies(t)
                               /\ ready' \subseteq ready /\ Released(t) => Released(t)'
           /\ EndedTasks' = EndedTasks
           /\ InFlightOfGraph' = InFlightOfGraph
<1>1. \A t \in Tasks : /\ Untouched(t)' <=> Untouched(t)
                       /\ Ended(t)' <=> Ended(t)
                       /\ InFlight(t)' = InFlight(t)
                       /\ Dependencies(t)' = Dependencies(t)
  BY DEF work, Untouched, Ended, InFlight, Dependencies
<1>2. \A t \in Tasks : Phase(t)' <=> Phase(t)
  BY <1>1 DEF work, Phase
<1>3. \A t \in Tasks : ready' \subseteq ready /\ Released(t) => Released(t)'
  BY <1>1 DEF work, Released
<1>4. EndedTasks' = EndedTasks
  BY <1>1 DEF EndedTasks
<1>5. QED
  BY <1>1, <1>2, <1>3, <1>4, LambdasKept

LEMMA CallInv ==
    ASSUME ExecutorInv, ExecuteCall
    PROVE  ExecutorInv'
<1> USE DEF ExecutorInv
<1>1. /\ epc = "idle" /\ calls < MaxCalls /\ cancelled' = FALSE /\ calls' = calls + 1
      /\ fresh' = FALSE /\ clean' = (fresh /\ InFlightOfGraph = 0 /\ stale = 0)
      /\ result' = "none" /\ epc' = "count"
      /\ UNCHANGED <<edges, pooled, status, running_tasks, completed_tasks, running, completed,
                     ready, queued, ran, stale, runs>>
  BY DEF ExecuteCall, sets, lambdas
<1>2. UNCHANGED work
  BY <1>1 DEF work
<1>3. TypeOK'
  <2>1. clean' \in BOOLEAN /\ calls' \in 0 .. MaxCalls
    BY <1>1, ExecutorAssumption DEF TypeOK
  <2>2. /\ cancelled' = FALSE /\ fresh' = FALSE /\ result' = "none" /\ epc' = "count"
        /\ UNCHANGED <<edges, pooled, status, running_tasks, completed_tasks, running, completed,
                       ready, queued, ran, stale, runs>>
    BY <1>1
  <2>3. QED
    BY <2>1, <2>2 DEF TypeOK, ExecuteSteps, Results
<1>4. RunningCovers'
  BY <1>1, <1>2, WorkKept DEF RunningCovers
<1>5. IdleInv' /\ StartInv' /\ CleanInv' /\ ReturnInv' /\ WorkInv'
  BY <1>1, <1>2, WorkKept DEF IdleInv, StartInv, CleanInv, ReturnInv, WorkInv
<1>6. QED
  BY <1>3, <1>4, <1>5

LEMMA ResetCountInv ==
    ASSUME ExecutorInv, ExecuteResetCount
    PROVE  ExecutorInv'
<1> USE DEF ExecutorInv
<1>1. /\ epc = "count" /\ completed' = 0 /\ epc' = "clear"
      /\ UNCHANGED <<edges, pooled, fresh, clean, status, running_tasks, completed_tasks, running,
                     cancelled, ready, result, calls, queued, ran, stale, runs>>
  BY DEF ExecuteResetCount, graph, lambdas
<1>2. \A t \in Tasks : (Untouched(t)' <=> Untouched(t)) /\ InFlight(t)' = InFlight(t)
  BY <1>1 DEF Untouched, InFlight
<1>3. TypeOK'
  BY <1>1 DEF TypeOK, ExecuteSteps
<1>4. RunningCovers'
  BY <1>1, <1>2, LambdasKept DEF RunningCovers
<1>5. EndedTasks' = EndedTasks
  BY <1>1 DEF EndedTasks, Ended
<1>6. IdleInv' /\ StartInv' /\ CleanInv' /\ ReturnInv' /\ WorkInv'
  BY <1>1, <1>2, <1>5 DEF IdleInv, StartInv, CleanInv, ReturnInv, WorkInv
<1>7. QED
  BY <1>3, <1>4, <1>6

LEMMA ClearInv ==
    ASSUME ExecutorInv, ExecuteClear
    PROVE  ExecutorInv'
<1> USE DEF ExecutorInv
<1>1. /\ epc = "clear" /\ running_tasks' = {} /\ completed_tasks' = {}
      /\ (epc' = "loop" /\ result' = result) \/ (epc' = "idle" /\ result' = "invalid")
      /\ UNCHANGED <<edges, pooled, fresh, clean, status, running, completed, cancelled, ready,
                     calls, queued, ran, stale, runs>>
  BY DEF ExecuteClear, graph, lambdas
<1>2. \A t \in Tasks : (Untouched(t)' <=> Untouched(t)) /\ InFlight(t)' = InFlight(t)
  BY <1>1 DEF Untouched, InFlight
<1>3. TypeOK'
  BY <1>1 DEF TypeOK, ExecuteSteps, Results
<1>4. RunningCovers'
  BY <1>1, <1>2, LambdasKept DEF RunningCovers
<1>5. EndedTasks' = EndedTasks
  BY <1>1 DEF EndedTasks, Ended
<1>6. IdleInv' /\ StartInv' /\ CleanInv' /\ ReturnInv'
  BY <1>1, <1>2, <1>5 DEF IdleInv, StartInv, CleanInv, ReturnInv
<1>7. WorkInv'
  <2>1. SUFFICES ASSUME clean
                 PROVE  /\ \A t \in Tasks : Phase(t)' /\ Released(t)'
                        /\ completed' = Cardinality(EndedTasks')
    BY <1>1 DEF WorkInv
  <2>2. completed = 0 /\ (\A t \in Tasks : Untouched(t)) /\ ready = {}
    BY <1>1, <2>1 DEF StartInv, IdleInv
  <2>3. \A t \in Tasks : Phase(t)' /\ Released(t)'
    BY <1>1, <1>2, <2>2 DEF Phase, Released, Untouched
  <2>4. EndedTasks = {}
    BY <2>2 DEF EndedTasks, Ended, Untouched
  <2>5. QED
    BY <1>1, <1>5, <2>2, <2>3, <2>4, FS_EmptySet
<1>8. QED
  BY <1>3, <1>4, <1>6, <1>7

LEMMA LoopInv ==
    ASSUME ExecutorInv, ExecuteLoop
    PROVE  ExecutorInv'
<1> USE DEF ExecutorInv
<1>1. /\ epc = "loop"
      /\ \/ ready' = ReadyTasks /\ epc' = "process"
         \/ (AllComplete \/ cancelled) /\ epc' = "return" /\ ready' = ready
      /\ UNCHANGED <<edges, pooled, fresh, clean, status, running_tasks, completed_tasks, running,
                     completed, cancelled, result, calls, queued, ran, stale, runs>>
  BY DEF ExecuteLoop, graph, sets, lambdas
<1>2. UNCHANGED work
  BY <1>1 DEF work
<1>3. TypeOK'
  BY <1>1 DEF TypeOK, ExecuteSteps, ReadyTasks
<1>4. RunningCovers'
  BY <1>1, <1>2, WorkKept DEF RunningCovers
<1>5. IdleInv' /\ StartInv' /\ CleanInv'
  BY <1>1, <1>2, WorkKept DEF IdleInv, StartInv, CleanInv
<1>6. \A t \in Tasks : Released(t) => Released(t)'
  BY <1>1, <1>2, WorkKept DEF Released, ReadyTasks
<1>7. WorkInv'
  BY <1>1, <1>2, <1>6, WorkKept DEF WorkInv, IdleInv
<1>8. ReturnInv'
  <2>1. AllComplete /\ clean => EndedTasks = Tasks
    <3>1. EndedTasks \in SUBSET Tasks
      BY DEF EndedTasks
    <3>2. QED
      BY <1>1, <3>1, FS_Subset, ExecutorAssumption DEF AllComplete, WorkInv, IdleInv
  <2>2. QED
    BY <1>1, <1>2, <2>1, WorkKept DEF ReturnInv
<1>9. QED
  BY <1>3, <1>4, <1>5, <1>7, <1>8

LEMMA ReturnStepInv ==
    ASSUME ExecutorInv, ExecuteReturn
    PROVE  ExecutorInv'
<1> USE DEF ExecutorInv
<1>1. /\ epc = "return" /\ result' = (IF cancelled THEN "cancelled" ELSE "ok") /\ epc' = "idle"
      /\ UNCHANGED <<edges, pooled, fresh, clean, status, running_tasks, completed_tasks, running,
                     completed, cancelled, ready, calls, queued, ran, stale, runs>>
  BY DEF ExecuteReturn, graph, sets, lambdas
<1>2. UNCHANGED work
  BY <1>1 DEF work
<1>3. TypeOK'
  BY <1>1 DEF TypeOK, ExecuteSteps, Results
<1>4. RunningCovers'
  BY <1>1, <1>2, WorkKept DEF RunningCovers
<1>5. IdleInv' /\ StartInv' /\ CleanInv' /\ ReturnInv' /\ WorkInv'
  BY <1>1, <1>2, WorkKept DEF IdleInv, StartInv, CleanInv, ReturnInv, WorkInv
<1>6. QED
  BY <1>3, <1>4, <1>5

\* Passing over a claimed task, the end of a round, and cancel.
LEMMA StillInv ==
    ASSUME ExecutorInv, ProcessEnd \/ Cancel \/ \E t \in Tasks : ProcessSkip(t)
    PROVE  ExecutorInv'
<1> USE DEF ExecutorInv
<1>1. /\ ready' \subseteq ready /\ (cancelled => cancelled') /\ cancelled' \in BOOLEAN
      /\ \/ epc' = epc
         \/ epc = "process" /\ epc' = "loop" /\ ready' = {}
      /\ UNCHANGED <<edges, pooled, fresh, clean, status, running_tasks, completed_tasks, running,
                     completed, result, calls, queued, ran, stale, runs>>
  BY DEF ProcessEnd, Cancel, ProcessSkip, graph, sets, lambdas, TypeOK
<1>2. UNCHANGED work
  BY <1>1 DEF work
<1>3. TypeOK'
  BY <1>1 DEF TypeOK, ExecuteSteps
<1>4. RunningCovers'
  BY <1>1, <1>2, WorkKept DEF RunningCovers
<1>5. IdleInv' /\ StartInv' /\ CleanInv' /\ WorkInv'
  BY <1>1, <1>2, WorkKept DEF IdleInv, StartInv, CleanInv, WorkInv
<1>6. ReturnInv'
  BY <1>1, <1>2, WorkKept DEF ReturnInv
<1>7. QED
  BY <1>3, <1>4, <1>5, <1>6

\* Lambdas of an earlier graph only exist in calls that are not clean.
LEMMA StaleInv ==
    ASSUME ExecutorInv, StaleMark \/ StaleThrow
    PROVE  ExecutorInv'
<1> USE DEF ExecutorInv
<1>1. /\ stale > 0 /\ stale' = stale - 1
      /\ (running' = running - 1 /\ completed' = completed + 1)
            \/ (running' = running /\ completed' = completed)
      /\ UNCHANGED <<edges, pooled, fresh, clean, status, running_tasks, completed_tasks,
                     cancelled, epc, ready, result, calls, queued, ran, runs>>
  BY DEF StaleMark, StaleThrow, graph, sets
<1>2. \A t \in Tasks : InFlight(t)' = InFlight(t) /\ (Untouched(t)' <=> Untouched(t))
  BY <1>1 DEF InFlight, Untouched
<1>3. RunningCovers' /\ running' \in Nat
  BY <1>1, <1>2, LambdasKept, LambdasFinite DEF RunningCovers, TypeOK
<1>4. TypeOK'
  BY <1>1, <1>3 DEF TypeOK
<1>5. ~clean \/ fresh
  BY <1>1 DEF CleanInv, TypeOK
<1>6. IdleInv' /\ StartInv' /\ CleanInv' /\ ReturnInv' /\ WorkInv'
  BY <1>1, <1>2, <1>5 DEF IdleInv, StartInv, CleanInv, ReturnInv, WorkInv
<1>7. QED
  BY <1>3, <1>4, <1>6

-----------------------------------------------------------------------------
(* Steps of one task *)

\* A step that moves one task on, and no other, keeps the invariant when that
\* task keeps its part of it.
LEMMA TaskStepInv ==
    ASSUME ExecutorInv, NEW t \in Tasks, ~fresh, TypeOK', RunningCovers',
           UNCHANGED <<edges, fresh, clean, stale, cancelled>>,
           ready' \subseteq ready,
           \/ epc' = epc /\ result' = result
           \/ /\ epc \in {"process", "mark"} /\ epc' \in {"process", "mark"}
              /\ result' = result
           \/ epc = "process" /\ epc' = "idle" /\ ready' = {} /\ result' = "thrown",
           \A u \in Tasks : u # t =>
               /\ queued'[u] = queued[u] /\ ran'[u] = ran[u] /\ runs'[u] = runs[u]
               /\ status'[u] = status[u]
               /\ u \in running_tasks' <=> u \in running_tasks
               /\ u \in completed_tasks' <=> u \in completed_tasks,
           clean => /\ epc \notin {"count", "clear"}
                    /\ Phase(t)' /\ Released(t)'
                    /\ status[t] = "completed" => status'[t] = "completed"
                    /\ ~Ended(t)
                    /\ \/ Ended(t)' /\ completed' = completed + 1
                       \/ ~Ended(t)' /\ completed' = completed
    PROVE  ExecutorInv'
<1> USE DEF ExecutorInv
<1>1. \A u \in Tasks : u # t => (Ended(u)' <=> Ended(u)) /\ (Phase(u)' <=> Phase(u))
  BY DEF Ended, Phase, Untouched
<1>2. IdleInv' /\ CleanInv'
  BY DEF IdleInv, CleanInv
<1>3. StartInv'
  BY DEF StartInv
<1>4. clean => EndedTasks # Tasks
  BY DEF EndedTasks
<1>5. ReturnInv'
  BY <1>4 DEF ReturnInv
<1>6. WorkInv'
  <2>1. SUFFICES ASSUME clean
                 PROVE  /\ \A u \in Tasks : Phase(u)' /\ Released(u)'
                        /\ epc' # "idle" => completed' = Cardinality(EndedTasks)'
    BY DEF WorkInv
  <2>2. /\ \A u \in Tasks : Phase(u) /\ Released(u)
        /\ epc # "idle" => completed = Cardinality(EndedTasks)
    BY <2>1 DEF WorkInv
  <2>3. \A d \in Tasks : status[d] = "completed" => status'[d] = "completed"
    BY <2>1
  <2>4. ASSUME NEW u \in Tasks, u # t
        PROVE  Phase(u)' /\ Released(u)'
    <3>1. Dependencies(u)' = Dependencies(u) /\ Dependencies(u) \subseteq Tasks
      BY DEF Dependencies
    <3>2. Released(u)'
      BY <2>2, <2>3, <2>4, <3>1 DEF Released
    <3>3. QED
      BY <1>1, <2>2, <2>4, <3>2
  <2>5. epc' # "idle" => completed' = Cardinality(EndedTasks)'
    <3>1. SUFFICES ASSUME epc' # "idle"
                   PROVE  completed' = Cardinality(EndedTasks)'
      OBVIOUS
    <3>2. completed = Cardinality(EndedTasks)
      BY <2>2, <3>1
    <3>3. IsFiniteSet(EndedTasks) /\ t \notin EndedTasks
      <4>1. EndedTasks \subseteq Tasks /\ t \notin EndedTasks
        BY <2>1 DEF EndedTasks
      <4>2. QED
        BY <4>1, FS_Subset, ExecutorAssumption
    <3>4. CASE Ended(t)' /\ completed' = completed + 1
      <4>1. EndedTasks' = EndedTasks \cup {t}
        BY <1>1, <3>4 DEF EndedTasks
      <4>2. QED
        BY <3>2, <3>3, <3>4, <4>1, FS_AddElement
    <3>5. CASE ~Ended(t)' /\ completed' = completed
      <4>1. EndedTasks' = EndedTasks
        BY <1>1, <2>1, <3>5 DEF EndedTasks
      <4>2. QED
        BY <3>2, <3>5, <4>1
    <3>6. QED
      BY <2>1, <3>4, <3>5
  <2>6. QED
    BY <2>1, <2>4, <2>5
<1>7. QED
  BY <1>2, <1>3, <1>5, <1>6

\* What a clean call knows of the task that a step is about to move.
LEMMA ActiveTask ==
    ASSUME ExecutorInv, NEW t \in Tasks, clean,
           epc \in {"process", "mark"} \/ queued[t] > 0 \/ ran[t] > 0
    PROVE  ~fresh /\ epc \notin {"count", "clear"} /\ Phase(t) /\ Released(t)
<1> USE DEF ExecutorInv
<1>1. ~fresh
  BY DEF IdleInv, Untouched
<1>2. epc \notin {"count", "clear"}
  BY DEF StartInv, Untouched
<1>3. QED
  BY <1>1, <1>2 DEF WorkInv

LEMMA DispatchInv ==
    ASSUME ExecutorInv, NEW t \in Tasks, ProcessDispatch(t)
    PROVE  ExecutorInv'
<1> USE DEF ExecutorInv
<1>1. /\ epc = "process" /\ t \in ready /\ t \notin running_tasks \cup completed_tasks
      /\ running_tasks' = running_tasks \cup {t} /\ running' = running + 1
      /\ queued' = [queued EXCEPT ![t] = @ + 1] /\ ready' = ready \ {t}
      /\ UNCHANGED <<edges, pooled, fresh, clean, status, completed_tasks, completed, cancelled,
                     epc, result, calls, ran, stale, runs>>
  BY DEF ProcessDispatch, graph
<1>2. /\ queued'[t] = queued[t] + 1 /\ queued[t] \in Nat
      /\ \A u \in Tasks : u # t => queued'[u] = queued[u]
  BY <1>1 DEF TypeOK
<1>3. TypeOK'
  BY <1>1 DEF TypeOK
<1>4. RunningCovers'
  <2>1. InFlight(t)' = InFlight(t) + 1 /\ \A u \in Tasks : u # t => InFlight(u)' = InFlight(u)
    BY <1>1, <1>2 DEF InFlight, TypeOK
  <2>2. QED
    BY <1>1, <2>1, LambdaAdded, LambdasFinite DEF RunningCovers, TypeOK
<1>5. ~fresh
  BY <1>1 DEF IdleInv
<1>6. ASSUME clean
      PROVE  /\ Phase(t)' /\ Released(t)' /\ ~Ended(t) /\ ~Ended(t)'
             /\ epc \notin {"count", "clear"}
  <2>1. Phase(t) /\ Released(t)
    BY <1>1, <1>6, ActiveTask
  <2>2. Untouched(t)
    BY <1>1, <2>1 DEF Phase
  <2>3. Phase(t)' /\ ~Ended(t) /\ ~Ended(t)'
    BY <1>1, <1>2, <2>2 DEF Phase, Untouched, Ended
  <2>4. Released(t)'
    BY <1>1, <2>1 DEF Released, Dependencies
  <2>5. QED
    BY <1>1, <2>3, <2>4
<1>7. QED
  BY <1>1, <1>2, <1>3, <1>4, <1>5, <1>6, TaskStepInv

\* Both outcomes of a function called on the client's thread.
LEMMA InlineInv ==
    ASSUME ExecutorInv, NEW t \in Tasks, ProcessInline(t) \/ ProcessInlineThrow(t)
    PROVE  ExecutorInv'
<1> USE DEF ExecutorInv
<1>1. /\ epc = "process" /\ t \in ready /\ t \notin running_tasks \cup completed_tasks
      /\ running_tasks' = running_tasks \cup {t} /\ running' = running + 1
      /\ ready' \subseteq ready /\ runs' = [runs EXCEPT ![t] = @ + 1]
      /\ UNCHANGED <<edges, pooled, fresh, clean, completed_tasks, completed, cancelled,
                     calls, queued, stale>>
  BY DEF ProcessInline, ProcessInlineThrow, RunFunction, graph, lambdas
<1>2. \/ /\ ran' = [ran EXCEPT ![t] = @ + 1] /\ epc' = "mark" /\ result' = result
         /\ \E s \in {"completed", "failed"} : status' = [status EXCEPT ![t] = s]
      \/ /\ ran' = ran /\ epc' = "idle" /\ result' = "thrown" /\ status' = status
         /\ ready' = {}
  BY DEF ProcessInline, ProcessInlineThrow, RunFunction, lambdas
<1>3. TypeOK'
  <2>1. /\ ran' \in [Tasks -> Nat] /\ status' \in [Tasks -> Statuses] /\ epc' \in ExecuteSteps
        /\ result' \in Results
    BY <1>2 DEF TypeOK, Statuses, ExecuteSteps, Results
  <2>2. runs' \in [Tasks -> Nat]
    BY <1>1 DEF TypeOK
  <2>3. /\ running_tasks' \subseteq Tasks /\ running' \in Nat /\ ready' \subseteq Tasks
        /\ UNCHANGED <<edges, pooled, fresh, clean, completed_tasks, completed, cancelled,
                       calls, queued, stale>>
    BY <1>1 DEF TypeOK
  <2>4. QED
    BY <2>1, <2>2, <2>3 DEF TypeOK
<1>4. /\ runs'[t] = runs[t] + 1
      /\ \A u \in Tasks : u # t => /\ ran'[u] = ran[u] /\ runs'[u] = runs[u]
                                  /\ status'[u] = status[u]
      /\ \/ ran'[t] = ran[t] + 1 /\ status'[t] # "pending"
         \/ ran'[t] = ran[t] /\ status'[t] = status[t]
  BY <1>1, <1>2 DEF TypeOK
<1>5. RunningCovers'
  <2>1. \A u \in Tasks : u # t => InFlight(u)' = InFlight(u)
    BY <1>1, <1>4 DEF InFlight
  <2>2. CASE ran'[t] = ran[t] + 1
    <3>1. InFlight(t)' = InFlight(t) + 1
      BY <1>1, <2>2 DEF InFlight, TypeOK
    <3>2. QED
      BY <1>1, <2>1, <3>1, LambdaAdded, LambdasFinite DEF RunningCovers, TypeOK
  <2>3. CASE ran'[t] = ran[t]
    <3>1. InFlight(t)' = InFlight(t)
      BY <1>1, <2>3 DEF InFlight
    <3>2. InFlightOfGraph' = InFlightOfGraph
      BY <2>1, <3>1, LambdasKept
    <3>3. QED
      BY <1>1, <3>2, LambdasFinite DEF RunningCovers, TypeOK
  <2>4. QED
    BY <1>4, <2>2, <2>3
<1>6. ~fresh
  BY <1>1 DEF IdleInv
<1>7. ASSUME clean
      PROVE  /\ Phase(t)' /\ Released(t)' /\ ~Ended(t) /\ ~Ended(t)'
             /\ status[t] # "completed" /\ epc \notin {"count", "clear"}
  <2>1. Phase(t) /\ Released(t)
    BY <1>1, <1>7, ActiveTask
  <2>2. Untouched(t)
    BY <1>1, <2>1 DEF Phase
  <2>3. Phase(t)' /\ ~Ended(t) /\ ~Ended(t)' /\ status[t] # "completed"
    BY <1>1, <1>4, <2>2 DEF Phase, Untouched, Ended
  <2>4. Released(t)'
    <3>1. \A d \in Dependencies(t) : status[d] = "completed"
      BY <1>1, <2>1 DEF Released
    <3>2. t \notin Dependencies(t)
      BY <2>3, <3>1
    <3>3. Dependencies(t)' = Dependencies(t) /\ Dependencies(t) \subseteq Tasks
      BY <1>1 DEF Dependencies
    <3>4. QED
      BY <1>4, <3>1, <3>2, <3>3 DEF Released
  <2>5. QED
    BY <1>1, <2>3, <2>4
<1>8. QED
  BY <1>1, <1>2, <1>3, <1>4, <1>5, <1>6, <1>7, TaskStepInv

\* mark_completed, on the client's thread or on the pool's.
LEMMA MarkInv ==
    ASSUME ExecutorInv, NEW t \in Tasks, ProcessInlineMark(t) \/ LambdaMark(t)
    PROVE  ExecutorInv'
<1> USE DEF ExecutorInv
<1>1. /\ ran[t] > 0 /\ ran' = [ran EXCEPT ![t] = @ - 1]
      /\ running_tasks' = running_tasks \ {t} /\ completed_tasks' = completed_tasks \cup {t}
      /\ running' = running - 1 /\ completed' = completed + 1
      /\ UNCHANGED <<edges, pooled, fresh, clean, status, cancelled, ready, result, calls,
                     queued, stale, runs>>
      /\ epc' = epc \/ (epc = "mark" /\ epc' = "process")
  BY DEF ProcessInlineMark, LambdaMark, MarkCompleted, graph
<1>2. /\ ran'[t] = ran[t] - 1 /\ ran[t] \in Nat
      /\ \A u \in Tasks : u # t => ran'[u] = ran[u]
  BY <1>1 DEF TypeOK
<1>3. RunningCovers' /\ running' \in Nat
  <2>1. /\ InFlight(t) > 0 /\ InFlight(t)' = InFlight(t) - 1
        /\ \A u \in Tasks : u # t => InFlight(u)' = InFlight(u)
    BY <1>1, <1>2 DEF InFlight, TypeOK
  <2>2. InFlightOfGraph' = InFlightOfGraph - 1
    BY <2>1, LambdaEnded
  <2>3. InFlight(t) \in Nat /\ <<t, 1>> \in LambdasOfGraph
    BY <2>1, LambdasAre DEF InFlight, TypeOK
  <2>4. InFlightOfGraph # 0 /\ InFlightOfGraph \in Nat
    BY <2>3, LambdasFinite, FS_EmptySet DEF InFlightOfGraph
  <2>5. QED
    BY <1>1, <2>2, <2>4 DEF RunningCovers, TypeOK
<1>4. TypeOK'
  <2>1. ran' \in [Tasks -> Nat]
    BY <1>1, <1>2 DEF TypeOK
  <2>2. QED
    BY <1>1, <1>3, <2>1 DEF TypeOK, ExecuteSteps
<1>5. ~fresh
  BY <1>1 DEF IdleInv, Untouched
<1>6. ASSUME clean
      PROVE  /\ Phase(t)' /\ Released(t)' /\ ~Ended(t) /\ Ended(t)'
             /\ epc \notin {"count", "clear"}
  <2>1. Phase(t) /\ Released(t) /\ epc \notin {"count", "clear"}
    BY <1>1, <1>6, ActiveTask
  <2>2. queued[t] = 0 /\ runs[t] = 1 /\ ran[t] = 1 /\ status[t] # "pending"
    BY <1>1, <2>1 DEF Phase, Untouched, Ended
  <2>3. Phase(t)' /\ ~Ended(t) /\ Ended(t)'
    BY <1>1, <1>2, <2>2 DEF Phase, Ended
  <2>4. Released(t)'
    BY <1>1, <2>1 DEF Released, Dependencies
  <2>5. QED
    BY <2>1, <2>3, <2>4
<1>7. QED
  BY <1>1, <1>2, <1>3, <1>4, <1>5, <1>6, TaskStepInv

\* A function called on the pool returned.
LEMMA LambdaRunInv ==
    ASSUME ExecutorInv, NEW t \in Tasks, LambdaRun(t)
    PROVE  ExecutorInv'
<1> USE DEF ExecutorInv
<1>1. /\ queued[t] > 0 /\ runs' = [runs EXCEPT ![t] = @ + 1]
      /\ queued' = [queued EXCEPT ![t] = @ - 1] /\ ran' = [ran EXCEPT ![t] = @ + 1]
      /\ UNCHANGED <<edges, pooled, fresh, clean, running_tasks, completed_tasks, running,
                     completed, cancelled, epc, ready, result, calls, stale>>
  BY DEF LambdaRun, RunFunction, graph, sets
<1>2. PICK s \in {"completed", "failed"} : status' = [status EXCEPT ![t] = s]
  BY DEF LambdaRun, RunFunction
<1>3. /\ queued'[t] = queued[t] - 1 /\ ran'[t] = ran[t] + 1 /\ runs'[t] = runs[t] + 1
      /\ status'[t] = s
      /\ \A u \in Tasks : u # t => /\ queued'[u] = queued[u] /\ ran'[u] = ran[u]
                                  /\ runs'[u] = runs[u] /\ status'[u] = status[u]
  BY <1>1, <1>2 DEF TypeOK
<1>4. TypeOK'
  <2>1. /\ queued' \in [Tasks -> Nat] /\ ran' \in [Tasks -> Nat] /\ runs' \in [Tasks -> Nat]
    BY <1>1 DEF TypeOK
  <2>2. status' \in [Tasks -> Statuses]
    BY <1>2 DEF TypeOK, Statuses
  <2>3. UNCHANGED <<edges, pooled, fresh, clean, running_tasks, completed_tasks, running,
                    completed, cancelled, epc, ready, result, calls, stale>>
    BY <1>1
  <2>4. QED
    BY <2>1, <2>2, <2>3 DEF TypeOK
<1>5. RunningCovers'
  <2>1. \A u \in Tasks : InFlight(u)' = InFlight(u)
    BY <1>3 DEF InFlight, TypeOK
  <2>2. QED
    BY <1>1, <2>1, LambdasKept DEF RunningCovers
<1>6. ~fresh
  BY <1>1 DEF IdleInv, Untouched
<1>7. ASSUME clean
      PROVE  /\ Phase(t)' /\ Released(t)' /\ ~Ended(t) /\ ~Ended(t)'
             /\ status[t] # "completed" /\ epc \notin {"count", "clear"}
  <2>1. Phase(t) /\ Released(t) /\ epc \notin {"count", "clear"}
    BY <1>1, <1>7, ActiveTask
  <2>2. /\ queued[t] = 1 /\ runs[t] = 0 /\ ran[t] = 0 /\ status[t] = "pending"
        /\ t \in running_tasks
    BY <1>1, <2>1 DEF Phase, Untouched, Ended
  <2>3. Phase(t)' /\ ~Ended(t) /\ ~Ended(t)' /\ status[t] # "completed"
    BY <1>1, <1>3, <2>2 DEF Phase, Ended
  <2>4. Released(t)'
    <3>1. \A d \in Dependencies(t) : status[d] = "completed"
      BY <1>1, <2>1 DEF Released
    <3>2. t \notin Dependencies(t)
      BY <2>3, <3>1
    <3>3. Dependencies(t)' = Dependencies(t) /\ Dependencies(t) \subseteq Tasks
      BY <1>1 DEF Dependencies
    <3>4. QED
      BY <1>3, <3>1, <3>2, <3>3 DEF Released
  <2>5. QED
    BY <2>1, <2>3, <2>4
<1>8. QED
  BY <1>1, <1>3, <1>4, <1>5, <1>6, <1>7, TaskStepInv

\* A function called on the pool threw what nobody catches.
LEMMA LambdaThrowInv ==
    ASSUME ExecutorInv, NEW t \in Tasks, LambdaThrow(t)
    PROVE  ExecutorInv'
<1> USE DEF ExecutorInv
<1>1. /\ queued[t] > 0 /\ runs' = [runs EXCEPT ![t] = @ + 1]
      /\ queued' = [queued EXCEPT ![t] = @ - 1]
      /\ UNCHANGED <<edges, pooled, fresh, clean, status, running_tasks, completed_tasks, running,
                     completed, cancelled, epc, ready, result, calls, ran, stale>>
  BY DEF LambdaThrow, graph, sets
<1>2. /\ queued'[t] = queued[t] - 1 /\ runs'[t] = runs[t] + 1
      /\ \A u \in Tasks : u # t => queued'[u] = queued[u] /\ runs'[u] = runs[u]
  BY <1>1 DEF TypeOK
<1>3. TypeOK'
  BY <1>1 DEF TypeOK
<1>4. RunningCovers'
  <2>1. /\ InFlight(t) > 0 /\ InFlight(t)' = InFlight(t) - 1
        /\ \A u \in Tasks : u # t => InFlight(u)' = InFlight(u)
    BY <1>1, <1>2 DEF InFlight, TypeOK
  <2>2. InFlightOfGraph' = InFlightOfGraph - 1
    BY <2>1, LambdaEnded
  <2>3. QED
    BY <1>1, <2>2, LambdasFinite DEF RunningCovers, TypeOK
<1>5. ~fresh
  BY <1>1 DEF IdleInv, Untouched
<1>6. ASSUME clean
      PROVE  /\ Phase(t)' /\ Released(t)' /\ ~Ended(t) /\ ~Ended(t)'
             /\ epc \notin {"count", "clear"}
  <2>1. Phase(t) /\ Released(t) /\ epc \notin {"count", "clear"}
    BY <1>1, <1>6, ActiveTask
  <2>2. /\ queued[t] = 1 /\ runs[t] = 0 /\ ran[t] = 0 /\ status[t] = "pending"
        /\ t \in running_tasks
    BY <1>1, <2>1 DEF Phase, Untouched, Ended
  <2>3. Phase(t)' /\ ~Ended(t) /\ ~Ended(t)'
    BY <1>1, <1>2, <2>2 DEF Phase, Ended
  <2>4. Released(t)'
    BY <1>1, <2>1 DEF Released, Dependencies
  <2>5. QED
    BY <2>1, <2>3, <2>4
<1>7. QED
  BY <1>1, <1>2, <1>3, <1>4, <1>5, <1>6, TaskStepInv

-----------------------------------------------------------------------------
(* The theorems *)

\* The lambdas of the old graph become stale, none is lost from the count.
LEMMA NewGraphInv ==
    ASSUME ExecutorInv, NewGraph
    PROVE  ExecutorInv'
<1> USE DEF ExecutorInv
<1>1. /\ epc = "idle" /\ ~fresh /\ edges' \in Graphs /\ fresh' = TRUE
      /\ status' = [t \in Tasks |-> "pending"]
      /\ queued' = Zero /\ ran' = Zero /\ runs' = Zero
      /\ stale' = stale + InFlightOfGraph /\ result' = "none"
      /\ UNCHANGED <<pooled, clean, running_tasks, completed_tasks, running, completed, cancelled,
                     epc, ready, calls>>
  BY DEF NewGraph, sets
<1>2. TypeOK'
  BY <1>1, LambdasFinite DEF TypeOK, Zero, Statuses, Results
<1>3. RunningCovers'
  <2>1. \A u \in Tasks : InFlight(u)' = 0
    BY <1>1 DEF InFlight, Zero
  <2>2. InFlightOfGraph' = 0
    <3>1. LambdasOfGraph' = {}
      BY <2>1 DEF LambdasOfGraph
    <3>2. QED
      BY <3>1, FS_EmptySet DEF InFlightOfGraph
  <2>3. QED
    BY <1>1, <2>2, LambdasFinite DEF RunningCovers, TypeOK
<1>4. \A t \in Tasks : Untouched(t)'
  BY <1>1 DEF Untouched, Zero
<1>5. IdleInv' /\ StartInv' /\ CleanInv' /\ ReturnInv' /\ WorkInv'
  BY <1>1, <1>4 DEF IdleInv, StartInv, CleanInv, ReturnInv, WorkInv
<1>6. QED
  BY <1>2, <1>3, <1>5

LEMMA ExecutorInvInit ==
    ASSUME Init
    PROVE  ExecutorInv
<1>1. TypeOK
  <2>1. /\ queued \in [Tasks -> Nat] /\ ran \in [Tasks -> Nat] /\ runs \in [Tasks -> Nat]
        /\ status \in [Tasks -> Statuses]
    BY DEF Init, Zero, Statuses
  <2>2. calls \in 0 .. MaxCalls /\ running \in Nat /\ completed \in Nat /\ stale \in Nat
    BY ExecutorAssumption DEF Init
  <2>3. /\ epc \in ExecuteSteps /\ result \in Results /\ ready \subseteq Tasks
        /\ running_tasks \subseteq Tasks /\ completed_tasks \subseteq Tasks
    BY DEF Init, ExecuteSteps, Results
  <2>4. /\ edges \in Graphs /\ pooled \in BOOLEAN /\ fresh \in BOOLEAN /\ clean \in BOOLEAN
        /\ cancelled \in BOOLEAN
    BY DEF Init
  <2>5. QED
    BY <2>1, <2>2, <2>3, <2>4 DEF TypeOK
<1>2. \A t \in Tasks : Untouched(t) /\ InFlight(t) = 0
  BY DEF Init, Untouched, InFlight, Zero
<1>3. InFlightOfGraph = 0
  BY <1>2, NoLambdas
<1>4. RunningCovers
  BY <1>3 DEF Init, RunningCovers
<1>5. IdleInv /\ StartInv /\ CleanInv /\ ReturnInv /\ WorkInv
  BY <1>2 DEF Init, IdleInv, StartInv, CleanInv, ReturnInv, WorkInv
<1>6. QED
  BY <1>1, <1>4, <1>5 DEF ExecutorInv

LEMMA StutterInv ==
    ASSUME ExecutorInv, UNCHANGED vars
    PROVE  ExecutorInv'
<1> USE DEF ExecutorInv
<1>1. UNCHANGED <<edges, pooled, status, running_tasks, completed_tasks, running, completed,
                  cancelled, epc, ready, result, calls, fresh, clean, queued, ran, stale, runs>>
  BY DEF vars
<1>2. UNCHANGED work
  BY <1>1 DEF work
<1>3. TypeOK'
  BY <1>1 DEF TypeOK
<1>4. RunningCovers'
  BY <1>1, <1>2, WorkKept DEF RunningCovers
<1>5. IdleInv' /\ StartInv' /\ CleanInv' /\ ReturnInv' /\ WorkInv'
  BY <1>1, <1>2, WorkKept DEF IdleInv, StartInv, CleanInv, ReturnInv, WorkInv
<1>6. QED
  BY <1>3, <1>4, <1>5

LEMMA ExecutorInvStep ==
    ASSUME ExecutorInv, [Next]_vars
    PROVE  ExecutorInv'
<1>1. CASE ExecuteCall
  BY <1>1, CallInv
<1>2. CASE Execute
  BY <1>2, ResetCountInv, ClearInv, LoopInv, ReturnStepInv, StillInv, DispatchInv, InlineInv,
     MarkInv DEF Execute
<1>3. CASE \E t \in Tasks : Lambda(t)
  BY <1>3, LambdaRunInv, LambdaThrowInv, MarkInv DEF Lambda
<1>4. CASE StaleMark \/ StaleThrow
  BY <1>4, StaleInv
<1>5. CASE Cancel
  BY <1>5, StillInv
<1>6. CASE NewGraph
  BY <1>6, NewGraphInv
<1>7. CASE UNCHANGED vars
  BY <1>7, StutterInv
<1>8. QED
  BY <1>1, <1>2, <1>3, <1>4, <1>5, <1>6, <1>7 DEF Next

\* Every reachable state satisfies the inductive invariant.
THEOREM ExecutorSafe == Spec => []ExecutorInv
<1>1. Init => ExecutorInv
  BY ExecutorInvInit
<1>2. ExecutorInv /\ [Next]_vars => ExecutorInv'
  BY ExecutorInvStep
<1>3. QED
  BY <1>1, <1>2, PTL DEF Spec

\* All variables keep their types; in particular running_, which is unsigned
\* and decremented by lambdas of any call, never goes below zero.
THEOREM ExecutorTypeOK == Spec => []TypeOK
<1>1. ExecutorInv => TypeOK
  BY DEF ExecutorInv
<1>2. QED
  BY <1>1, ExecutorSafe, PTL

\* running_ counts at least the lambdas that are on the pool.
THEOREM ExecutorRunningCovers == Spec => []RunningCovers
<1>1. ExecutorInv => RunningCovers
  BY DEF ExecutorInv
<1>2. QED
  BY <1>1, ExecutorSafe, PTL

\* What a clean call says of each task, whatever execute is doing.
LEMMA CleanTask ==
    ASSUME ExecutorInv, clean, NEW t \in Tasks
    PROVE  Untouched(t) \/ (~fresh /\ epc \notin {"count", "clear"} /\ Phase(t) /\ Released(t))
BY DEF ExecutorInv, IdleInv, StartInv, WorkInv

\* A clean call hands each task out at most once, for any graph.
THEOREM ExecutorRunsOnce == Spec => []RunsOnce
<1>1. ExecutorInv => RunsOnce
  BY CleanTask DEF RunsOnce, Phase, Untouched, Ended
<1>2. QED
  BY <1>1, ExecutorSafe, PTL

\* A clean call starts a task after the tasks it depends on, for any graph.
THEOREM ExecutorDependencyOrder == Spec => []DependencyOrder
<1>1. ASSUME ExecutorInv
      PROVE  DependencyOrder
  <2>1. SUFFICES ASSUME clean, NEW e \in edges, runs[e[2]] > 0
                 PROVE  status[e[1]] = "completed"
    BY DEF DependencyOrder
  <2>2. /\ e[1] \in Tasks /\ e[2] \in Tasks /\ e = <<e[1], e[2]>>
    BY <1>1, ExecutorAssumption DEF ExecutorInv, TypeOK
  <2>3. Released(e[2])
    BY <1>1, <2>1, <2>2, CleanTask DEF Untouched
  <2>4. e[1] \in Dependencies(e[2])
    BY <2>2 DEF Dependencies
  <2>5. QED
    BY <2>1, <2>3, <2>4 DEF Released
<1>2. QED
  BY <1>1, ExecutorSafe, PTL

\* An Ok from a clean call means that every task has been run and marked.
THEOREM ExecutorOkMeansAllRun == Spec => []OkMeansAllRun
<1>1. ExecutorInv => OkMeansAllRun
  <2>1. SUFFICES ASSUME ExecutorInv, clean, result = "ok"
                 PROVE  \A t \in Tasks : runs[t] = 1 /\ InFlight(t) = 0
    BY DEF OkMeansAllRun
  <2>2. EndedTasks = Tasks
    BY <2>1 DEF ExecutorInv, IdleInv, ReturnInv
  <2>3. QED
    BY <2>2 DEF EndedTasks, Ended, InFlight
<1>2. QED
  BY <1>1, ExecutorSafe, PTL

\* The counter that decides when execute returns is exact in a clean call.
THEOREM ExecutorCompletedExact == Spec => []CompletedExact
<1>1. ExecutorInv => CompletedExact
  <2>1. SUFFICES ASSUME ExecutorInv, clean, epc \in {"loop", "process", "mark", "return"}
                 PROVE  completed = Cardinality({t \in Tasks : /\ runs[t] = 1
                                                               /\ InFlight(t) = 0
                                                               /\ status[t] # "pending"})
    BY DEF CompletedExact
  <2>2. completed = Cardinality(EndedTasks)
    BY <2>1 DEF ExecutorInv, IdleInv, WorkInv
  <2>3. \A t \in Tasks : InFlight(t) = 0 <=> queued[t] = 0 /\ ran[t] = 0
    BY <2>1 DEF ExecutorInv, TypeOK, InFlight
  <2>4. EndedTasks = {t \in Tasks : /\ runs[t] = 1
                                    /\ InFlight(t) = 0
                                    /\ status[t] # "pending"}
    BY <2>3 DEF EndedTasks, Ended
  <2>5. QED
    BY <2>2, <2>4
<1>2. QED
  BY <1>1, ExecutorSafe, PTL
=============================================================================
