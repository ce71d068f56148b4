----------------------------- MODULE LegacyPool -----------------------------
(***************************************************************************)
(* LegacyThreadPool (bridges/thread_pool_bridge).  A worker pops under the *)
(* mutex and counts the task in active_ only after it has let go of it;    *)
(* done_cv_, Resume and Shutdown are notified without the mutex.  A step   *)
(* is one access to an atomic, one locked region or one notification.  The *)
(* mutex is held across steps only by a thread that is about to sleep.     *)
(***************************************************************************)
EXTENDS Integers, Sequences, FiniteSets, SequencesExt

CONSTANTS Clients,     \* threads that use the pool
          Owner,       \* the one that may call Resize and Shutdown
          LWorkers,    \* bound: threads ever started, 1, 2, ...
          MinThreads,  \* how many the constructor starts
          MaxLTasks    \* bound: tasks ever enqueued

ASSUME LegacyAssumption ==
  /\ LWorkers \subseteq Nat /\ IsFiniteSet(LWorkers)
  /\ MinThreads \in Nat /\ MaxLTasks \in Nat
  /\ Owner \in Clients

VARIABLES ltasks,      \* tasks_, a task being the number of its Enqueue
          lmade,       \* tasks enqueued so far
          lstop, lpause,
          lactive, lqueued, lcompleted,
          lmtx,        \* mtx_ is held by a thread about to sleep
          wpc, wtask,  \* each worker's place in WorkerLoop and its task
          cpc,         \* what each client is at
          lran,        \* history: tasks that have ended
          llate,       \* history: tasks enqueued after stop_ was set
          lgap         \* history: what WaitAll left running, and uncounted, at its last return

legacyVars == <<ltasks, lmade, lstop, lpause, lactive, lqueued, lcompleted, lmtx, wpc, wtask,
                cpc, lran, llate, lgap>>

LegacyInit ==
  /\ ltasks = <<>> /\ lmade = 0
  /\ lstop = FALSE /\ lpause = FALSE
  /\ lactive = 0 /\ lqueued = 0 /\ lcompleted = 0
  /\ lmtx = FALSE
  /\ wpc = [w \in LWorkers |-> IF w <= MinThreads THEN "top" ELSE "none"]
  /\ wtask = [w \in LWorkers |-> 0]
  /\ cpc = [c \in Clients |-> "idle"]
  /\ lran = {} /\ llate = {}
  /\ lgap = [running |-> {}, uncounted |-> {}]

Quiet == UNCHANGED <<lran, llate, lgap>>

-----------------------------------------------------------------------------
(* WorkerLoop                                                              *)

Woken(w) == wpc[w] = "top" /\ ~lmtx

WorkerReturn(w) ==
  /\ Woken(w) /\ lstop /\ ltasks = <<>>
  /\ wpc' = [wpc EXCEPT ![w] = "joinable"]
  /\ UNCHANGED <<ltasks, lmade, lstop, lpause, lactive, lqueued, lcompleted, lmtx, wtask, cpc>>
  /\ Quiet

\* pause_ wakes workers and does not keep them from the queue.
WorkerPop(w) ==
  /\ Woken(w) /\ ltasks # <<>>
  /\ wtask' = [wtask EXCEPT ![w] = Head(ltasks)]
  /\ ltasks' = Tail(ltasks)
  /\ wpc' = [wpc EXCEPT ![w] = "popped"]
  /\ UNCHANGED <<lmade, lstop, lpause, lactive, lqueued, lcompleted, lmtx, cpc>>
  /\ Quiet

\* cv_.wait: the predicate is false with the mutex held, and then the worker sleeps
\* and releases it.  A paused worker finds it true and goes round the loop.
WorkerWait(w) ==
  /\ \/ /\ Woken(w) /\ ~lstop /\ ~lpause /\ ltasks = <<>>
        /\ wpc' = [wpc EXCEPT ![w] = "tosleep"]
        /\ lmtx' = TRUE
     \/ /\ wpc[w] = "tosleep"
        /\ wpc' = [wpc EXCEPT ![w] = "asleep"]
        /\ lmtx' = FALSE
  /\ UNCHANGED <<ltasks, lmade, lstop, lpause, lactive, lqueued, lcompleted, wtask, cpc>>
  /\ Quiet

Goes(w, from, to) == wpc[w] = from /\ wpc' = [wpc EXCEPT ![w] = to]

\* The atomics around task(), in the code's order; the last of them with the
\* notification of done_cv_ still to come.
WorkerRun(w) ==
  /\ \/ /\ Goes(w, "popped", "active")
        /\ lactive' = lactive + 1
        /\ UNCHANGED <<lqueued, lcompleted, lran, wtask>>
     \/ /\ Goes(w, "active", "running")
        /\ lqueued' = lqueued - 1
        /\ UNCHANGED <<lactive, lcompleted, lran, wtask>>
     \/ /\ Goes(w, "running", "ran")
        /\ lran' = lran \cup {wtask[w]}
        /\ UNCHANGED <<lactive, lqueued, lcompleted, wtask>>
     \/ /\ Goes(w, "ran", "completed")
        /\ lcompleted' = lcompleted + 1
        /\ UNCHANGED <<lactive, lqueued, lran, wtask>>
     \/ /\ Goes(w, "completed", "done")
        /\ lactive' = lactive - 1
        /\ wtask' = [wtask EXCEPT ![w] = 0]
        /\ UNCHANGED <<lqueued, lcompleted, lran>>
  /\ UNCHANGED <<ltasks, lmade, lstop, lpause, lmtx, cpc, llate, lgap>>

\* done_cv_.notify_all reaches the clients that sleep by now.
WorkerNotify(w) ==
  /\ Goes(w, "done", "top")
  /\ cpc' = [c \in Clients |-> IF cpc[c] = "asleep" THEN "waiting" ELSE cpc[c]]
  /\ UNCHANGED <<ltasks, lmade, lstop, lpause, lactive, lqueued, lcompleted, lmtx, wtask>>
  /\ Quiet

-----------------------------------------------------------------------------
(* Clients                                                                 *)

Asleep == {w \in LWorkers : wpc[w] = "asleep"}

WakeAll == wpc' = [w \in LWorkers |-> IF w \in Asleep THEN "top" ELSE wpc[w]]

Enqueue(c) ==
  /\ cpc[c] = "idle" /\ ~lmtx /\ lmade < MaxLTasks
  /\ lmade' = lmade + 1
  /\ ltasks' = Append(ltasks, lmade + 1)
  /\ lqueued' = lqueued + 1
  /\ llate' = IF lstop THEN llate \cup {lmade + 1} ELSE llate
  /\ cpc' = [cpc EXCEPT ![c] = "notify"]
  /\ UNCHANGED <<lstop, lpause, lactive, lcompleted, lmtx, wpc, wtask, lran, lgap>>

EnqueueNotify(c) ==
  /\ cpc[c] = "notify"
  /\ cpc' = [cpc EXCEPT ![c] = "idle"]
  /\ IF Asleep = {} THEN UNCHANGED wpc
     ELSE \E w \in Asleep : wpc' = [wpc EXCEPT ![w] = "top"]
  /\ UNCHANGED <<ltasks, lmade, lstop, lpause, lactive, lqueued, lcompleted, lmtx, wtask>>
  /\ Quiet

\* Mutant: WaitAll's predicate forgets active_.
WaitAllQueueOnly(c) ==
  /\ cpc[c] \in {"idle", "waiting"} /\ ~lmtx /\ ltasks = <<>>
  /\ cpc' = [cpc EXCEPT ![c] = "idle"]
  /\ lgap' = [running |-> (1..lmade) \ lran,
              uncounted |-> {wtask[w] : w \in {v \in LWorkers : wpc[v] = "popped"}}]
  /\ UNCHANGED <<ltasks, lmade, lstop, lpause, lactive, lqueued, lcompleted, lmtx, wpc, wtask, lran, llate>>

\* WaitAll, entered or woken, with its predicate true.
WaitAllReturn(c) ==
  /\ cpc[c] \in {"idle", "waiting"} /\ ~lmtx
  /\ ltasks = <<>> /\ lactive = 0
  /\ cpc' = [cpc EXCEPT ![c] = "idle"]
  /\ lgap' = [running |-> (1..lmade) \ lran,
              uncounted |-> {wtask[w] : w \in {v \in LWorkers : wpc[v] = "popped"}}]
  /\ UNCHANGED <<ltasks, lmade, lstop, lpause, lactive, lqueued, lcompleted, lmtx, wpc, wtask, lran, llate>>

WaitAllSleep(c) ==
  /\ \/ /\ cpc[c] \in {"idle", "waiting"} /\ ~lmtx
        /\ ltasks # <<>> \/ lactive # 0
        /\ cpc' = [cpc EXCEPT ![c] = "tosleep"]
        /\ lmtx' = TRUE
     \/ /\ cpc[c] = "tosleep"
        /\ cpc' = [cpc EXCEPT ![c] = "asleep"]
        /\ lmtx' = FALSE
  /\ UNCHANGED <<ltasks, lmade, lstop, lpause, lactive, lqueued, lcompleted, wpc, wtask>>
  /\ Quiet

Pause(c) ==
  /\ cpc[c] = "idle" /\ ~lpause
  /\ lpause' = TRUE
  /\ UNCHANGED <<ltasks, lmade, lstop, lactive, lqueued, lcompleted, lmtx, wpc, wtask, cpc>>
  /\ Quiet

Resume(c) ==
  /\ \/ /\ cpc[c] = "idle" /\ lpause
        /\ lpause' = FALSE
        /\ cpc' = [cpc EXCEPT ![c] = "resumed"]
        /\ UNCHANGED wpc
     \/ /\ cpc[c] = "resumed"
        /\ cpc' = [cpc EXCEPT ![c] = "idle"]
        /\ WakeAll
        /\ UNCHANGED lpause
  /\ UNCHANGED <<ltasks, lmade, lstop, lactive, lqueued, lcompleted, lmtx, wtask>>
  /\ Quiet

\* Resize(n) starts n more workers, after a Shutdown too.
Resize ==
  /\ cpc[Owner] = "idle"
  /\ \E w \in LWorkers :
       /\ wpc[w] = "none" /\ \A v \in LWorkers : wpc[v] = "none" => w <= v
       /\ wpc' = [wpc EXCEPT ![w] = "top"]
  /\ UNCHANGED <<ltasks, lmade, lstop, lpause, lactive, lqueued, lcompleted, lmtx, wtask, cpc>>
  /\ Quiet

\* Shutdown sets stop_, notifies, joins every worker and forgets them.
Shutdown ==
  /\ \/ /\ cpc[Owner] = "idle"
        /\ lstop' = TRUE
        /\ cpc' = [cpc EXCEPT ![Owner] = "stopping"]
        /\ UNCHANGED wpc
     \/ /\ cpc[Owner] = "stopping"
        /\ cpc' = [cpc EXCEPT ![Owner] = "joining"]
        /\ WakeAll
        /\ UNCHANGED lstop
     \/ /\ cpc[Owner] = "joining"
        /\ \A w \in LWorkers : wpc[w] \in {"none", "joinable", "gone"}
        /\ cpc' = [cpc EXCEPT ![Owner] = "idle"]
        /\ wpc' = [w \in LWorkers |-> IF wpc[w] = "joinable" THEN "gone" ELSE wpc[w]]
        /\ UNCHANGED lstop
  /\ UNCHANGED <<ltasks, lmade, lpause, lactive, lqueued, lcompleted, lmtx, wtask>>
  /\ Quiet

\* A condition variable may wake a thread that nobody notified.
Spurious ==
  /\ \/ \E w \in LWorkers : Goes(w, "asleep", "top") /\ UNCHANGED cpc
     \/ \E c \in Clients : /\ cpc[c] = "asleep"
                            /\ cpc' = [cpc EXCEPT ![c] = "waiting"]
                            /\ UNCHANGED wpc
  /\ UNCHANGED <<ltasks, lmade, lstop, lpause, lactive, lqueued, lcompleted, lmtx, wtask>>
  /\ Quiet

LegacyNext ==
  \/ Resize \/ Shutdown \/ Spurious
  \/ \E w \in LWorkers : \/ WorkerReturn(w) \/ WorkerPop(w) \/ WorkerWait(w) \/ WorkerRun(w)
                         \/ WorkerNotify(w)
  \/ \E c \in Clients : \/ Enqueue(c) \/ EnqueueNotify(c) \/ WaitAllReturn(c) \/ WaitAllSleep(c)
                        \/ Pause(c) \/ Resume(c)

LegacySpec == LegacyInit /\ [][LegacyNext]_legacyVars

-----------------------------------------------------------------------------
In(places) == {w \in LWorkers : wpc[w] \in places}

\* WaitAll returns with a task unfinished only when that task was popped and not
\* yet counted in active_; no task is lost or run twice; once a Shutdown has
\* joined the workers, only tasks enqueued after stop_ was set remain; and the
\* counters a client reads say where the tasks are, though each is updated on
\* its own.
LegacySound ==
  /\ lgap.running \subseteq lgap.uncounted
  /\ ToSet(ltasks) \cap lran = {}
  /\ (1..lmade) \ (lran \cup ToSet(ltasks)) = {wtask[w] : w \in In({"popped", "active", "running"})}
  /\ lqueued = Len(ltasks) + Cardinality(In({"popped", "active"}))
  /\ lactive = Cardinality(In({"active", "running", "ran", "completed"}))
  /\ lcompleted + Cardinality(In({"ran"})) = Cardinality(lran)
  /\ In({"gone"}) # {} /\ In({"gone", "none"}) = LWorkers => ToSet(ltasks) \subseteq llate
=============================================================================
