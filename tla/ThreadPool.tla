----------------------------- MODULE ThreadPool -----------------------------
(***************************************************************************)
(* sci::ThreadPool (include/scheduler/thread_pool.hpp,                     *)
(* src/scheduler/thread_pool.cpp).                                         *)
(*                                                                         *)
(* mtx_ guards tasks_; stop_, pause_ and the three counters are atomics    *)
(* that are also written without it.  condition_variable::wait(lock, pred) *)
(* is split into evaluating the predicate and blocking, with mtx_ held in  *)
(* between: a notification sent in that gap finds nobody to wake.  A       *)
(* blocked thread has pc "waiting"; being notified sends it back to        *)
(* "acquire" the mutex and evaluate the predicate again.                   *)
(*                                                                         *)
(* Each task is submitted once, by a client or by another task.  One       *)
(* owner pauses, resumes, resizes and finally destroys the pool; it does   *)
(* so only after every wait_all has returned.                              *)
(***************************************************************************)
EXTENDS Integers, Sequences, FiniteSets

CONSTANTS Workers,      \* thread identities, used or not
          InitialSize,  \* how many of them the constructor starts
          Tasks,        \* what clients enqueue
          Waiters,      \* the threads that call wait_all, once each
          Nobody,       \* no thread holds mtx_
          NoTask        \* a worker without a task

ASSUME PoolAssumption ==
    /\ IsFiniteSet(Workers)
    /\ InitialSize \in 0 .. Cardinality(Workers)
    /\ Nobody \notin Workers \cup Waiters
    /\ Workers \cap Waiters = {}
    /\ NoTask \notin Tasks

VARIABLES mtx,        \* the thread that holds mtx_
          tasks,      \* tasks_
          stop, pause,
          active, queued, completed,
          pc,         \* worker_loop: what each worker does next
          held,       \* the task each worker has taken
          wpc,        \* wait_all: what each caller does next
          sub,        \* enqueue: how far the submission of each task is
          ctl,        \* the owner
          ran         \* how often each task's function was called

shared == <<mtx, tasks, stop, pause, active, queued, completed>>
vars == <<mtx, tasks, stop, pause, active, queued, completed,
          pc, held, wpc, sub, ctl, ran>>

WorkerSteps == {"unborn", "acquire", "check", "block", "waiting", "run",
                "decrement", "count", "notify", "exited"}
WaiterSteps == {"idle", "acquire", "check", "block", "waiting", "returned"}
SubmitSteps == {"new", "notify", "done", "thrown"}
OwnerSteps  == {"idle", "resumed", "stopping", "joining", "joined"}

Born == {w \in Workers : pc[w] # "unborn"}

\* start(n): every new thread enters worker_loop
Started(old, n) ==
    {new \in SUBSET Workers : old \subseteq new /\ Cardinality(new) = n}

Init ==
    /\ mtx = Nobody
    /\ tasks = << >>
    /\ stop = FALSE /\ pause = FALSE
    /\ active = 0 /\ queued = 0 /\ completed = 0
    /\ \E new \in Started({}, InitialSize) :
          pc = [w \in Workers |-> IF w \in new THEN "acquire" ELSE "unborn"]
    /\ held = [w \in Workers |-> NoTask]
    /\ wpc = [c \in Waiters |-> "idle"]
    /\ sub = [t \in Tasks |-> "new"]
    /\ ctl = "idle"
    /\ ran = [t \in Tasks |-> 0]

-----------------------------------------------------------------------------
(* enqueue *)

\* notify_one on cv_: some blocked worker, if there is one, is woken.
WakeOne ==
    IF \E w \in Workers : pc[w] = "waiting"
    THEN \E w \in Workers : /\ pc[w] = "waiting"
                            /\ pc' = [pc EXCEPT ![w] = "acquire"]
    ELSE UNCHANGED pc

\* notify_all on cv_
WakeAll ==
    pc' = [w \in Workers |-> IF pc[w] = "waiting" THEN "acquire" ELSE pc[w]]

\* The block that holds mtx_: throw after stop, otherwise queue the task.
Enqueue(t) ==
    /\ sub[t] = "new"
    /\ ctl # "joined"
    /\ mtx = Nobody
    /\ \/ /\ stop
          /\ sub' = [sub EXCEPT ![t] = "thrown"]
          /\ UNCHANGED <<tasks, queued>>
       \/ /\ ~stop
          /\ tasks' = Append(tasks, t)
          /\ queued' = queued + 1
          /\ sub' = [sub EXCEPT ![t] = "notify"]
    /\ UNCHANGED <<mtx, stop, pause, active, completed, pc, held, wpc, ctl, ran>>

\* Mutant: the notification is forgotten.
EnqueueNotifyNobody(t) ==
    /\ sub[t] = "notify"
    /\ sub' = [sub EXCEPT ![t] = "done"]
    /\ UNCHANGED <<shared, pc, held, wpc, ctl, ran>>

EnqueueNotify(t) ==
    /\ sub[t] = "notify"
    /\ sub' = [sub EXCEPT ![t] = "done"]
    /\ WakeOne
    /\ UNCHANGED <<shared, held, wpc, ctl, ran>>

-----------------------------------------------------------------------------
(* worker_loop *)

\* A condition variable may wake up although nobody notified it.
WorkerSpurious(w) ==
    /\ pc[w] = "waiting"
    /\ pc' = [pc EXCEPT ![w] = "acquire"]
    /\ UNCHANGED <<shared, held, wpc, sub, ctl, ran>>

WorkerAcquire(w) ==
    /\ pc[w] = "acquire"
    /\ mtx = Nobody
    /\ mtx' = w
    /\ pc' = [pc EXCEPT ![w] = "check"]
    /\ UNCHANGED <<tasks, stop, pause, active, queued, completed,
                   held, wpc, sub, ctl, ran>>

Runnable == stop \/ (~pause /\ tasks # << >>)

WorkerPredicateFalse(w) ==
    /\ pc[w] = "check"
    /\ ~Runnable
    /\ pc' = [pc EXCEPT ![w] = "block"]
    /\ UNCHANGED <<shared, held, wpc, sub, ctl, ran>>

WorkerBlock(w) ==
    /\ pc[w] = "block"
    /\ mtx' = Nobody
    /\ pc' = [pc EXCEPT ![w] = "waiting"]
    /\ UNCHANGED <<tasks, stop, pause, active, queued, completed,
                   held, wpc, sub, ctl, ran>>

\* Mutant: a stopped worker leaves although tasks are queued.
WorkerExitEarly(w) ==
    /\ pc[w] = "check"
    /\ stop
    /\ mtx' = Nobody
    /\ pc' = [pc EXCEPT ![w] = "exited"]
    /\ UNCHANGED <<tasks, stop, pause, active, queued, completed,
                   held, wpc, sub, ctl, ran>>

WorkerExit(w) ==
    /\ pc[w] = "check"
    /\ stop /\ tasks = << >>
    /\ mtx' = Nobody
    /\ pc' = [pc EXCEPT ![w] = "exited"]
    /\ UNCHANGED <<tasks, stop, pause, active, queued, completed,
                   held, wpc, sub, ctl, ran>>

\* Mutant: the task stays in the queue.
WorkerTakeNoPop(w) ==
    /\ pc[w] = "check"
    /\ Runnable
    /\ tasks # << >>
    /\ held' = [held EXCEPT ![w] = Head(tasks)]
    /\ queued' = queued - 1
    /\ active' = active + 1
    /\ mtx' = Nobody
    /\ pc' = [pc EXCEPT ![w] = "run"]
    /\ UNCHANGED <<tasks, stop, pause, completed, wpc, sub, ctl, ran>>

\* Mutant: active_ is raised by the thread that runs the task, after mtx_ is
\* released (here: not visible to wait_all in between).
WorkerTakeUncounted(w) ==
    /\ pc[w] = "check"
    /\ Runnable
    /\ tasks # << >>
    /\ held' = [held EXCEPT ![w] = Head(tasks)]
    /\ tasks' = Tail(tasks)
    /\ queued' = queued - 1
    /\ mtx' = Nobody
    /\ pc' = [pc EXCEPT ![w] = "run"]
    /\ UNCHANGED <<stop, pause, active, completed, wpc, sub, ctl, ran>>

WorkerTake(w) ==
    /\ pc[w] = "check"
    /\ Runnable
    /\ tasks # << >>
    /\ held' = [held EXCEPT ![w] = Head(tasks)]
    /\ tasks' = Tail(tasks)
    /\ queued' = queued - 1
    /\ active' = active + 1
    /\ mtx' = Nobody
    /\ pc' = [pc EXCEPT ![w] = "run"]
    /\ UNCHANGED <<stop, pause, completed, wpc, sub, ctl, ran>>

\* task->run(); whatever it throws is caught here or kept in the future.
WorkerRun(w) ==
    /\ pc[w] = "run"
    /\ ran' = [ran EXCEPT ![held[w]] = @ + 1]
    /\ held' = [held EXCEPT ![w] = NoTask]
    /\ pc' = [pc EXCEPT ![w] = "decrement"]
    /\ UNCHANGED <<shared, wpc, sub, ctl>>

WorkerDecrement(w) ==
    /\ pc[w] = "decrement"
    /\ active' = active - 1
    /\ pc' = [pc EXCEPT ![w] = "count"]
    /\ UNCHANGED <<mtx, tasks, stop, pause, queued, completed,
                   held, wpc, sub, ctl, ran>>

\* Mutant: completed_ is a plain store of a value read before.
WorkerCountStale(w) ==
    /\ pc[w] = "count"
    /\ completed' = 1
    /\ pc' = [pc EXCEPT ![w] = "notify"]
    /\ UNCHANGED <<mtx, tasks, stop, pause, active, queued,
                   held, wpc, sub, ctl, ran>>

WorkerCount(w) ==
    /\ pc[w] = "count"
    /\ completed' = completed + 1
    /\ pc' = [pc EXCEPT ![w] = "notify"]
    /\ UNCHANGED <<mtx, tasks, stop, pause, active, queued,
                   held, wpc, sub, ctl, ran>>

\* done_cv_.notify_all()
WorkerNotify(w) ==
    /\ pc[w] = "notify"
    /\ pc' = [pc EXCEPT ![w] = "acquire"]
    /\ wpc' = [c \in Waiters |->
                  IF wpc[c] = "waiting" THEN "acquire" ELSE wpc[c]]
    /\ UNCHANGED <<shared, held, sub, ctl, ran>>

-----------------------------------------------------------------------------
(* wait_all *)

WaitCall(c) ==
    /\ wpc[c] = "idle"
    /\ ctl \in {"idle", "resumed"}
    /\ wpc' = [wpc EXCEPT ![c] = "acquire"]
    /\ UNCHANGED <<shared, pc, held, sub, ctl, ran>>

WaitSpurious(c) ==
    /\ wpc[c] = "waiting"
    /\ wpc' = [wpc EXCEPT ![c] = "acquire"]
    /\ UNCHANGED <<shared, pc, held, sub, ctl, ran>>

WaitAcquire(c) ==
    /\ wpc[c] = "acquire"
    /\ mtx = Nobody
    /\ mtx' = c
    /\ wpc' = [wpc EXCEPT ![c] = "check"]
    /\ UNCHANGED <<tasks, stop, pause, active, queued, completed,
                   pc, held, sub, ctl, ran>>

AllDone == tasks = << >> /\ active = 0

WaitPredicateFalse(c) ==
    /\ wpc[c] = "check"
    /\ ~AllDone
    /\ wpc' = [wpc EXCEPT ![c] = "block"]
    /\ UNCHANGED <<shared, pc, held, sub, ctl, ran>>

WaitBlock(c) ==
    /\ wpc[c] = "block"
    /\ mtx' = Nobody
    /\ wpc' = [wpc EXCEPT ![c] = "waiting"]
    /\ UNCHANGED <<tasks, stop, pause, active, queued, completed,
                   pc, held, sub, ctl, ran>>

WaitReturn(c) ==
    /\ wpc[c] = "check"
    /\ AllDone
    /\ mtx' = Nobody
    /\ wpc' = [wpc EXCEPT ![c] = "returned"]
    /\ UNCHANGED <<tasks, stop, pause, active, queued, completed,
                   pc, held, sub, ctl, ran>>

-----------------------------------------------------------------------------
(* The owner: pause, resume, resize and the destructor's shutdown *)

Pause ==
    /\ ctl = "idle"
    /\ pause' = TRUE
    /\ UNCHANGED <<mtx, tasks, stop, active, queued, completed,
                   pc, held, wpc, sub, ctl, ran>>

Resume ==
    /\ ctl = "idle"
    /\ pause' = FALSE
    /\ ctl' = "resumed"
    /\ UNCHANGED <<mtx, tasks, stop, active, queued, completed,
                   pc, held, wpc, sub, ran>>

ResumeNotify ==
    /\ ctl = "resumed"
    /\ WakeAll
    /\ ctl' = "idle"
    /\ UNCHANGED <<shared, held, wpc, sub, ran>>

\* resize never shrinks; n <= workers_.size() changes nothing.
Resize(n) ==
    /\ ctl = "idle"
    /\ mtx = Nobody
    /\ n > Cardinality(Born)
    /\ \E new \in Started(Born, n) :
          pc' = [w \in Workers |->
                    IF w \in new \ Born THEN "acquire" ELSE pc[w]]
    /\ UNCHANGED <<shared, held, wpc, sub, ctl, ran>>

Shutdown ==
    /\ ctl = "idle"
    /\ \A c \in Waiters : wpc[c] \in {"idle", "returned"}
    /\ stop' = TRUE
    /\ ctl' = "stopping"
    /\ UNCHANGED <<mtx, tasks, pause, active, queued, completed,
                   pc, held, wpc, sub, ran>>

ShutdownNotify ==
    /\ ctl = "stopping"
    /\ WakeAll
    /\ ctl' = "joining"
    /\ UNCHANGED <<shared, held, wpc, sub, ran>>

ShutdownJoin ==
    /\ ctl = "joining"
    /\ \A w \in Born : pc[w] = "exited"
    /\ ctl' = "joined"
    /\ UNCHANGED <<shared, pc, held, wpc, sub, ran>>

-----------------------------------------------------------------------------

\* What a worker does once it has the mutex or a task.
WorkerProceed(w) ==
    \/ WorkerPredicateFalse(w)
    \/ WorkerBlock(w)
    \/ WorkerExit(w)
    \/ WorkerTake(w)
    \/ WorkerRun(w)
    \/ WorkerDecrement(w)
    \/ WorkerCount(w)
    \/ WorkerNotify(w)

WaitProceed(c) ==
    \/ WaitPredicateFalse(c)
    \/ WaitBlock(c)
    \/ WaitReturn(c)

Next ==
    \/ \E t \in Tasks : Enqueue(t) \/ EnqueueNotify(t)
    \/ \E w \in Workers : WorkerAcquire(w) \/ WorkerSpurious(w) \/ WorkerProceed(w)
    \/ \E c \in Waiters : \/ WaitCall(c)
                          \/ WaitAcquire(c)
                          \/ WaitSpurious(c)
                          \/ WaitProceed(c)
    \/ Pause
    \/ Resume
    \/ ResumeNotify
    \/ \E n \in 1 .. Cardinality(Workers) : Resize(n)
    \/ Shutdown
    \/ ShutdownNotify
    \/ ShutdownJoin

Spec == Init /\ [][Next]_vars

\* Threads inside the pool's code keep running and no thread is denied the
\* mutex for ever; clients may stop calling at any time, and a spurious
\* wake-up can be waited for in vain.
FairSpec ==
    /\ Spec
    /\ \A t \in Tasks : WF_vars(EnqueueNotify(t))
    /\ \A w \in Workers : SF_vars(WorkerAcquire(w)) /\ WF_vars(WorkerProceed(w))
    /\ \A c \in Waiters : SF_vars(WaitAcquire(c)) /\ WF_vars(WaitProceed(c))
    /\ WF_vars(ResumeNotify)
    /\ WF_vars(ShutdownNotify)
    /\ WF_vars(ShutdownJoin)

-----------------------------------------------------------------------------
(* Properties *)

Accepted == {t \in Tasks : sub[t] \in {"notify", "done"}}

\* Types of all variables; the unsigned counters never wrap below zero.
TypeOK ==
    /\ mtx \in Workers \cup Waiters \cup {Nobody}
    /\ tasks \in Seq(Tasks)
    /\ stop \in BOOLEAN /\ pause \in BOOLEAN
    /\ active \in Nat /\ queued \in Nat /\ completed \in Nat
    /\ pc \in [Workers -> WorkerSteps]
    /\ held \in [Workers -> Tasks \cup {NoTask}]
    /\ wpc \in [Waiters -> WaiterSteps]
    /\ sub \in [Tasks -> SubmitSteps]
    /\ ctl \in OwnerSteps
    /\ ran \in [Tasks -> Nat]

\* Every accepted task is in exactly one place: once in tasks_, or with one
\* worker about to run it, or run once.  No interleaving of workers, resize
\* and shutdown loses a task or runs it twice.
TaskConserved ==
    \A t \in Tasks :
        LET places == Cardinality({i \in DOMAIN tasks : tasks[i] = t})
                      + Cardinality({w \in Workers : held[w] = t})
                      + ran[t]
        IN  places = IF t \in Accepted THEN 1 ELSE 0

\* The atomics that are changed outside mtx_ stay exact: active_ counts the
\* workers between taking a task and reporting back, and completed_ counts
\* the finished tasks but for the workers just about to add theirs.
CountersExact ==
    /\ queued = Len(tasks)
    /\ active = Cardinality({w \in Workers : pc[w] \in {"run", "decrement"}})
    /\ completed = Cardinality({t \in Tasks : ran[t] > 0})
          - Cardinality({w \in Workers : pc[w] \in {"decrement", "count"}})

\* When wait_all returns, every task accepted so far has been run: it cannot
\* slip out between a worker taking the last task and raising active_.
WaitAllMeansRun ==
    [][\A c \in Waiters : wpc[c] = "check" /\ wpc'[c] = "returned"
          => \A t \in Accepted : ran[t] = 1]_vars

\* The destructor drains: once it has joined the workers, every accepted
\* task has been run, even those queued while the pool was paused.
JoinedMeansDrained ==
    ctl = "joined" /\ Born # {} => \A t \in Accepted : ran[t] = 1

\* While nobody pauses or stops the pool, a queued task is eventually run:
\* the push under mtx_ followed by notify_one loses no wake-up.
EveryTaskRuns ==
    [](~pause /\ ~stop /\ Born # {}) =>
        \A t \in Tasks : t \in Accepted ~> ran[t] = 1

\* The state a caller can observe after wait_all: the unit test of the pool
\* expects completed() to count every task that was run.
WaitAllMeansCounted ==
    [][\A c \in Waiters : wpc[c] = "check" /\ wpc'[c] = "returned"
          => completed = Cardinality(Accepted)]_vars

\* wait_all returns once the tasks are done and no new ones come.
WaitAllReturns ==
    \A c \in Waiters :
        [](~pause /\ ~stop /\ Born # {}) =>
            (wpc[c] = "acquire" ~> wpc[c] = "returned")
=============================================================================
