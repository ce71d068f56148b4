-------------------------- MODULE ThreadPoolProofs --------------------------
(***************************************************************************)
(* Safety of ThreadPool for any workers, tasks, callers of wait_all and    *)
(* initial size.                                                           *)
(***************************************************************************)
EXTENDS ThreadPool, FiniteSetTheorems, TLAPS

Busy == {w \in Workers : pc[w] \in {"run", "decrement"}}

Uncounted == {w \in Workers : pc[w] \in {"decrement", "count"}}

Finished == {t \in Tasks : ran[t] > 0}

\* Where tasks are, without counting: a worker holds a task exactly while it is
\* about to run it, the places exclude each other, and accepted tasks are
\* somewhere.
PlacesInv ==
    /\ \A w \in Workers : held[w] # NoTask <=> pc[w] = "run"
    /\ \A i, j \in 1 .. Len(tasks) : tasks[i] = tasks[j] => i = j
    /\ \A v, w \in Workers : held[v] = held[w] /\ held[v] # NoTask => v = w
    /\ \A i \in 1 .. Len(tasks) : \A w \in Workers : tasks[i] # held[w]
    /\ \A i \in 1 .. Len(tasks) : ran[tasks[i]] = 0 /\ tasks[i] \in Accepted
    /\ \A w \in Workers : held[w] # NoTask => ran[held[w]] = 0 /\ held[w] \in Accepted
    /\ \A t \in Tasks : ran[t] > 0 => ran[t] = 1 /\ t \in Accepted
    /\ \A t \in Accepted :
          \/ \E i \in 1 .. Len(tasks) : tasks[i] = t
          \/ \E w \in Workers : held[w] = t
          \/ ran[t] = 1

\* The destructor: a worker has left only when nothing was queued and nothing
\* more could be.
ExitInv ==
    /\ \A w \in Workers : pc[w] = "exited" => stop /\ tasks = << >>
    /\ ctl = "joined" => \A w \in Born : pc[w] = "exited"

\* The inductive invariant.
PoolInv ==
    /\ TypeOK
    /\ PlacesInv
    /\ ExitInv
    /\ CountersExact
    /\ IsFiniteSet(Finished)

-----------------------------------------------------------------------------
(* Facts about the sets the counters count *)

\* The workers in a set of places are finitely many.
LEMMA WorkersFinite ==
    ASSUME NEW S \in SUBSET Workers
    PROVE  IsFiniteSet(S) /\ Cardinality(S) \in Nat
BY PoolAssumption, FS_Subset, FS_CardinalityType

\* The counters are the sizes of named sets.
LEMMA CountersForm ==
    CountersExact <=> /\ queued = Len(tasks)
                      /\ active = Cardinality(Busy)
                      /\ completed = Cardinality(Finished) - Cardinality(Uncounted)
BY DEF CountersExact, Busy, Finished, Uncounted

-----------------------------------------------------------------------------
(* Steps that leave the tasks alone *)

Quiet == {"unborn", "acquire", "check", "block", "waiting", "notify", "exited"}

\* A step that moves no task and no counter, and lets a worker leave only when
\* the pool is stopped and empty.
QuietStep ==
    /\ UNCHANGED <<tasks, active, queued, completed, held, sub, ran>>
    /\ mtx' \in Workers \cup Waiters \cup {Nobody}
    /\ stop' \in BOOLEAN /\ (stop => stop') /\ pause' \in BOOLEAN
    /\ wpc' \in [Waiters -> WaiterSteps]
    /\ ctl' \in OwnerSteps
    /\ pc' \in [Workers -> WorkerSteps]
    /\ \A w \in Workers : pc'[w] = pc[w] \/ (pc[w] \in Quiet /\ pc'[w] \in Quiet)
    /\ \A w \in Workers : pc[w] = "exited" => pc'[w] = "exited"
    /\ \A w \in Workers : pc'[w] = "exited" => pc[w] = "exited" \/ (stop /\ tasks = << >>)
    /\ ctl' = "joined" => \A w \in Workers : pc'[w] \in {"unborn", "exited"}

LEMMA QuietInv ==
    ASSUME PoolInv, QuietStep
    PROVE  PoolInv'
<1>1. TypeOK'
  BY DEF PoolInv, TypeOK, QuietStep
<1>2. \A w \in Workers : pc'[w] = "run" <=> pc[w] = "run"
  BY DEF QuietStep, Quiet
<1>3. Accepted' = Accepted
  BY DEF QuietStep, Accepted
<1>4. PlacesInv'
  BY <1>2, <1>3 DEF PoolInv, PlacesInv, QuietStep
<1>5. ExitInv'
  BY DEF PoolInv, ExitInv, QuietStep, Born
<1>6. Busy' = Busy /\ Uncounted' = Uncounted /\ Finished' = Finished
  BY DEF Busy, Uncounted, Finished, QuietStep, Quiet
<1>7. CountersExact' /\ IsFiniteSet(Finished')
  BY <1>6 DEF PoolInv, CountersExact, Busy, Uncounted, Finished, QuietStep
<1>8. QED
  BY <1>1, <1>4, <1>5, <1>7 DEF PoolInv

-----------------------------------------------------------------------------
(* Steps that move a task or a counter *)

\* enqueue: a new task goes to the end of the queue, unless the pool is stopped.
LEMMA EnqueueInv ==
    ASSUME PoolInv, NEW t \in Tasks, Enqueue(t)
    PROVE  PoolInv'
<1> USE DEF PoolInv
<1>1. CASE stop
  <2>1. /\ UNCHANGED <<mtx, tasks, stop, pause, active, queued, completed, pc, held, wpc,
                       ctl, ran>>
        /\ sub' = [sub EXCEPT ![t] = "thrown"] /\ sub[t] = "new"
    BY <1>1 DEF Enqueue
  <2>2. Accepted' = Accepted
    BY <2>1 DEF Accepted, TypeOK
  <2>3. TypeOK'
    BY <2>1 DEF TypeOK, SubmitSteps
  <2>4. PlacesInv'
    BY <2>1, <2>2 DEF PlacesInv
  <2>5. ExitInv'
    BY <2>1 DEF ExitInv, Born
  <2>6. QED
    BY <2>1, <2>3, <2>4, <2>5 DEF CountersExact, Finished
<1>2. CASE ~stop
  <2>1. /\ tasks' = Append(tasks, t) /\ queued' = queued + 1
        /\ sub' = [sub EXCEPT ![t] = "notify"] /\ sub[t] = "new" /\ ctl # "joined"
        /\ UNCHANGED <<mtx, stop, pause, active, completed, pc, held, wpc, ctl, ran>>
    BY <1>2 DEF Enqueue
  <2>2. Accepted' = Accepted \cup {t} /\ t \notin Accepted
    BY <2>1 DEF Accepted, TypeOK
  <2>3. TypeOK'
    BY <2>1 DEF TypeOK, SubmitSteps
  <2>4. /\ tasks \in Seq(Tasks) /\ Len(tasks') = Len(tasks) + 1 /\ Len(tasks) \in Nat
        /\ \A i \in 1 .. Len(tasks) : tasks'[i] = tasks[i]
        /\ tasks'[Len(tasks) + 1] = t
    BY <2>1 DEF TypeOK
  <2>5. ran[t] = 0 /\ t # NoTask
    BY <2>2, PoolAssumption DEF PlacesInv, TypeOK
  <2>6. PlacesInv'
    <3>1. \A i \in 1 .. Len(tasks) : tasks[i] # t
      BY <2>2 DEF PlacesInv
    <3>2. \A w \in Workers : held[w] # t
      BY <2>2, <2>5 DEF PlacesInv
    <3>3. \A i \in 1 .. Len(tasks') : i \in 1 .. Len(tasks) \/ i = Len(tasks) + 1
      BY <2>4
    <3>4. /\ \A i, j \in 1 .. Len(tasks') : tasks'[i] = tasks'[j] => i = j
          /\ \A i \in 1 .. Len(tasks') : \A w \in Workers : tasks'[i] # held[w]
          /\ \A i \in 1 .. Len(tasks') : ran[tasks'[i]] = 0 /\ tasks'[i] \in Accepted'
      BY <2>2, <2>4, <2>5, <3>1, <3>2, <3>3 DEF PlacesInv
    <3>5. ASSUME NEW u \in Accepted'
          PROVE  \/ \E i \in 1 .. Len(tasks') : tasks'[i] = u
                 \/ \E w \in Workers : held[w] = u
                 \/ ran[u] = 1
      <4>1. CASE u = t
        BY <2>4, <4>1
      <4>2. CASE u \in Accepted
        BY <2>4, <4>2 DEF PlacesInv
      <4>3. QED
        BY <2>2, <4>1, <4>2
    <3>6. QED
      BY <2>1, <2>2, <3>4, <3>5 DEF PlacesInv
  <2>7. ExitInv'
    BY <1>2, <2>1 DEF ExitInv, Born
  <2>8. CountersExact' /\ IsFiniteSet(Finished')
    BY <2>1, <2>4 DEF CountersExact, Finished
  <2>9. QED
    BY <2>3, <2>6, <2>7, <2>8
<1>3. QED
  BY <1>1, <1>2

\* worker_loop takes the head of the queue and counts it in active_.
LEMMA WorkerTakeInv ==
    ASSUME PoolInv, NEW w \in Workers, WorkerTake(w)
    PROVE  PoolInv'
<1> USE DEF PoolInv
<1>1. /\ pc[w] = "check" /\ tasks # << >>
      /\ held' = [held EXCEPT ![w] = Head(tasks)] /\ tasks' = Tail(tasks)
      /\ queued' = queued - 1 /\ active' = active + 1 /\ mtx' = Nobody
      /\ pc' = [pc EXCEPT ![w] = "run"]
      /\ UNCHANGED <<stop, pause, completed, wpc, sub, ctl, ran>>
  BY DEF WorkerTake
<1>2. /\ tasks \in Seq(Tasks) /\ Len(tasks) \in Nat /\ Len(tasks) > 0
      /\ Tail(tasks) \in Seq(Tasks) /\ Len(tasks') = Len(tasks) - 1
      /\ \A i \in 1 .. Len(tasks') : i + 1 \in 1 .. Len(tasks) /\ tasks'[i] = tasks[i + 1]
      /\ 1 \in 1 .. Len(tasks) /\ Head(tasks) = tasks[1] /\ tasks[1] \in Tasks
  BY <1>1 DEF TypeOK
<1>3. TypeOK'
  BY <1>1, <1>2 DEF TypeOK, WorkerSteps, CountersExact
<1>4. Accepted' = Accepted
  BY <1>1 DEF Accepted
<1>5. /\ held' \in [Workers -> Tasks \cup {NoTask}]
      /\ held'[w] = tasks[1] /\ \A v \in Workers : v # w => held'[v] = held[v]
      /\ pc'[w] = "run" /\ \A v \in Workers : v # w => pc'[v] = pc[v]
  BY <1>1, <1>2 DEF TypeOK
<1>6. PlacesInv'
  <2>1. \A v \in Workers : held'[v] # NoTask <=> pc'[v] = "run"
    BY <1>2, <1>5, PoolAssumption DEF PlacesInv
  <2>2. \A i, j \in 1 .. Len(tasks') : tasks'[i] = tasks'[j] => i = j
    BY <1>2 DEF PlacesInv
  <2>3. \A u, v \in Workers : held'[u] = held'[v] /\ held'[u] # NoTask => u = v
    BY <1>2, <1>5 DEF PlacesInv
  <2>4. \A i \in 1 .. Len(tasks') : \A v \in Workers : tasks'[i] # held'[v]
    <3>1. \A i \in 1 .. Len(tasks') : tasks'[i] # tasks[1]
      BY <1>2 DEF PlacesInv
    <3>2. \A i \in 1 .. Len(tasks') : \A v \in Workers : tasks'[i] # held[v]
      BY <1>2 DEF PlacesInv
    <3>3. QED
      BY <1>5, <3>1, <3>2
  <2>5. \A i \in 1 .. Len(tasks') : ran'[tasks'[i]] = 0 /\ tasks'[i] \in Accepted'
    BY <1>1, <1>2, <1>4 DEF PlacesInv
  <2>6. \A v \in Workers : held'[v] # NoTask => ran'[held'[v]] = 0 /\ held'[v] \in Accepted'
    BY <1>1, <1>2, <1>4, <1>5 DEF PlacesInv
  <2>7. ASSUME NEW t \in Accepted
        PROVE  \/ \E i \in 1 .. Len(tasks') : tasks'[i] = t
               \/ \E v \in Workers : held'[v] = t
               \/ ran[t] = 1
    <3>1. CASE \E i \in 1 .. Len(tasks) : tasks[i] = t
      <4>1. PICK i \in 1 .. Len(tasks) : tasks[i] = t
        BY <3>1
      <4>2. CASE i = 1
        BY <1>5, <4>1, <4>2
      <4>3. CASE i # 1
        <5>1. i - 1 \in 1 .. Len(tasks') /\ tasks'[i - 1] = t
          BY <1>2, <4>1, <4>3
        <5>2. QED
          BY <5>1
      <4>4. QED
        BY <4>2, <4>3
    <3>2. CASE \E v \in Workers : held[v] = t
      <4>1. PICK v \in Workers : held[v] = t
        BY <3>2
      <4>2. held[w] = NoTask /\ t # NoTask
        BY <1>1, PoolAssumption DEF PlacesInv, Accepted
      <4>3. QED
        BY <1>5, <4>1, <4>2
    <3>3. QED
      BY <3>1, <3>2 DEF PlacesInv
  <2>8. QED
    BY <1>1, <1>4, <2>1, <2>2, <2>3, <2>4, <2>5, <2>6, <2>7 DEF PlacesInv
<1>7. ExitInv'
  BY <1>1, <1>5 DEF ExitInv, Born
<1>8. CountersExact' /\ IsFiniteSet(Finished')
  <2>1. Busy' = Busy \cup {w} /\ w \notin Busy
    BY <1>1, <1>5 DEF Busy
  <2>2. Cardinality(Busy') = Cardinality(Busy) + 1
    BY <2>1, WorkersFinite, FS_AddElement DEF Busy
  <2>3. Uncounted' = Uncounted /\ Finished' = Finished
    BY <1>1, <1>5 DEF Uncounted, Finished
  <2>4. QED
    BY <1>1, <1>2, <2>2, <2>3 DEF CountersExact, Busy, Uncounted, Finished
<1>9. QED
  BY <1>3, <1>6, <1>7, <1>8

\* task->run(): the held task becomes a finished one.
LEMMA WorkerRunInv ==
    ASSUME PoolInv, NEW w \in Workers, WorkerRun(w)
    PROVE  PoolInv'
<1> USE DEF PoolInv
<1> DEFINE t == held[w]
<1>1. /\ pc[w] = "run"
      /\ ran' = [ran EXCEPT ![t] = @ + 1]
      /\ held' = [held EXCEPT ![w] = NoTask]
      /\ pc' = [pc EXCEPT ![w] = "decrement"]
      /\ UNCHANGED <<mtx, tasks, stop, pause, active, queued, completed, wpc, sub, ctl>>
  BY DEF WorkerRun, shared
<1>2. t \in Tasks /\ t # NoTask /\ ran[t] = 0 /\ t \in Accepted
  BY <1>1 DEF PlacesInv, TypeOK
<1>3. TypeOK'
  BY <1>1, <1>2 DEF TypeOK, WorkerSteps
<1>4. Accepted' = Accepted
  BY <1>1 DEF Accepted
<1>5. /\ held'[w] = NoTask /\ \A v \in Workers : v # w => held'[v] = held[v]
      /\ pc'[w] = "decrement" /\ \A v \in Workers : v # w => pc'[v] = pc[v]
      /\ ran'[t] = 1 /\ \A u \in Tasks : u # t => ran'[u] = ran[u]
  BY <1>1, <1>2 DEF TypeOK
<1>6. PlacesInv'
  <2>1. \A v \in Workers : held'[v] # NoTask <=> pc'[v] = "run"
    BY <1>5 DEF PlacesInv
  <2>2. \A u, v \in Workers : held'[u] = held'[v] /\ held'[u] # NoTask => u = v
    BY <1>5 DEF PlacesInv
  <2>3. \A i \in 1 .. Len(tasks') : \A v \in Workers : tasks'[i] # held'[v]
    BY <1>1, <1>5, PoolAssumption DEF PlacesInv, TypeOK
  <2>4. \A i \in 1 .. Len(tasks') : ran'[tasks'[i]] = 0 /\ tasks'[i] \in Accepted'
    BY <1>1, <1>4, <1>5 DEF PlacesInv, TypeOK
  <2>5. \A v \in Workers : held'[v] # NoTask => ran'[held'[v]] = 0 /\ held'[v] \in Accepted'
    <3>1. \A v \in Workers : v # w /\ held[v] # NoTask => held[v] # t /\ held[v] \in Tasks
      BY <1>2 DEF PlacesInv, TypeOK
    <3>2. QED
      BY <1>4, <1>5, <3>1 DEF PlacesInv
  <2>6. \A u \in Tasks : ran'[u] > 0 => ran'[u] = 1 /\ u \in Accepted'
    BY <1>2, <1>4, <1>5 DEF PlacesInv
  <2>7. ASSUME NEW u \in Accepted
        PROVE  \/ \E i \in 1 .. Len(tasks) : tasks[i] = u
               \/ \E v \in Workers : held'[v] = u
               \/ ran'[u] = 1
    BY <1>2, <1>5 DEF PlacesInv, Accepted
  <2>8. QED
    BY <1>1, <1>4, <2>1, <2>2, <2>3, <2>4, <2>5, <2>6, <2>7 DEF PlacesInv
<1>7. ExitInv'
  BY <1>1, <1>5 DEF ExitInv, Born
<1>8. CountersExact' /\ IsFiniteSet(Finished')
  <2>1. Busy' = Busy
    BY <1>1, <1>5 DEF Busy
  <2>2. Uncounted' = Uncounted \cup {w} /\ w \notin Uncounted
    BY <1>1, <1>5 DEF Uncounted
  <2>3. Finished' = Finished \cup {t} /\ t \notin Finished
    BY <1>2, <1>5 DEF Finished
  <2>4. Cardinality(Uncounted') = Cardinality(Uncounted) + 1 /\ Cardinality(Uncounted) \in Nat
    BY <2>2, WorkersFinite, FS_AddElement DEF Uncounted
  <2>5. /\ Cardinality(Finished') = Cardinality(Finished) + 1 /\ Cardinality(Finished) \in Nat
        /\ IsFiniteSet(Finished')
    BY <2>3, FS_AddElement, FS_CardinalityType
  <2>6. completed = Cardinality(Finished) - Cardinality(Uncounted)
    BY CountersForm
  <2>7. completed' = Cardinality(Finished') - Cardinality(Uncounted')
    BY <1>1, <2>4, <2>5, <2>6
  <2>8. queued' = Len(tasks') /\ active' = Cardinality(Busy')
    BY <1>1, <2>1, CountersForm
  <2>9. QED
    BY <2>5, <2>7, <2>8 DEF CountersExact, Busy, Uncounted, Finished
<1>9. QED
  BY <1>3, <1>6, <1>7, <1>8

\* active_.fetch_sub
LEMMA WorkerDecrementInv ==
    ASSUME PoolInv, NEW w \in Workers, WorkerDecrement(w)
    PROVE  PoolInv'
<1> USE DEF PoolInv
<1>1. /\ pc[w] = "decrement" /\ active' = active - 1
      /\ pc' = [pc EXCEPT ![w] = "count"]
      /\ UNCHANGED <<mtx, tasks, stop, pause, queued, completed, held, wpc, sub, ctl, ran>>
  BY DEF WorkerDecrement
<1>2. pc'[w] = "count" /\ \A v \in Workers : v # w => pc'[v] = pc[v]
  BY <1>1 DEF TypeOK
<1>3. Busy' = Busy \ {w} /\ w \in Busy
  BY <1>1, <1>2 DEF Busy
<1>4. /\ Cardinality(Busy') = Cardinality(Busy) - 1
      /\ Cardinality(Busy') \in Nat
  BY <1>3, WorkersFinite, FS_RemoveElement DEF Busy
<1>5. active' = Cardinality(Busy')
  BY <1>1, <1>4, CountersForm
<1>6. Uncounted' = Uncounted /\ Finished' = Finished
  BY <1>1, <1>2 DEF Uncounted, Finished
<1>7. CountersExact' /\ IsFiniteSet(Finished')
  BY <1>1, <1>5, <1>6 DEF CountersExact, Busy, Uncounted, Finished
<1>8. TypeOK'
  BY <1>1, <1>4, <1>5 DEF TypeOK, WorkerSteps
<1>9. PlacesInv'
  BY <1>1, <1>2 DEF PlacesInv, Accepted
<1>10. ExitInv'
  BY <1>1, <1>2 DEF ExitInv, Born
<1>11. QED
  BY <1>7, <1>8, <1>9, <1>10

\* completed_.fetch_add
LEMMA WorkerCountInv ==
    ASSUME PoolInv, NEW w \in Workers, WorkerCount(w)
    PROVE  PoolInv'
<1> USE DEF PoolInv
<1>1. /\ pc[w] = "count" /\ completed' = completed + 1
      /\ pc' = [pc EXCEPT ![w] = "notify"]
      /\ UNCHANGED <<mtx, tasks, stop, pause, queued, active, held, wpc, sub, ctl, ran>>
  BY DEF WorkerCount
<1>2. pc'[w] = "notify" /\ \A v \in Workers : v # w => pc'[v] = pc[v]
  BY <1>1 DEF TypeOK
<1>3. Uncounted' = Uncounted \ {w} /\ w \in Uncounted
  BY <1>1, <1>2 DEF Uncounted
<1>4. /\ Cardinality(Uncounted') = Cardinality(Uncounted) - 1
      /\ Cardinality(Uncounted) \in Nat
  BY <1>3, WorkersFinite, FS_RemoveElement DEF Uncounted
<1>5. Busy' = Busy /\ Finished' = Finished
  BY <1>1, <1>2 DEF Busy, Finished
<1>6. completed' = Cardinality(Finished') - Cardinality(Uncounted')
  <2>1. Cardinality(Finished) \in Nat
    BY FS_CardinalityType
  <2>2. completed = Cardinality(Finished) - Cardinality(Uncounted)
    BY CountersForm
  <2>3. QED
    BY <1>1, <1>4, <1>5, <2>1, <2>2
<1>7. CountersExact' /\ IsFiniteSet(Finished')
  BY <1>1, <1>5, <1>6 DEF CountersExact, Busy, Uncounted, Finished
<1>8. TypeOK'
  BY <1>1 DEF TypeOK, WorkerSteps
<1>9. PlacesInv'
  BY <1>1, <1>2 DEF PlacesInv, Accepted
<1>10. ExitInv'
  BY <1>1, <1>2 DEF ExitInv, Born
<1>11. QED
  BY <1>7, <1>8, <1>9, <1>10

\* The submitter's notification changes nothing but who is awake.
LEMMA EnqueueNotifyInv ==
    ASSUME PoolInv, NEW t \in Tasks, EnqueueNotify(t)
    PROVE  PoolInv'
<1> USE DEF PoolInv
<1>1. /\ sub[t] = "notify" /\ sub' = [sub EXCEPT ![t] = "done"]
      /\ UNCHANGED <<mtx, tasks, stop, pause, active, queued, completed, held, wpc, ctl, ran>>
      /\ pc' \in [Workers -> WorkerSteps]
      /\ \A w \in Workers : pc'[w] = pc[w] \/ (pc[w] = "waiting" /\ pc'[w] = "acquire")
  BY DEF EnqueueNotify, WakeOne, shared, TypeOK, WorkerSteps
<1>2. Accepted' = Accepted
  BY <1>1 DEF Accepted, TypeOK
<1>3. TypeOK'
  BY <1>1 DEF TypeOK, SubmitSteps
<1>4. PlacesInv'
  BY <1>1, <1>2 DEF PlacesInv
<1>5. ExitInv'
  BY <1>1 DEF ExitInv, Born
<1>6. Busy' = Busy /\ Uncounted' = Uncounted /\ Finished' = Finished
  BY <1>1 DEF Busy, Uncounted, Finished
<1>7. CountersExact' /\ IsFiniteSet(Finished')
  BY <1>1, <1>6 DEF CountersExact, Busy, Uncounted, Finished
<1>8. QED
  BY <1>3, <1>4, <1>5, <1>7

\* All other steps of a worker are quiet.
LEMMA WorkerQuiet ==
    ASSUME PoolInv, NEW w \in Workers,
           \/ WorkerAcquire(w) \/ WorkerSpurious(w) \/ WorkerPredicateFalse(w)
           \/ WorkerBlock(w) \/ WorkerExit(w) \/ WorkerNotify(w)
    PROVE  QuietStep
<1> USE DEF PoolInv, TypeOK, QuietStep, Quiet, WorkerSteps, WaiterSteps, shared
<1>0. ctl = "joined" => \A v \in Workers : pc[v] \in {"unborn", "exited"}
  BY DEF ExitInv, Born
<1>1. CASE WorkerAcquire(w)
  BY <1>0, <1>1 DEF WorkerAcquire
<1>2. CASE WorkerSpurious(w)
  BY <1>0, <1>2 DEF WorkerSpurious
<1>3. CASE WorkerPredicateFalse(w)
  BY <1>0, <1>3 DEF WorkerPredicateFalse
<1>4. CASE WorkerBlock(w)
  BY <1>0, <1>4 DEF WorkerBlock
<1>5. CASE WorkerExit(w)
  BY <1>0, <1>5 DEF WorkerExit
<1>6. CASE WorkerNotify(w)
  BY <1>0, <1>6 DEF WorkerNotify
<1>7. QED
  BY <1>1, <1>2, <1>3, <1>4, <1>5, <1>6

\* wait_all only looks.
LEMMA WaitQuiet ==
    ASSUME PoolInv, NEW c \in Waiters,
           WaitCall(c) \/ WaitAcquire(c) \/ WaitSpurious(c) \/ WaitProceed(c)
    PROVE  QuietStep
<1>1. ctl = "joined" => \A v \in Workers : pc[v] \in {"unborn", "exited"}
  BY DEF PoolInv, ExitInv, Born
<1>2. QED
  BY <1>1 DEF PoolInv, TypeOK, QuietStep, Quiet, WaiterSteps, shared, WaitCall, WaitAcquire,
              WaitSpurious, WaitProceed, WaitPredicateFalse, WaitBlock, WaitReturn

\* The owner's steps start, wake and join workers.
LEMMA OwnerQuiet ==
    ASSUME PoolInv,
           \/ Pause \/ Resume \/ ResumeNotify \/ Shutdown \/ ShutdownNotify \/ ShutdownJoin
           \/ \E n \in 1 .. Cardinality(Workers) : Resize(n)
    PROVE  QuietStep
<1> USE DEF PoolInv, TypeOK, QuietStep, Quiet, WorkerSteps, OwnerSteps, shared
<1>1. CASE Pause \/ Resume \/ Shutdown
  BY <1>1 DEF Pause, Resume, Shutdown
<1>2. CASE ResumeNotify \/ ShutdownNotify
  BY <1>2 DEF ResumeNotify, ShutdownNotify, WakeAll
<1>3. CASE ShutdownJoin
  BY <1>3 DEF ShutdownJoin, Born
<1>4. ASSUME NEW n \in 1 .. Cardinality(Workers), Resize(n)
      PROVE  QuietStep
  BY <1>4 DEF Resize, Born
<1>5. QED
  BY <1>1, <1>2, <1>3, <1>4

-----------------------------------------------------------------------------
(* The theorems *)

\* Every step keeps the invariant.
LEMMA PoolInvStep ==
    ASSUME PoolInv, [Next]_vars
    PROVE  PoolInv'
<1>1. ASSUME NEW t \in Tasks, Enqueue(t) \/ EnqueueNotify(t)
      PROVE  PoolInv'
  BY <1>1, EnqueueInv, EnqueueNotifyInv
<1>2. ASSUME NEW w \in Workers, WorkerAcquire(w) \/ WorkerSpurious(w) \/ WorkerProceed(w)
      PROVE  PoolInv'
  BY <1>2, WorkerQuiet, QuietInv, WorkerTakeInv, WorkerRunInv, WorkerDecrementInv, WorkerCountInv
     DEF WorkerProceed
<1>3. ASSUME NEW c \in Waiters,
             WaitCall(c) \/ WaitAcquire(c) \/ WaitSpurious(c) \/ WaitProceed(c)
      PROVE  PoolInv'
  BY <1>3, WaitQuiet, QuietInv
<1>4. ASSUME \/ Pause \/ Resume \/ ResumeNotify \/ Shutdown \/ ShutdownNotify \/ ShutdownJoin
             \/ \E n \in 1 .. Cardinality(Workers) : Resize(n)
      PROVE  PoolInv'
  BY <1>4, OwnerQuiet, QuietInv
<1>5. CASE UNCHANGED vars
  <2>1. Accepted' = Accepted /\ Born' = Born /\ Finished' = Finished
    BY <1>5 DEF vars, Accepted, Born, Finished
  <2>2. QED
    BY <1>5, <2>1 DEF vars, PoolInv, TypeOK, PlacesInv, ExitInv, CountersExact
<1>6. QED
  BY <1>1, <1>2, <1>3, <1>4, <1>5 DEF Next

\* The constructor sets the invariant up.
LEMMA PoolInvInit ==
    ASSUME Init
    PROVE  PoolInv
<1>1. PICK new \in Started({}, InitialSize) :
          pc = [w \in Workers |-> IF w \in new THEN "acquire" ELSE "unborn"]
  BY DEF Init
<1>2. TypeOK
  <2>1. pc \in [Workers -> WorkerSteps]
    BY <1>1 DEF WorkerSteps
  <2>2. tasks \in Seq(Tasks)
    BY DEF Init
  <2>3. QED
    BY <2>1, <2>2 DEF Init, TypeOK, WaiterSteps, SubmitSteps, OwnerSteps
<1>3. PlacesInv
  BY <1>1 DEF Init, PlacesInv, Accepted
<1>4. ExitInv
  BY <1>1 DEF Init, ExitInv
<1>5. Busy = {} /\ Uncounted = {} /\ Finished = {}
  BY <1>1 DEF Init, Busy, Uncounted, Finished
<1>6. IsFiniteSet(Finished) /\ Cardinality(Finished) = 0
      /\ Cardinality(Busy) = 0 /\ Cardinality(Uncounted) = 0
  BY <1>5, FS_EmptySet
<1>7. CountersExact
  BY <1>6, CountersForm DEF Init
<1>8. QED
  BY <1>2, <1>3, <1>4, <1>6, <1>7 DEF PoolInv

\* The invariant holds in every behaviour of the pool.
THEOREM PoolSafe == Spec => []PoolInv
BY PoolInvInit, PoolInvStep, PTL DEF Spec

\* Types; the unsigned counters active_ and queued_ never wrap.
THEOREM PoolTypeOK == Spec => []TypeOK
BY PoolSafe, PTL DEF PoolInv

\* queued_, active_ and completed_ are exact although they are changed outside mtx_.
THEOREM PoolCountersExact == Spec => []CountersExact
BY PoolSafe, PTL DEF PoolInv

\* PlacesInv, counted: where there is one place there is a single element.
LEMMA PlacesCounted ==
    ASSUME PoolInv
    PROVE  TaskConserved
<1>1. SUFFICES ASSUME NEW t \in Tasks
               PROVE  Cardinality({i \in DOMAIN tasks : tasks[i] = t})
                      + Cardinality({w \in Workers : held[w] = t}) + ran[t]
                        = IF t \in Accepted THEN 1 ELSE 0
  BY DEF TaskConserved
<1> DEFINE Q == {i \in DOMAIN tasks : tasks[i] = t}
           W == {w \in Workers : held[w] = t}
<1>2. DOMAIN tasks = 1 .. Len(tasks) /\ ran[t] \in Nat /\ t # NoTask
  BY PoolAssumption DEF PoolInv, TypeOK
<1>3. /\ \A i, j \in Q : i = j
      /\ \A v, w \in W : v = w
  BY <1>2 DEF PoolInv, PlacesInv
<1>4. /\ Q # {} => W = {} /\ ran[t] = 0 /\ t \in Accepted
      /\ W # {} => Q = {} /\ ran[t] = 0 /\ t \in Accepted
      /\ ran[t] > 0 => Q = {} /\ W = {} /\ ran[t] = 1 /\ t \in Accepted
      /\ t \in Accepted => Q # {} \/ W # {} \/ ran[t] = 1
  BY <1>2 DEF PoolInv, PlacesInv
<1>5. /\ Q = {} \/ \E i : Q = {i}
      /\ W = {} \/ \E w : W = {w}
  BY <1>3
<1>6. /\ Cardinality(Q) = IF Q = {} THEN 0 ELSE 1
      /\ Cardinality(W) = IF W = {} THEN 0 ELSE 1
  BY <1>5, FS_EmptySet, FS_Singleton
<1> HIDE DEF Q, W
<1>7. Cardinality(Q) + Cardinality(W) + ran[t] = IF t \in Accepted THEN 1 ELSE 0
  BY <1>2, <1>4, <1>6
<1>8. QED
  BY <1>7 DEF Q, W

\* No interleaving of workers, resize and shutdown loses a task or runs it twice.
THEOREM PoolTaskConserved == Spec => []TaskConserved
BY PoolSafe, PlacesCounted, PTL

\* The destructor drains the queue.
THEOREM PoolDrained == Spec => []JoinedMeansDrained
<1>1. PoolInv => JoinedMeansDrained
  <2>1. SUFFICES ASSUME PoolInv, ctl = "joined", NEW w \in Born, NEW t \in Accepted
                 PROVE  ran[t] = 1
    BY DEF JoinedMeansDrained
  <2>2. tasks = << >>
    BY <2>1 DEF PoolInv, ExitInv, Born
  <2>3. \A v \in Workers : held[v] = NoTask
    BY <2>1 DEF PoolInv, ExitInv, PlacesInv, Born
  <2>4. QED
    BY <2>1, <2>2, <2>3, PoolAssumption DEF PoolInv, PlacesInv, Accepted
<1>2. QED
  BY <1>1, PoolSafe, PTL

\* An idle pool, as wait_all sees it, has run everything it accepted.
LEMMA IdleMeansRun ==
    ASSUME PoolInv, AllDone
    PROVE  \A t \in Accepted : ran[t] = 1
<1>1. Busy = {}
  BY CountersForm, WorkersFinite, FS_EmptySet DEF PoolInv, AllDone, Busy
<1>2. \A w \in Workers : held[w] = NoTask
  BY <1>1 DEF PoolInv, PlacesInv, Busy
<1>3. QED
  BY <1>2, PoolAssumption DEF PoolInv, PlacesInv, AllDone, Accepted

\* wait_all returns only when every accepted task has been run.
THEOREM PoolWaitAllMeansRun == Spec => WaitAllMeansRun
<1> DEFINE Step == \A c \in Waiters : wpc[c] = "check" /\ wpc'[c] = "returned"
                     => \A t \in Accepted : ran[t] = 1
<1>1. ASSUME PoolInv, [Next]_vars
      PROVE  [Step]_vars
  <2>1. SUFFICES ASSUME Next, NEW c \in Waiters, wpc[c] = "check", wpc'[c] = "returned"
                 PROVE  AllDone
    BY <1>1, IdleMeansRun DEF vars
  <2>2. wpc \in [Waiters -> WaiterSteps]
    BY <1>1 DEF PoolInv, TypeOK
  <2>3. \/ UNCHANGED wpc
        \/ \E w \in Workers : WorkerNotify(w)
        \/ \E d \in Waiters : WaitCall(d) \/ WaitAcquire(d) \/ WaitSpurious(d) \/ WaitProceed(d)
    BY <2>1 DEF Next, Enqueue, EnqueueNotify, WorkerAcquire, WorkerSpurious, WorkerProceed,
       WorkerPredicateFalse, WorkerBlock, WorkerExit, WorkerTake, WorkerRun, WorkerDecrement,
       WorkerCount, Pause, Resume, ResumeNotify, Resize, Shutdown, ShutdownNotify, ShutdownJoin
  <2>4. ASSUME NEW d \in Waiters,
               WaitCall(d) \/ WaitAcquire(d) \/ WaitSpurious(d) \/ WaitProceed(d)
        PROVE  AllDone
    BY <2>1, <2>2, <2>4 DEF WaitCall, WaitAcquire, WaitSpurious, WaitProceed, WaitPredicateFalse,
       WaitBlock, WaitReturn
  <2>5. QED
    BY <2>1, <2>2, <2>3, <2>4 DEF WorkerNotify
<1>2. QED
  BY <1>1, PoolSafe, PTL DEF Spec, WaitAllMeansRun
=============================================================================
