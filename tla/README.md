# A TLA+ verification project for Scicompute

Scicompute is a C++ library for scientific computing: tensors and operators on
CPU and CUDA devices, and below them the machinery that moves work and memory
around: lock-free queues, memory pools, a thread pool and a task-graph
executor.  This project models that machinery, checks it with TLC on small
instances and proves part of it with TLAPS for every instance.  Paths below
are relative to the repository (`src/` in `PROJECT.json`).

## 1. Inventory

| Component | State | Operations | What is hard | What makes it correct |
|---|---|---|---|---|
| MPSC queue (`include/bridges/impl/ipc_queue_impl.hpp`) | nodes with sequence numbers, two positions | Init, Destroy, Reserve, Push, Pop, batches, Empty, SizeApprox | lock-free producers with stale positions, out-of-order publication, ring wrap-around | bounded FIFO, exclusive nodes, no false "full", items come out |
| SPSC queue (same file) | buffer, two indices | Init, Destroy, Push, Pop, Empty, Full, SizeApprox | each side acts on an old value of the other's index; re-initialisation | bounded FIFO, exclusive slots |
| ThreadPool (`scheduler/thread_pool.*`) | task queue, flags and counters (atomics), two condition variables | enqueue, worker_loop, wait_all, pause, resume, resize, destructor | wake-ups lost between predicate and sleep, counters outside the mutex, drain at shutdown | each task run once; wait_all and the destructor drain |
| GraphExecutor (`scheduler/task_graph.*`) | claimed and completed ids, counters, cancelled flag | execute, cancel | lambdas on other threads, polling on statuses, cancel and reuse with lambdas in flight, failing and throwing tasks | each task once, in dependency order; Ok means all run |
| TaskGraph, Task (`scheduler/task*`) | tasks, edges in both directions, statuses | add/remove task and edge, topological_sort, is_dag, ready tasks | sequences of edits | both edge maps agree; orders respect edges |
| LegacyThreadPool (`bridges/thread_pool_bridge.*`) | as ThreadPool | Enqueue, WaitAll, Pause, Resize, Shutdown | counter raised after the mutex is released | WaitAll means all run |
| Memory pools (`memory/memory_pool.*`, `bridges/pool_bridge.*`) | free lists, chunks, counters, thread caches | Allocate, Deallocate, Expand, Get, Put | ABA in the free list, racing expansions, unsigned counters | a block has one owner, none is lost |
| Allocators, buffers (`memory/allocator.*`, `memory/buffer_handle.*`) | blocks, sizes, owners | allocate, deallocate, clear, move, reset, detach, resize | sequences of ownership changes | freed once, accounting exact |
| DeviceManager, streams (`device/*`) | devices, callbacks, default device, stream pool | register, unregister, callbacks, scan, get/return stream | ids against positions after removals | callbacks removed are the ones asked for |
| Shared memory (`bridges/ipc_bridge.*`) | descriptor, mapping, creator flag | Create, Open, move, Destroy | two processes and one name | a name is unlinked by its creator, once |
| GPU scheduler, memory (`gpu/*`) | queue, streams, cached blocks | submit, process, shutdown, allocate | shutdown with tasks queued | submitted tasks run or are reported |
| Tensor (`tensor/*`) | shared storage, shape, strides | views, copy, clone, fill, to | aliasing | copies are independent, views are not |
| Math operators (`math/*`) | none of their own: loops over flat memory | elementwise, reductions, softmax, normalisation | index arithmetic, aliased arguments, shapes that are not matrices | the result is what the operator means |
| CUDA kernels (`cuda/kernels/*`, `bridges/cuda_kernel_bridge.cu`) | shared memory of a block | elementwise, sum, max, softmax, layer norm, RMS norm | warps in any order between barriers, size of shared memory | the same, in every order |
| Core utilities, benchmark runner | none that evolves | - | - | - |

How they interact: GraphExecutor hands lambdas to a ThreadPool and is called
back by them through its mutex and its atomics; TaskGraph gives it the ready
tasks and the statuses the lambdas write.  The queues, pools and shared memory
are leaves, used by their clients through calls.  Tensors take memory from
buffers, buffers from devices, devices from allocators.

The hazards of this code, with their lines and the properties aimed at them,
are listed in `PROJECT.json`.

## 2. Modules

| Module | Models | Its actions |
|---|---|---|
| `BoundedFIFO` | nothing: what a bounded queue promises | Claim, Publish, Put, Take, Reset, Grow |
| `MPSCQueue` | `MPSCQueue<T>` | one per access to shared memory: `PushLoad`, `PushSequence`, `PushClaim`, `PushClaimFails`, `PushData`, `PushPublish`, `PopCheck`, `PopRead`, `PopAdvance`, `PopRelease`; `InitQueue`, `Destroy`, `Reserve` |
| `MPSCQueueProofs` | - | theorems about `MPSCQueue` |
| `SPSCQueue` | `SPSCQueue<T>` | likewise |
| `SPSCQueueProofs` | - | theorems about `SPSCQueue` |
| `ThreadPool` | `sci::ThreadPool` | submitters, workers, callers of wait_all, the owner |
| `ThreadPoolProofs` | - | theorems about `ThreadPool` |
| `GraphExecutor` | `GraphExecutor`, with the parts of `TaskGraph` and `FunctionalTask` it uses | execute, process_ready_tasks, the lambdas, cancel, a new graph |
| `MCGraphExecutor` | - | the graphs of the runs |
| `GraphExecutorProofs` | - | theorems about `GraphExecutor` |
| `MemoryPools` | the free list, `FixedSizePool`, `SlabAllocator`, `TlsCache` and the bridge's `FixedSizeMemoryPool` | one per access to head, link, mutex or flag: Pop, Push, Expand (which operator new may fail: `NewThrows`, `NewTerminates`), Allocate, Deallocate, Get, Put, the cache's end |
| `MemoryPoolsProofs` | - | theorems about `MemoryPools` |
| `Buffers` | `BufferHandle`, `TensorBuffer` | make, move, clone, reset, adopt, detach, resize, destroy |
| `Tensors` (extends `Buffers`) | `Tensor` and the copies of CPU and CUDA devices | create, external memory, copy, move, to, copy_from, clone of a view |
| `Allocators` | `HostAllocator`, `AlignedAllocator`, `PinnedAllocator` | allocate and deallocate in two steps (system, map), clear |
| `GpuTensors` | `GpuTensor` over `CudaAllocator` | construct, copy, assign, move, destroy, the raw allocator calls, reset_stats |
| `SharedMemory` | `SharedMemorySegment` in two processes | one per system call of Create and Open; move, Destroy, destructor, crash |
| `DeviceManager` | `DeviceManager`, `Stream`, `StreamPool` | register, unregister (two steps, callbacks in between), callbacks, default; move, SetCurrent, get and return |
| `MCResources` | - | the six modules above as parts of one run |
| `ResourcesProofs` | - | theorems about the parts of `MCResources` |
| `LegacyPool` | `LegacyThreadPool` | clients, workers, WaitAll, Pause, Resume, Resize, Shutdown |
| `GpuScheduler` | `GpuScheduler` | initialize, submit, streams, the worker's look at running_, its pop and its execute, shutdown in four steps |
| `TaskGraphs` | `TaskGraph` | edits; the queries are operators |
| `Kernels` | the kernels that work through shared memory, elementwise kernels, the bridge's | one warp from one barrier to the next |
| `Operators` (extends `Kernels`) | `math/*`, views and `fill` of `Tensor`, `GemmTask` | one call on any contents |
| `MCWork` | - | the five modules above as parts of one run |
| `WorkProofs` | - | theorems about the parts of `MCWork` but the last |
| `OperatorsProofs` (extends `WorkProofs`) | - | the theorem about `Operators` as a part of `MCWork` |

Variables carry the names of the members without the trailing underscore;
`pc`, `cpc`, `wpc`, `epc` say which statement a thread executes next.  Operators
whose comment begins with "Mutant" are plausible bugs: replacing the definition
that follows by one of them must break the property `PROJECT.json` names.

### What the models abstract

* **Memory order.**  A step is one access to shared memory and steps
  interleave.  The queues use acquire/release on exactly the accesses through
  which one thread's plain writes become visible to another (`sequence`, the
  SPSC indices), so for them interleaving is the right picture; weaker
  reorderings of the relaxed accesses are not modelled.
* **Integers.**  Positions are unbounded, so what happens when a 64-bit
  position wraps around is not covered.  Unsigned counters are integers that
  `TypeOK` requires to stay non-negative.
* **Calls that change nothing** (Pop on an empty queue, resize to fewer
  threads, Push on a queue without storage) are stuttering steps.  PushBatch and
  PopBatch are loops of Push and Pop.
* **MPSC storage calls** need a quiescent queue, as the comment in Reserve
  demands; the model only calls Init, Destroy and Reserve then.
* **Condition variables.**  `wait(lock, pred)` is evaluating the predicate,
  then blocking, both with the mutex; a notification reaches only threads
  already blocked.  Spurious wake-ups can happen and are not relied upon.
* **ThreadPool.**  Each task is submitted once; `pause_ && tasks_.empty()`
  (thread_pool.cpp:33) can never be true after the predicate and has no action.
  The pool is destroyed only when no wait_all is under way, as C++ requires.
* **GraphExecutor.**  Of the pool, only "accepted lambdas run once, later, in
  any order" is used, which is what `TaskConserved` and `EveryTaskRuns` say.
  `get_ready_tasks` is one step: statuses only leave kPending, and an id that
  left it between the scan and the claim is in one of the two sets checked
  under the mutex.  Several graphs follow each other; lambdas of an earlier
  graph are counted in `stale`, because only their effect on the counters is
  left.  Lifetime of the executor object is not modelled.
* **Parts.**  In `MCResources` and `MCWork` the variable `part` says which
  component a behaviour is about, and the variables of the others are `<<>>`.
  The components share no state, so a run visits the sum of their states and
  not the product.  `Tensors` and `Operators` do use the operators of `Buffers`
  and `Kernels`, which is where the code composes them too.
* **How a pool's behaviour can end.**  `fate` records three events after which `Spec`
  of `MemoryPools` follows a behaviour no further.  A compare-and-swap succeeds on a
  head popped and pushed again since it was read ("recycled"): a block in use can
  become the head.  `TlsCache::Get` of `memory_pool.hpp` takes `back()` and
  `pop_back()` of an empty vector, after a Refill that got nothing ("underflow",
  `GetUnderflow`): the client gets any block, or something that is no block.
  operator new fails in the slab's Allocate, which is noexcept ("terminated").
  `OneOwner` says that the first two are the only ways to break ownership.
* **A failed operator new** in a pool's Expand is an exception that leaves the call
  (`NewThrows`): the mutex is released, a cache under construction is gone with its
  blocks, and in a bridge pool's Allocate `is_expanding_` stays raised (history
  `left`).  A failing `push_back` of `chunks_` is not modelled.
* **Tensors.**  What memory holds is kept with the block (`theap`); what a tensor
  should hold is a history of the tensor (`due`), set from the `due` of the tensors a
  call is given and never from memory.  A call that reaches the wrong memory, leaves
  the target as it was or writes to a block another tensor relies on makes the two
  differ.  `by` notes the calls that leave undefined contents, which
  `CopiesFaithful` excepts.
* **Entries of edges_.**  An entry may be empty and still count in `is_valid`
  (`keys`): removing a task empties the entries its edges were in and leaves them.
  `num_edges()` counts these entries; it is not modelled.
* **Floating point.**  Elements are integers, exp is a power of two, and
  division, roots, powers and logarithms are tuples of the values they are
  applied to.  This keeps which elements enter a result, and how often, and
  drops rounding, NaN, infinity, epsilon and temperature.
* **CUDA.**  Streams, memory and cuBLAS are external and modelled from their use.
  A call inside CUDA_CHECK may fail at any time and ends the process.  Blocks of
  a grid write disjoint cells and run one after another; warps of a block
  interleave at barriers, lanes of a warp run in lock step.
* **Undefined contents.**  Uninitialised memory and what a host-to-device copy from
  a device pointer leaves (the copy constructor and the clone of a view on a CUDA
  device) are `Undef`.  The clone of a strided view is the linear copy the code makes,
  where the transposed contents are due.
* **Allocators.**  The two counts are kept as their difference; the unsigned
  byte counter of `CudaAllocator` is an integer that may go below zero after
  reset_stats, where the code's wraps.

A call of execute is *clean* when its graph was not executed before and
nothing of an earlier call is on the pool.  Most properties are about clean
calls; two runs show what goes wrong otherwise.

## 3. Runs

| Run | Result | Shows |
|---|---|---|
| `mpsc` | holds | `NoSlotShared`, `OccupancyBounded`, `QueueInv` (inductive invariant), `RefusedOnlyWhenFull`, `EveryClaimPopped`, and that the ring implements `BoundedFIFO` (`ImplementsFIFO`) |
| `mpsc_reserve` | violated | `Reserve(1)` on a queue without storage makes a one-node ring, which Init refuses; the second Push overwrites the first item |
| `spsc` | holds | `NoSlotShared`, `SPSCInv`, and the ring implements `BoundedFIFO` with limit capacity - 1 |
| `pool` | holds | `TaskConserved`, `CountersExact`, `JoinedMeansDrained`, `WaitAllMeansRun`, `EveryTaskRuns` |
| `pool_counted` | violated | `completed()` after wait_all can miss a task |
| `pool_hang` | violated | wait_all can miss its last notification and never return |
| `graph` | holds | `RunsOnce`, `DependencyOrder`, `OkMeansAllRun`, `CompletedExact`, `RunningCovers`, `ExecuteReturns` for clean calls |
| `memory` | holds | `StackLinked`, `OneOwner`, `FitsRequest`, `ChunkLimit`, `NullExplained` |
| `resources` | holds | `OwnedOnce`, `ValuesKept`, `AccountingExact`, `DescriptorsKept`, `NameKept`, `ManagerKept` |
| `work` | holds | `LegacyKept`, `OrderKept`, `GraphKept`, `KernelsKept`, `OperatorsKept` |
| `graph_again` | violated | after cancel, executing the same graph queues a task that is still queued |
| `graph_overlap` | violated | after cancel, executing another graph can return Ok before any of its tasks was run |

Bounds, and why they are enough:

* `mpsc`: two producers (every race in Push is between two of them), two items,
  a ring of two nodes that Reserve can make three, four claimed positions, so
  that the ring of two is used twice over and the one of three wraps.  Init is
  also called with 1, which it refuses.  The safety properties are proved
  without bounds.
* `spsc`: capacities 0 to 3; the indices are cyclic, so the run covers any
  number of rounds.
* `pool`: one worker that resize can make two, two tasks, one caller of wait_all;
  the counterexamples need one of each.
* `graph`: three tasks (a join, a chain beside an independent task, a cycle),
  two calls of execute on one executor, with and without a pool.
* `memory`: two threads, one with a cache of batches of two, chunks of two blocks
  (one, growing by two, in the bridge pool, which has a limit of two chunks), five
  blocks in all, sizes 16 and 20, which fall into different slabs.  A stolen chunk
  and an empty cache need one other thread.  1.8 million states.
* `resources`: two objects of each kind (three GpuTensors, so that a chain of
  copies closes), one address more than there are tensors, three devices (the
  CPU and two CUDA devices: the route of a copy depends on the pair), two
  processes with two segments and one, two objects behind the name, three
  callbacks, one block lent by the client at a time (`MaxLent`: a lent block differs
  from an owned one in who frees it).  0.9 million states.
* `work`: two clients, one worker that Resize can make two, three tasks; three
  streams and three submissions; all graphs on three ids with up to three edges,
  duplicates included; warps of four lanes in blocks of one or two warps, 1, 7 or
  18 elements, so that a block is underfull, has a ragged end, and strides round
  the grid of two; all tensors of shapes 3, 2x2 and 2x1x2 over three values; GEMM
  with sizes 1 and 2, the smallest that are not square.  0.7 million states.

### What the properties except

Where the code does less than one would ask, the property says exactly how much
less, so the run holds and the exception is part of the statement:

* `LegacyKept`: WaitAll may leave a task that a worker popped and did not yet
  count in `active_` (`thread_pool_bridge.cpp:30`).
* `OneOwner`: not beyond a recycled head (`memory_pool.hpp:47`) and not beyond Get on
  an empty cache (`memory_pool.hpp:203`).  Both are behaviours of the code that end in
  a block with two owners, or in one that is none; the model stops where they begin.
* `OrderKept`: nothing is said of the stream a task runs on, which shutdown may
  have destroyed (`gpu_scheduler.cpp:113`).  The worker reads `running_`, a plain
  bool, before it takes the lock (line 101), so one task more, submitted after
  shutdown began or not, may be taken and run; shutdown still joins it.
* `GraphKept`: a release build admits edges to ids that are no tasks; is_valid
  tells, and topological_sort lists them.  There is_valid also refuses graphs
  without such an edge when `edges_` has an entry, even an empty one, for an id that
  is no task: `add_edge(1, 2)` and `remove_task(2)` leave `{1: []}`
  (`task_graph.cpp:203`).
* `ValuesKept`: the copy constructor on a CUDA device hands device memory to
  `copy_to_device`, a host-to-device copy (`tensor.cpp:79`), although "Copy is deep
  copy" (`tensor.hpp:73`); and clones of views that are strided or on a CUDA device
  (`tensor.cpp:237`).  Everything that comes of such a copy is excepted with it.
* `KernelsKept`: the softmax launches leave their shared memory when a block has
  two warps or more (`softmax.cu:103`), the bridge's sum adds the first block of
  elements only, its division leaves the cell of a zero divisor unwritten.
* `OperatorsKept` has the departures in it as equivalences, so that a call that is
  right where it is said to be wrong breaks it too.  Hardmax "returns one-hot vector
  with 1 at max position" (`math/softmax.hpp:22`): it does exactly for matrices along
  their last axis, and answers zeros otherwise (`softmax.cpp:152`).  Slices are "View
  operations" (`tensor.hpp:100`): they lead to the elements they mean exactly when
  `Sliceable` holds, that is when the slice is whole or no dimension before it has
  more than one index, for the view computes its strides from its own shape
  (`tensor.cpp:136`). "GEMM任务" (the GEMM task, `gpu_scheduler.hpp:86`) answers for
  every square matrix and for no other: the leading dimensions of
  `gpu_scheduler.cpp:73` lead out of memory or are refused.  Left out is the softmax
  of a tensor of three or more dimensions, which is taken as one row
  (`softmax.cpp:88`, in the branch "Last axis", line 79).  The references (`Group`,
  `MeansRow`, `MeansOneHot`, `MeansView`, `MeansGemm`) are those of the headers: over
  the last axis, one 1 at the first largest element, the tensor's own elements, the
  product.
* `NameKept`: only as long as no Create met an existing object and no segment
  unlinked the name twice (`ipc_bridge.cpp:54`, `:111`).
* `ManagerKept`: the callbacks left are the right ones while at most one was
  removed (`device.cpp:181`).
* `AccountingExact`: up to what clear and reset_stats dropped.
* `NullExplained`: lists the cases in which Allocate answers null with memory
  left.  One is `is_expanding_` left raised by a failed operator new
  (`pool_bridge.cpp:72`), which leaves Allocate as an exception although it
  "失败返回 nullptr，不抛异常" (returns nullptr on failure and does not throw,
  `README.md:227` of the repository): `NullExplained` says that the flag then stays
  raised and that no Allocate of the pool expands again.

Fairness: in `mpsc`, a producer that won its compare-and-swap finishes, and the
consumer keeps calling Pop; nothing is assumed of producers still competing.
In `pool`, threads inside the pool's code keep running (weak fairness) and a
thread that asks for a mutex again and again gets it (strong fairness, since
the mutex is taken and released in between); clients may stop at any time.  In
`graph`, execute's loop and the pool's threads keep running; functions that
never return are outside the property, and functions that fail or throw make
execute poll for ever, so `ExecuteReturns` is stated for functions that succeed.
No run checks for deadlock: every component may come to rest when its clients
stop calling.

## 4. Proofs

Each proof module shows that an invariant holds initially, is kept by every action
(one lemma per action, or per group of actions that do the same to the state) and
implies the properties of the run; the last step is temporal.  The theorems hold for
every value of the constants that the named assumptions allow.  These only say that
sizes are naturals, that sets that are counted are finite, that placeholder values
are not real ones, and that warps and blocks are powers of two, as the halving loops
of the kernels need and their launches choose (`KernelAssumption`), and that tensors
have at least one dimension, all above 0, and integer elements (`OperatorAssumption`:
the reductions and softmax read element 0 without looking); TLC evaluates them in the
runs.  No theorem has another hypothesis, except those of the MPSC queue (`1 \notin
ReserveSizes`; the run `mpsc_reserve` shows what happens otherwise).

**`MPSCQueueProofs`**: `QueueSafe`, `QueueTypeOK`, `QueueOccupancy`,
`QueueNoSlotShared`, `QueueRefusedOnlyWhenFull` (an action property) and
`QueueImplementsFIFO` (refinement).  `QueueInv` adds to the properties what the
algorithm relies on: the sequence number of every node of the current round as
a function of the positions and of who has claimed what (`WindowInv`); that
nodes never fall back to a popped position (`PastInv`), which is what makes a
stale `pos` harmless; what a producer knows after reading `pos` and the
sequence number (`LoadedInv`); that owners hold distinct positions between the
two shared ones (`OwnersInv`); and where the consumer is (`ConsumerInv`).  The
arithmetic of the ring enters through three lemmas about `Slot` (type,
injectivity within a round, period).

**`SPSCQueueProofs`**: `SPSCSafe`, `SPSCTypeOK`, `SPSCNoSlotShared` and
`SPSCImplementsFIFO`.  `SPSCInv` says that what each side has learnt from the
other's index (there is room; there is an item) stays true until it is done.

**The refinements.**  The abstract queue is a function of the ring, so a step
of the code is a step of `BoundedFIFO` exactly when it changes that function.
The compare-and-swap of a producer is Claim, its store of the sequence number is
Publish, the consumer's read is Take, in the SPSC ring the store of an index is
Put; Init and Destroy are Reset, Reserve is Grow, and all else stutters.
`RefineInv` adds what the safety proofs do not need: the value a producer holds
is an item, and from the plain store until the publication it stays in the node
or slot.  Each of the two modules begins with lemmas that relate queues written as
functions on `1..n` to Append, Tail and EXCEPT (`FnSeq`, `FnAppend`, `FnTail`).

**`ThreadPoolProofs`**: `PoolSafe`, `PoolTypeOK`, `PoolCountersExact`,
`PoolTaskConserved`, `PoolDrained`, `PoolWaitAllMeansRun`, for any number of
threads and tasks.  `active_`, `queued_` and `completed_` change outside the
mutex, so each is equated to a cardinality: the workers between two of their
statements.  `PoolInv` adds that an accepted task is in one place (queued, with
one worker, or run once; `PlacesInv`) and what the destructor can rely on: a
worker leaves only when nothing is queued and nothing more can be (`ExitInv`).
The lemmas count how such a set changes when
one thread moves.

**`GraphExecutorProofs`**: `ExecutorSafe`, `ExecutorTypeOK`,
`ExecutorRunningCovers`, `ExecutorRunsOnce`, `ExecutorDependencyOrder`,
`ExecutorOkMeansAllRun`, `ExecutorCompletedExact`.  `ExecutorInv` says which phase each
task of a clean call is in (untouched, queued, run, marked, or left behind by an
exception), what the two sets of ids and the status say then (`Phase`), that a
task about to be claimed, queued or run has its dependencies completed
(`Released`), that `completed_` counts the marked tasks (`WorkInv`), and why
execute returns (`ReturnInv`).

**`MemoryPoolsProofs`**: `PoolsSafe`, `MemoryStackLinked`, `MemoryOneOwner`,
`MemoryFitsRequest`, `MemoryChunkLimit`, `MemoryNullExplained`, for any number of
threads, chunks and blocks and all three designs.  `PoolsInv` gives every block one
home (a free list, a cache, a thread in the middle of an operation, a client;
`Homes`, `Once`), keeps it in its class (`ClassKept`), describes what a thread at
each statement holds (`Shape`) and has read (`Reads`), the links of the free lists
and of chains about to be pushed (`Linked`) and the chunk counters (`Counted`).
`FlagHeld` says who raised `is_expanding_`: the only thread that expands, or one that
operator new threw out of Allocate, after which none does; a step does one of four
things to it (`FlagMoves`), and `FlagKept` needs nothing else of the step. `PoolsInv`
holds while `fate` is "runs" or "terminated"; the size of a client's block and the
limit of the chunks are proved for the step that ends the behaviour, too.  The proof
attempt showed that two CASE expressions of the model had arms that overlap, of which
TLC takes the first; they are disjoint now.

**`WorkProofs`**: `SchedulerOrderKept`, `LegacyPoolKept`, `TaskGraphEdgesKept`,
`TaskGraphKept` and `WorkKernelsKept`.  `SchedInv` counts the tasks of `GpuScheduler`
through: done, then the one the worker holds, then those queued, are 1, 2, 3 and so
on, across shutdowns and restarts; and once `running_` is cleared a worker has one
task left to take only while it stands between its read of `running_` and the pop.
`LegacyInv` has every task in one place (`TasksOnce`), the counters as numbers of
workers at given statements (`CountersFollow`), and what WaitAll and Shutdown may
leave (`GapCounted`, `LeftLate`).  `TaskGraphEdgesKept` is the part of `GraphKept`
that is about the maps (`EdgesAgree`): an edge stands as often in `edges_` as in
`rev_edges_`, duplicate edges included, and a build with asserts has no edge and no
entry of `edges_` without its tasks.  `EdgeInv` is that and the types; the work is in
`ErasedCount`, that erase(remove()) takes every copy of an id and no other.
`TaskGraphKept` is all of `GraphKept`, for any finite set of ids (`TaskAssumption`)
and any order in which `tasks_` is walked.  The dfs is a recursive function, so the
first lemmas show that one exists (`CallsExist`, by how many ids are not visited yet)
and that the loop inside it goes through states that can be named (`LoopTrace`).
`DfsMeets` is the heart: a call that finds the stack to be ancestors and the result
in order either returns with all that is reached from its id added in order, or with
a cycle (`Met`, `Within`); `SortFinds` reads `topological_sort` and `is_dag` off
that.  For `depends_on` every function that meets its loop's equation is shown to be
reachability through ids not visited (`Meets`, `SearchMeets`), backwards through
`rev_edges_`, and the two maps being one graph turns that around (`PathBack`).
`WorkKernelsKept` rests on `KernelInv`: warps that share memory are at most one
segment apart, as the barriers leave them (`KernelTypes`); `SharedKept` says what
every cell of shared memory holds after each segment, for each kernel, `OutKept` that
a warp that finished has written its cells of the result, and `OutsideKept` that in a
softmax launch that overflows no block gets past its third segment. `StepKept`
reduces a step to what one warp does to its own cells (`MayRun` says what it may find
there), which one lemma per kernel shows (`MapStep`, `SumStep`, `MaxStep`, `RmsStep`,
`LayerStep`, `SoftmaxStep`, `OverflowStep`).  Under it are the reductions as
mathematics: sums and maxima over parts that make up a set (`FoldParts`), which
thread of which block takes which element (`PairsIs`, `ColumnsIs`, `MapIs`), the
shuffle loop as a fold over the lanes (`WarpReduces`), the halving tree (`TreeStep`,
`PowerHalves`) and the identity the layer norm's variance uses (`SpreadIs`).

**`OperatorsProofs`**: `WorkOperatorsKept`, for every shape, every content and every
GEMM size.  A behaviour is one call, so the invariant is what the call left behind:
`OpInv` says that memory is as before until the call, and afterwards that the answer
is the value of the loops of one of the operators on the contents before it
(`DidElementwise` to `DidGemm`).  All the work is in showing that these values are what
the operators mean.  The loops are recursive functions: `ForExists` gives the
states one goes through, and induction on the elements passed says what holds in
each of them, one lemma per loop body (a sum, a maximum, the first largest element,
an element written, a row written).  In-place calls are the case where the loop
reads what it wrote (`InPlaceMeets`); that fill's copies double and still stop at the
end is its loop's invariant (`Filled`).  Rows are intervals of flat memory and sums
over a row are sums over a part of all elements (`RowIsCut`, `RowSum`), which is what
softmax, hardmax and the normalisations owe (`SoftmaxMeets`, `HardmaxMeets`,
`NormMeets`); the variance of the code, a sum of squared differences, is the spread of
the reference by the identity of `SpreadIs`.  For views the reference address of an
element is how many indices come before it in lexicographic order; the offsets that
strides give are in that order and leave none out (`DigitsIs` finds the index of
each), so the count is the offset (`AddressIs`).  A transposed view swaps strides and
indices alike (`SwapOffset`), and a slice moves on by whole strides (`ShiftOffset`),
which agree with the tensor's from the cut dimension on (`SameStrides`) and so are right
when it is whole or all dimensions before it are 1.  In all other slices some stride
is smaller than the tensor's (`SmallerStrides`), and an element is found whose address
is another's (`SliceIsNot`).  In a tensor that is no matrix a largest element lacks its 1
(`HardmaxMeets`), and matrices that are not square are refused or left (`GemmStays`).

**`ResourcesProofs`**: `DeviceManagerKept`, `SharedDescriptorsKept`,
`SharedNameKept`, `TensorValuesKept`, `ResourcesOwnedOnce`, `AccountingKept`: all
that the run `resources` checks.  `DeviceInv`: ids of callbacks are positions until
the first removal.  `ShmInv`: each open descriptor and mapping is counted once
(`Counted`), at most one live creator owns the name and only it truncates
(`NameOwned`).  `OwnedOnce` counts owners; the invariants say instead that a block
that exists has an owner and no two (`Owning`), which the operations keep in five
lemmas (freed, given, lent, passed on, moved), and `OneOwnerCounted` comes back to
the count.  `BufInv` adds that a handle knows the size and the device of its block,
`TenInv` that a tensor lies on the device it names and (`Faithful`) that it meets
what is due to it and that no two tensors are at one address: without the second part
a write through one tensor could change what another should hold.  `FaithPut`,
`FaithVacated`, `FaithAssigned`, `FaithWritten` and `FaithMoved` keep it, one per way
of changing the memory. `GpuInv` that owners own managed memory, and `StreamInv` that
Streams, the current stream and the pool are apart.  `AllocInv` says that a block in
the hands of a client or of a thread between the two steps of a call is in no other
hands, which is why the map and the statistics stay exact; `CudaInv` is `GpuInv` with
the sum of the bytes.  Sums over a set of addresses are recursive functions: that
they exist, are unique and do not depend on the order is proved with a minimal
counterexample among the subsets of the finite set (`SubsetMin`, from the library's
theorem that well-founded orders have minimal elements), which takes the place of an
induction rule.

Every safety invariant and every action property that a passing run checks is a
theorem, and so are both refinements.  Only model-checked is liveness
(`EveryClaimPopped`, `EveryTaskRuns`, `ExecuteReturns`), which needs fairness and is
out of the prover's reach.

## 5. Plan

The modules are written and their safety properties are proved.  What could follow is
in the next section.

## 6. Not modelled

* `MemoryPoolManager` (a table of pools) and the statistics of the pools.
* `softmax_stable`'s kernel launch from device code, and the bridge's
  `reduce_max`, a host loop over its argument.
* Random factories of `Tensor`, conversion between element types, printing;
  sampling and attention, which are declared and not defined.
* Weights, biases, rounding and special values of floating point.
* `SpinLock`, and what clients keep inside a shared-memory segment; CUDA events and
  queries.
* A 64-bit queue position that wraps around.
* Core utilities (status, types, logging, configuration, timing, the kernel
  registry) and the benchmark runner: values and formatting, no state that a
  property could be about.
