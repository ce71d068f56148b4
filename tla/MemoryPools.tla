---------------------------- MODULE MemoryPools ----------------------------
(***************************************************************************)
(* The fixed-size pools, the slab allocators and the thread caches over    *)
(* the lock-free free list (memory/memory_pool.hpp, bridges/pool_bridge).  *)
(* A step is one access to a free list's head, to a node's link, to a      *)
(* mutex or to an atomic flag.  The variable design says which class the   *)
(* threads share: "fixed" and "slab" are those of memory_pool.hpp,         *)
(* "bridge" is the FixedSizeMemoryPool of pool_bridge.cpp; the two slab    *)
(* allocators differ in which sizes they refuse only.                      *)
(*                                                                         *)
(* The free list compares pointers, so a compare-and-swap can succeed on a *)
(* head that was popped and pushed again since it was read; a cache takes  *)
(* the last element of an empty vector; and operator new can fail in a     *)
(* function that is noexcept.  The variable fate records these, and Next   *)
(* follows such a behaviour no further.                                    *)
(***************************************************************************)
EXTENDS Integers, Sequences, FiniteSets

CONSTANTS Threads,      \* the threads that share a pool
          Caching,      \* those that put a TlsCache in front of it
          Null,         \* nullptr
          Designs,      \* the classes to explore
          Requests,     \* the sizes asked of a slab allocator
          ChunkBlocks,  \* blocks_per_chunk_ of a fixed pool and of a slab
          BridgeBlocks, \* blocks_per_chunk_ of a bridge pool
          GrowFactor,   \* its grow_factor_
          MaxChunks,    \* max_chunks_ of a bridge pool, 0 for no limit
          BatchSize,    \* kBatchSize
          MaxBlocks     \* bound: blocks the operating system provides

VARIABLES design,   \* the class in use
          head,     \* head_ of the free list of each size class
          next,     \* the link in each block
          class,    \* size class of each block made so far
          chunks,   \* chunks_.size()
          mtx,      \* holder of the mutex of each size class
          flag,     \* is_expanding_
          r,        \* what each thread is doing
          held,     \* blocks each thread's client holds, with the size asked for
          cache,    \* cache_ of each thread's TlsCache
          tls,      \* whether that object exists
          stack,    \* history: each free list as a sequence
          stale,    \* history: threads whose head was popped since they read it
          stolen,   \* history: blocks others popped since a thread expanded
          dropped,  \* history: blocks that were in a destroyed cache
          left,     \* history: an exception left is_expanding_ raised
          fate      \* history: "runs", or what ended the behaviour

vars == <<design, head, next, class, chunks, mtx, flag, r, held, cache, tls, stack,
          stale, stolen, dropped, left, fate>>

kSizes == <<16, 32, 64, 128, 256, 512, 1024, 4096>>

Classes == 1..Len(kSizes)

\* Chunks have blocks, and larger requests do not reach a size class.
ASSUME PoolsAssumption ==
  /\ Null \notin Nat
  /\ Designs \subseteq {"fixed", "slab", "bridge"}
  /\ Requests \subseteq 0..kSizes[Len(kSizes)]
  /\ {ChunkBlocks, BridgeBlocks, GrowFactor, BatchSize} \subseteq Nat \ {0}
  /\ MaxChunks \in Nat /\ MaxBlocks \in Nat
  /\ BridgeBlocks <= MaxBlocks

\* The size class that serves a size: the first one that is large enough.
IndexFor(size) ==
  CHOOSE i \in Classes : size <= kSizes[i] /\ \A j \in 1..(i - 1) : size > kSizes[j]

Blocks == 1..Len(class)

\* A fixed-size pool serves its block size only: class 1 stands for it.
Asked == IF design = "slab" THEN Requests ELSE {kSizes[1]}

\* Blocks of the next chunk; a bridge pool has its first chunk from the start.
NextChunk == IF design = "bridge" THEN GrowFactor * BridgeBlocks ELSE ChunkBlocks

Idle == [pc |-> "idle", op |-> "none", try |-> 0, cls |-> 1, size |-> 0,
         h |-> Null, n |-> Null, todo |-> <<>>]

FirstChunk == [i \in 1..BridgeBlocks |-> BridgeBlocks - i + 1]

\* The bridge pool's constructor calls Expand, the others start empty.
Init ==
  /\ design \in Designs
  /\ LET first == IF design = "bridge" THEN FirstChunk ELSE <<>> IN
     /\ stack = [c \in Classes |-> IF c = 1 THEN first ELSE <<>>]
     /\ head = [c \in Classes |-> IF c = 1 /\ first # <<>> THEN first[1] ELSE Null]
     /\ next = [b \in 1..MaxBlocks |-> IF b \in 2..Len(first) THEN b - 1 ELSE Null]
     /\ class = [i \in 1..Len(first) |-> 1]
     /\ chunks = IF first = <<>> THEN 0 ELSE 1
  /\ mtx = [c \in Classes |-> Null]
  /\ flag = FALSE
  /\ r = [t \in Threads |-> Idle]
  /\ held = [t \in Threads |-> {}]
  /\ cache = [t \in Threads |-> <<>>]
  /\ tls = [t \in Threads |-> "none"]
  /\ stale = {} /\ dropped = {} /\ left = FALSE /\ fate = "runs"
  /\ stolen = [t \in Threads |-> 0]

-----------------------------------------------------------------------------
(* What a thread does when a call of Allocate has its answer.              *)

Become(t, rec) == r' = [r EXCEPT ![t] = rec]

AllocateAgain(t) == [r[t] EXCEPT !.pc = "pop_load", !.try = 1, !.h = Null, !.n = Null]

Unlock(t) == mtx' = [c \in Classes |-> IF mtx[c] = t THEN Null ELSE mtx[c]]

\* Allocate returns b (or Null), to the client or to TlsCache::Refill.
Finish(t, b) ==
  /\ Unlock(t)
  /\ IF r[t].op = "alloc"
     THEN /\ Become(t, Idle)
          /\ held' = [held EXCEPT ![t] = IF b = Null THEN @ ELSE @ \cup {<<b, r[t].size>>}]
          /\ UNCHANGED cache
     ELSE /\ cache' = [cache EXCEPT ![t] = IF b = Null THEN @ ELSE Append(@, b)]
          /\ Become(t, IF b # Null /\ Len(cache[t]) + 1 < BatchSize
                       THEN AllocateAgain(t)
                       ELSE IF r[t].op = "fill" THEN Idle ELSE [Idle EXCEPT !.pc = "get"])
          /\ UNCHANGED held

\* Pop found the list empty: the first Pop of an Allocate leads to an expansion
\* (after a second look under the mutex in a slab), the last one to a null answer.
Empty(t) ==
  \/ r[t].try > 2 /\ Finish(t, Null)
  \/ /\ r[t].try <= 2
     /\ LET pc == IF r[t].try = 2 \/ design = "fixed" THEN "expand"
                  ELSE IF design = "slab" THEN "lock" ELSE "flag" IN
        Become(t, [r[t] EXCEPT !.pc = pc, !.h = Null, !.n = Null])
     /\ UNCHANGED <<mtx, held, cache>>

AtLimit == MaxChunks > 0 /\ chunks >= MaxChunks

-----------------------------------------------------------------------------
(* LockFreeStack                                                           *)

Unmoved == <<design, class, chunks, flag, tls, dropped, left>>

\* The head, read by the load or by a failed compare-and-swap.
ReadHead(t) ==
  /\ stale' = stale \ {t}
  /\ IF head[r[t].cls] = Null
     THEN Empty(t)
     ELSE /\ Become(t, [r[t] EXCEPT !.pc = "pop_next", !.h = head[r[t].cls], !.n = Null])
          /\ UNCHANGED <<mtx, held, cache>>
  /\ stolen' = IF head[r[t].cls] = Null THEN [stolen EXCEPT ![t] = 0] ELSE stolen
  /\ UNCHANGED <<Unmoved, head, next, stack, fate>>

PopLoad(t) == r[t].pc = "pop_load" /\ ReadHead(t)

PopNext(t) ==
  /\ r[t].pc = "pop_next"
  /\ Become(t, [r[t] EXCEPT !.pc = "pop_cas", !.n = next[r[t].h]])
  /\ UNCHANGED <<Unmoved, head, next, mtx, held, cache, stack, stale, stolen, fate>>

\* compare_exchange_weak fails because the head moved, or spuriously.
PopRetry(t) == r[t].pc = "pop_cas" /\ ReadHead(t)

PopCas(t) ==
  LET c == r[t].cls
      b == r[t].h IN
  /\ r[t].pc = "pop_cas"
  /\ head[c] = b
  /\ head' = [head EXCEPT ![c] = r[t].n]
  /\ fate' = IF t \in stale THEN "recycled" ELSE fate
  /\ stack' = [stack EXCEPT ![c] = IF @ = <<>> THEN @ ELSE Tail(@)]
  /\ stale' = (stale \cup {u \in Threads : r[u].pc \in {"pop_next", "pop_cas"} /\ r[u].h = b})
              \ {t}
  /\ stolen' = [u \in Threads |-> IF u = t THEN 0
                                  ELSE IF r[u].try = 3 /\ r[u].cls = c /\ stolen[u] < NextChunk
                                  THEN stolen[u] + 1 ELSE stolen[u]]
  /\ next' = [next EXCEPT ![b] = Null]   \* the client writes over the link
  /\ Finish(t, b)
  /\ UNCHANGED Unmoved

Quiet == <<Unmoved, held, cache, stale, stolen, fate>>

\* The block at hand is linked to the head just read.
PushLink(t) ==
  /\ r[t].pc = "push_link"
  /\ LET h == head[r[t].cls] IN
     /\ next' = [next EXCEPT ![Head(r[t].todo)] = h]
     /\ Become(t, [r[t] EXCEPT !.pc = "push_cas", !.h = h])
  /\ UNCHANGED <<Quiet, head, mtx, stack>>

PushRetry(t) ==
  /\ r[t].pc = "push_cas"
  /\ Become(t, [r[t] EXCEPT !.pc = "push_link", !.h = Null])
  /\ UNCHANGED <<Quiet, head, next, mtx, stack>>

\* Where a thread goes when it has pushed its last block: a Deallocate or Flush
\* is over, an expansion goes on to the flag or to its last Pop.
AfterPushes(t) ==
  IF r[t].op \in {"free", "grow"} THEN Idle
  ELSE IF design = "bridge" THEN [r[t] EXCEPT !.pc = "unflag", !.h = Null, !.todo = <<>>]
  ELSE [r[t] EXCEPT !.pc = "pop_load", !.try = 3, !.h = Null, !.todo = <<>>]

\* Mutant: Push stores the head instead of comparing and swapping it.
PushStore(t) ==
  LET c == r[t].cls
      b == Head(r[t].todo) IN
  /\ r[t].pc = "push_cas"
  /\ head' = [head EXCEPT ![c] = b]
  /\ stack' = [stack EXCEPT ![c] = <<b>> \o @]
  /\ IF Len(r[t].todo) > 1
     THEN /\ Become(t, [r[t] EXCEPT !.pc = "push_link", !.h = Null, !.todo = Tail(@)])
          /\ UNCHANGED mtx
     ELSE /\ Become(t, AfterPushes(t))
          /\ IF design = "bridge" THEN Unlock(t) ELSE UNCHANGED mtx
  /\ UNCHANGED <<Quiet, next>>

PushCas(t) ==
  LET c == r[t].cls
      b == Head(r[t].todo) IN
  /\ r[t].pc = "push_cas"
  /\ head[c] = r[t].h
  /\ head' = [head EXCEPT ![c] = b]
  /\ stack' = [stack EXCEPT ![c] = <<b>> \o @]
  /\ IF Len(r[t].todo) > 1
     THEN /\ Become(t, [r[t] EXCEPT !.pc = "push_link", !.h = Null, !.todo = Tail(@)])
          /\ UNCHANGED mtx
     ELSE /\ Become(t, AfterPushes(t))
          /\ IF design = "bridge" THEN Unlock(t) ELSE UNCHANGED mtx
  /\ UNCHANGED <<Quiet, next>>

-----------------------------------------------------------------------------
(* Expansion                                                               *)

\* Mutant: the loop of an expansion leaves the chunk's last block out.
ShortChunk(n) == n - 1

\* Blocks that an expansion pushes, of the n of a chunk.
Pushed(n) == n

Still == <<design, head, next, held, cache, tls, stack, stale, dropped, left, fate>>

\* A new chunk of n blocks, to be pushed one by one.
NewChunk(t, n) ==
  /\ Len(class) + n <= MaxBlocks
  /\ class' = class \o [i \in 1..n |-> r[t].cls]
  /\ chunks' = chunks + 1
  /\ stolen' = [stolen EXCEPT ![t] = 0]
  /\ Become(t, [r[t] EXCEPT !.pc = "push_link", !.try = 3, !.h = Null,
                            !.todo = [i \in 1..Pushed(n) |-> Len(class) + i]])

\* FixedSizeMemoryPool::Expand and the slab's expansion under its mutex
\* (memory_pool.hpp).
Expand(t) ==
  /\ r[t].pc = "expand"
  /\ NewChunk(t, NextChunk)
  /\ UNCHANGED <<Still, mtx, flag>>

\* A slab's second look: lock its mutex and Pop again.
SlabLock(t) ==
  /\ design = "slab"
  /\ r[t].pc = "lock"
  /\ mtx[r[t].cls] = Null
  /\ mtx' = [mtx EXCEPT ![r[t].cls] = t]
  /\ Become(t, [r[t] EXCEPT !.pc = "pop_load", !.try = 2])
  /\ UNCHANGED <<Quiet, head, next, stack>>

\* Bridge pool: one thread expands, the others try Pop once more.
TakeFlag(t) ==
  /\ r[t].pc = "flag"
  /\ flag' = TRUE
  /\ Become(t, IF flag THEN [r[t] EXCEPT !.pc = "pop_load", !.try = 4]
                ELSE [r[t] EXCEPT !.pc = "check"])
  /\ UNCHANGED <<Still, class, chunks, mtx, stolen>>

Return(t) == Become(t, IF r[t].op = "grow" THEN Idle ELSE [r[t] EXCEPT !.pc = "unflag"])

\* Expand looks at the limit, releases the mutex, and takes it again.
CheckLimit(t) ==
  /\ r[t].pc = "check"
  /\ mtx[1] = Null
  /\ IF AtLimit THEN Return(t) ELSE Become(t, [r[t] EXCEPT !.pc = "lock"])
  /\ UNCHANGED <<Still, class, chunks, mtx, flag, stolen>>

\* Mutant: Expand does not look at the limit again under the mutex.
ExpandUnchecked(t) ==
  /\ design = "bridge"
  /\ r[t].pc = "lock"
  /\ mtx[1] = Null
  /\ NewChunk(t, NextChunk)
  /\ mtx' = [mtx EXCEPT ![1] = t]
  /\ UNCHANGED <<Still, flag>>

\* The second look at the limit, under the mutex that the pushes keep.
ExpandLocked(t) ==
  /\ design = "bridge"
  /\ r[t].pc = "lock"
  /\ mtx[1] = Null
  /\ IF AtLimit
     THEN Return(t) /\ UNCHANGED <<class, chunks, mtx, stolen>>
     ELSE NewChunk(t, NextChunk)
          /\ mtx' = [mtx EXCEPT ![1] = t]
  /\ UNCHANGED <<Still, flag>>

\* An exception leaves the call that t is in: Allocate, Expand or Get, or the
\* constructor of a cache, whose blocks are then nobody's.
Leave(t) ==
  /\ Become(t, Idle)
  /\ IF r[t].op = "fill"
     THEN /\ tls' = [tls EXCEPT ![t] = "gone"]
          /\ cache' = [cache EXCEPT ![t] = <<>>]
          /\ dropped' = dropped \cup {cache[t][i] : i \in 1..Len(cache[t])}
     ELSE UNCHANGED <<tls, cache, dropped>>

\* operator new fails in the Expand of a pool: the exception releases the mutex
\* and passes Allocate, which has no handler and does not lower is_expanding_.
NewThrows(t) ==
  /\ design # "slab"
  /\ r[t].pc = (IF design = "bridge" THEN "lock" ELSE "expand")
  /\ design = "bridge" => mtx[1] = Null /\ ~AtLimit
  /\ Leave(t)
  /\ left' = (left \/ (design = "bridge" /\ r[t].op # "grow"))
  /\ UNCHANGED <<design, head, next, class, chunks, mtx, flag, held, stack, stale, stolen, fate>>

\* The slab's Allocate is noexcept: the program ends.
NewTerminates(t) ==
  /\ design = "slab" /\ r[t].pc = "expand"
  /\ fate' = "terminated"
  /\ UNCHANGED <<design, head, next, class, chunks, mtx, flag, r, held, cache, tls, stack, stale,
                 stolen, dropped, left>>

ReleaseFlag(t) ==
  /\ r[t].pc = "unflag"
  /\ flag' = FALSE
  /\ Become(t, [r[t] EXCEPT !.pc = "pop_load", !.try = 3])
  /\ UNCHANGED <<Still, class, chunks, mtx, stolen>>

-----------------------------------------------------------------------------
(* Calls                                                                   *)

Start(t) ==
  /\ r[t].pc = "idle"
  /\ UNCHANGED <<design, head, next, class, chunks, mtx, flag, stack, stale, stolen, left, fate>>

Allocate(t) ==
  /\ Start(t)
  /\ \E s \in Asked :
       Become(t, [Idle EXCEPT !.pc = "pop_load", !.op = "alloc", !.try = 1, !.size = s,
                              !.cls = IndexFor(s)])
  /\ UNCHANGED <<held, cache, tls, dropped>>

Pushing(blocks, c) == [Idle EXCEPT !.pc = "push_link", !.op = "free", !.cls = c, !.todo = blocks]

\* Mutant: Deallocate takes the first size class above the size.
ToNextClass(t) ==
  /\ Start(t)
  /\ \E p \in held[t] :
       /\ held' = [held EXCEPT ![t] = @ \ {p}]
       /\ Become(t, Pushing(<<p[1]>>, IndexFor(p[2] + 1)))
  /\ UNCHANGED <<cache, tls, dropped>>

\* A slab finds the size class from the size of the request, which its client or
\* the bridge's size_map_ kept.
Deallocate(t) ==
  /\ Start(t)
  /\ \E p \in held[t] :
       /\ held' = [held EXCEPT ![t] = @ \ {p}]
       /\ Become(t, Pushing(<<p[1]>>, IndexFor(p[2])))
  /\ UNCHANGED <<cache, tls, dropped>>

\* A client of a bridge pool may call Expand itself.
CallExpand(t) ==
  /\ design = "bridge"
  /\ Start(t)
  /\ Become(t, [Idle EXCEPT !.pc = "check", !.op = "grow"])
  /\ UNCHANGED <<held, cache, tls, dropped>>

-----------------------------------------------------------------------------
(* TlsCache                                                                *)

Refilling(op) == [Idle EXCEPT !.pc = "pop_load", !.op = op, !.try = 1]

\* The bridge's constructor fills the cache.
NewCache(t) ==
  /\ t \in Caching /\ design # "slab"
  /\ tls[t] = "none"
  /\ Start(t)
  /\ tls' = [tls EXCEPT ![t] = "live"]
  /\ Become(t, IF design = "bridge" THEN Refilling("fill") ELSE Idle)
  /\ UNCHANGED <<held, cache, dropped>>

Get(t) ==
  /\ tls[t] = "live"
  /\ Start(t)
  /\ Become(t, IF cache[t] = <<>> THEN Refilling("refill") ELSE [Idle EXCEPT !.pc = "get"])
  /\ UNCHANGED <<held, cache, tls, dropped>>

\* The last block of the cache.  On an empty one, the bridge asks the pool once
\* more.
GetBack(t) ==
  /\ r[t].pc = "get"
  /\ \/ /\ cache[t] # <<>>
        /\ held' = [held EXCEPT ![t] = @ \cup {<<cache[t][Len(cache[t])], kSizes[1]>>}]
        /\ cache' = [cache EXCEPT ![t] = SubSeq(@, 1, Len(@) - 1)]
        /\ Become(t, Idle)
     \/ /\ cache[t] = <<>> /\ design = "bridge"
        /\ Become(t, [Refilling("alloc") EXCEPT !.size = kSizes[1]])
        /\ UNCHANGED <<held, cache>>
  /\ UNCHANGED <<design, head, next, class, chunks, mtx, flag, tls, stack, stale, stolen,
                 dropped, left, fate>>

\* memory_pool.hpp takes back() and pop_back() of a vector that may be empty after
\* a Refill that got nothing: the caller gets whatever is in front of the storage,
\* a block somebody else owns or no block at all, and the size wraps around.
GetUnderflow(t) ==
  /\ r[t].pc = "get" /\ cache[t] = <<>> /\ design # "bridge"
  /\ \/ \E b \in Blocks : held' = [held EXCEPT ![t] = @ \cup {<<b, kSizes[1]>>}]
     \/ UNCHANGED held
  /\ fate' = "underflow"
  /\ Become(t, Idle)
  /\ UNCHANGED <<design, head, next, class, chunks, mtx, flag, cache, tls, stack, stale, stolen,
                 dropped, left>>

\* Mutant: Flush frees the blocks and leaves them in cache_.
PutKeeping(t) ==
  /\ tls[t] = "live"
  /\ Start(t)
  /\ \E p \in held[t] :
       LET full == IF design = "bridge" THEN Append(cache[t], p[1]) ELSE cache[t]
           limit == IF design = "bridge" THEN 2 * BatchSize ELSE BatchSize IN
       /\ held' = [held EXCEPT ![t] = @ \ {p}]
       /\ cache' = [cache EXCEPT ![t] = Append(@, p[1])]
       /\ Become(t, IF Len(full) >= limit THEN Pushing(full, 1) ELSE Idle)
  /\ UNCHANGED <<tls, dropped>>

\* memory_pool.hpp flushes a full cache before it adds the block, the bridge
\* after, and at twice the size.
Put(t) ==
  /\ tls[t] = "live"
  /\ Start(t)
  /\ \E p \in held[t] :
       LET full == IF design = "bridge" THEN Append(cache[t], p[1]) ELSE cache[t]
           limit == IF design = "bridge" THEN 2 * BatchSize ELSE BatchSize
           flush == Len(full) >= limit IN
       /\ held' = [held EXCEPT ![t] = @ \ {p}]
       /\ cache' = [cache EXCEPT ![t] = IF ~flush THEN Append(@, p[1])
                                        ELSE IF design = "bridge" THEN <<>> ELSE <<p[1]>>]
       /\ Become(t, IF flush THEN Pushing(full, 1) ELSE Idle)
  /\ UNCHANGED <<tls, dropped>>

\* ~TlsCache flushes in memory_pool.hpp; the bridge's class has no destructor and
\* the blocks it caches never return to the pool.
DropCache(t) ==
  /\ tls[t] = "live"
  /\ Start(t)
  /\ tls' = [tls EXCEPT ![t] = "gone"]
  /\ cache' = [cache EXCEPT ![t] = <<>>]
  /\ IF design = "bridge" \/ cache[t] = <<>>
     THEN /\ dropped' = dropped \cup {cache[t][i] : i \in 1..Len(cache[t])}
          /\ Become(t, Idle)
     ELSE Become(t, Pushing(cache[t], 1)) /\ UNCHANGED dropped
  /\ UNCHANGED held

Step(t) ==
  \/ Allocate(t) \/ Deallocate(t) \/ CallExpand(t)
  \/ PopLoad(t) \/ PopNext(t) \/ PopCas(t) \/ PopRetry(t)
  \/ PushLink(t) \/ PushCas(t) \/ PushRetry(t)
  \/ Expand(t) \/ SlabLock(t) \/ TakeFlag(t) \/ CheckLimit(t) \/ ExpandLocked(t)
  \/ ReleaseFlag(t) \/ NewThrows(t) \/ NewTerminates(t)
  \/ NewCache(t) \/ Get(t) \/ GetBack(t) \/ GetUnderflow(t) \/ Put(t) \/ DropCache(t)

Next == fate = "runs" /\ \E t \in Threads : Step(t)

Spec == Init /\ [][Next]_vars

-----------------------------------------------------------------------------
(* Properties                                                              *)

Elements(s) == {s[i] : i \in 1..Len(s)}

\* The links in the blocks spell the free list: every compare-and-swap that did
\* not meet a recycled head took the top block off or put one on top, whatever
\* the other threads did between its read and its swap, and whichever expansions
\* failed.
StackLinked ==
  fate # "recycled" =>
    \A c \in Classes :
      /\ head[c] = IF stack[c] = <<>> THEN Null ELSE stack[c][1]
      /\ \A i \in 1..Len(stack[c]) :
           next[stack[c][i]] = IF i = Len(stack[c]) THEN Null ELSE stack[c][i + 1]

\* How many times a block is found: free, held, cached, about to be pushed, or
\* left behind by a destroyed cache.
Places(b) ==
  Cardinality({c \in Classes : b \in Elements(stack[c])})
  + Cardinality({t \in Threads : \E p \in held[t] : p[1] = b})
  + Cardinality({t \in Threads : b \in Elements(cache[t])})
  + Cardinality({t \in Threads : b \in Elements(r[t].todo)})
  + (IF b \in dropped THEN 1 ELSE 0)

\* A block has one owner and none is lost, a failed operator new included: Allocate
\* never hands a block to two clients, and every block of every chunk is free, in
\* use, in a cache, or was left in a cache that is gone.  Two things break it, a
\* recycled head and Get on an empty cache, and nothing else does.
OneOwner == fate \in {"runs", "terminated"} => \A b \in Blocks : Places(b) = 1

\* A client of a slab allocator holds blocks that are large enough, though blocks
\* of all sizes come and go and only the size given to Deallocate says where a
\* block belongs.
FitsRequest == \A t \in Threads : \A p \in held[t] : p[2] <= kSizes[class[p[1]]]

\* max_chunks_ holds even when Allocate and callers of Expand race.
ChunkLimit == design = "bridge" /\ MaxChunks > 0 => chunks <= MaxChunks

\* The last Pop of t's Allocate finds nothing.
AnswersNull(t) ==
  /\ r[t].try > 2 /\ r[t].pc \in {"pop_load", "pop_cas"}
  /\ r'[t].try # r[t].try /\ head[r[t].cls] = Null

\* t's Allocate finds is_expanding_ raised.
FindsFlag(t) == r[t].pc = "flag" /\ r'[t].pc = "pop_load"

\* u's Allocate is between raising is_expanding_ and lowering it.
Expanding(u) ==
  /\ r[u].op \in {"alloc", "fill", "refill"}
  /\ r[u].pc \in {"check", "lock", "push_link", "push_cas", "unflag"}

\* Allocate answers null only when others popped a whole chunk's worth of blocks
\* behind the caller's expansion, or, in a bridge pool, when the limit was reached
\* or the flag was found raised (try = 4).  It is raised only while another thread
\* expands, or for good when operator new failed in such an expansion: from then on
\* no Allocate of the pool expands it.
NullExplained ==
  [][\A t \in Threads :
       /\ AnswersNull(t) => \/ stolen[t] >= NextChunk
                            \/ design = "bridge" /\ (r[t].try = 4 \/ AtLimit)
       /\ FindsFlag(t) => left \/ \E u \in Threads \ {t} : Expanding(u)
       /\ left => left' /\ flag' /\ ~Expanding(t)']_vars
=============================================================================
