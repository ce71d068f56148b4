----------------------------- MODULE MPSCQueue -----------------------------
(***************************************************************************)
(* The bounded multi-producer single-consumer ring of                      *)
(* include/bridges/impl/ipc_queue_impl.hpp.                                *)
(*                                                                         *)
(* Every atomic access of Push and Pop to shared memory is a step of its   *)
(* own; a step reads or writes one shared location.  pc says which access  *)
(* a producer makes next, cpc which one the consumer makes next.  Init,    *)
(* Destroy and Reserve replace the storage and may only be called while    *)
(* nobody is inside Push or Pop (the comment on Reserve says so).          *)
(*                                                                         *)
(* A call that returns without touching shared state (Push or Pop on a     *)
(* queue without storage, Pop on an empty queue) is a stuttering step.     *)
(* PushBatch and PopBatch are loops around Push and Pop.                   *)
(***************************************************************************)
EXTENDS Integers

CONSTANTS Producers,   \* the threads that call Push
          Items,       \* the values they push
          NoItem,      \* the value of default-constructed storage
          InitSizes,   \* the arguments Init is called with
          ReserveSizes,\* the arguments Reserve is called with
          MaxPos       \* bound: no Push begins once this many were claimed

ASSUME ConstantsAssumption ==
    /\ InitSizes \subseteq Nat
    /\ ReserveSizes \subseteq Nat
    /\ MaxPos \in Nat
    /\ NoItem \notin Items

VARIABLES pool_capacity,  \* 0 stands for pool_ == nullptr
          sequence,       \* pool_[i].sequence
          data,           \* pool_[i].data
          enqueue_pos,
          dequeue_pos,
          pc, pos, item,  \* each producer: next access, local pos, argument
          cpc, cpos, out  \* the consumer: next access, local pos, result

pool == <<pool_capacity, sequence, data>>
producers == <<pc, pos, item>>
consumer == <<cpc, cpos, out>>
vars == <<pool_capacity, sequence, data, enqueue_pos, dequeue_pos,
          pc, pos, item, cpc, cpos, out>>

PushSteps == {"idle", "load", "sequence", "cas", "data", "publish"}
PopSteps == {"idle", "read", "advance", "release"}

\* pos % pool_capacity_, for a pool of c nodes
Slot(k, c) == k % c

Quiescent ==
    /\ \A p \in Producers : pc[p] = "idle"
    /\ cpc = "idle"

\* A new array of c nodes; node i starts with sequence i.
FreshPool(c) ==
    /\ pool_capacity' = c
    /\ sequence' = [i \in 0 .. (c - 1) |-> i]
    /\ data' = [i \in 0 .. (c - 1) |-> NoItem]
    /\ enqueue_pos' = 0
    /\ dequeue_pos' = 0

NoPool == FreshPool(0)

Init ==
    /\ pool_capacity = 0
    /\ sequence = [i \in {} |-> i]
    /\ data = [i \in {} |-> NoItem]
    /\ enqueue_pos = 0
    /\ dequeue_pos = 0
    /\ pc = [p \in Producers |-> "idle"]
    /\ pos = [p \in Producers |-> 0]
    /\ item = [p \in Producers |-> NoItem]
    /\ cpc = "idle"
    /\ cpos = 0
    /\ out = NoItem

-----------------------------------------------------------------------------
(* Storage *)

InitQueue(c) ==
    /\ Quiescent
    /\ IF c < 2 THEN NoPool ELSE FreshPool(c)
    /\ UNCHANGED <<producers, consumer>>

\* Mutant: pool_ is deleted but pool_capacity_ is not reset.
DestroyKeepsCapacity ==
    /\ Quiescent
    /\ pool_capacity' = pool_capacity
    /\ sequence' = [i \in {} |-> i]
    /\ data' = [i \in {} |-> NoItem]
    /\ enqueue_pos' = 0
    /\ dequeue_pos' = 0
    /\ UNCHANGED <<producers, consumer>>

Destroy ==
    /\ Quiescent
    /\ NoPool
    /\ UNCHANGED <<producers, consumer>>

\* Mutant: the test that the queue is empty is missing.
ReserveUnchecked(c) ==
    /\ Quiescent
    /\ c > pool_capacity
    /\ FreshPool(c)
    /\ UNCHANGED <<producers, consumer>>

Reserve(c) ==
    /\ Quiescent
    /\ c > pool_capacity
    /\ enqueue_pos = dequeue_pos
    /\ FreshPool(c)
    /\ UNCHANGED <<producers, consumer>>

-----------------------------------------------------------------------------
(* Push *)

Goto(p, step) == pc' = [pc EXCEPT ![p] = step]

\* Push returns, and its argument and its local variable are gone.
Return(p) ==
    /\ Goto(p, "idle")
    /\ pos' = [pos EXCEPT ![p] = 0]
    /\ item' = [item EXCEPT ![p] = NoItem]

PushCall(p, v) ==
    /\ pc[p] = "idle"
    /\ pool_capacity # 0
    /\ enqueue_pos < MaxPos
    /\ item' = [item EXCEPT ![p] = v]
    /\ Goto(p, "load")
    /\ UNCHANGED <<pool, enqueue_pos, dequeue_pos, pos, consumer>>

\* pos = enqueue_pos_.load(), before the loop and after a lost race
PushLoad(p) ==
    /\ pc[p] = "load"
    /\ pos' = [pos EXCEPT ![p] = enqueue_pos]
    /\ Goto(p, "sequence")
    /\ UNCHANGED <<pool, enqueue_pos, dequeue_pos, item, consumer>>

\* Mutant: any other sequence number counts as a full queue.
PushSequenceImpatient(p) ==
    /\ pc[p] = "sequence"
    /\ LET seen == sequence[Slot(pos[p], pool_capacity)]
       IN  \/ seen = pos[p] /\ Goto(p, "cas") /\ UNCHANGED <<pos, item>>
           \/ seen # pos[p] /\ Return(p)
    /\ UNCHANGED <<pool, enqueue_pos, dequeue_pos, consumer>>

\* The sign of sequence - pos decides: try to claim, give up, or look again.
PushSequence(p) ==
    /\ pc[p] = "sequence"
    /\ LET seen == sequence[Slot(pos[p], pool_capacity)]
       IN  \/ seen = pos[p] /\ Goto(p, "cas") /\ UNCHANGED <<pos, item>>
           \/ seen < pos[p] /\ Return(p)
           \/ seen > pos[p] /\ Goto(p, "load") /\ UNCHANGED <<pos, item>>
    /\ UNCHANGED <<pool, enqueue_pos, dequeue_pos, consumer>>

\* Mutant: a fetch_add in place of the compare-and-swap.
PushClaimUnchecked(p) ==
    /\ pc[p] = "cas"
    /\ enqueue_pos' = enqueue_pos + 1
    /\ pos' = [pos EXCEPT ![p] = enqueue_pos]
    /\ Goto(p, "data")
    /\ UNCHANGED <<pool, dequeue_pos, item, consumer>>

PushClaim(p) ==
    /\ pc[p] = "cas"
    /\ enqueue_pos = pos[p]
    /\ enqueue_pos' = pos[p] + 1
    /\ Goto(p, "data")
    /\ UNCHANGED <<pool, dequeue_pos, pos, item, consumer>>

\* compare_exchange_weak fails when the position moved, or for no reason;
\* either way it stores the current position in pos.
PushClaimFails(p) ==
    /\ pc[p] = "cas"
    /\ pos' = [pos EXCEPT ![p] = enqueue_pos]
    /\ Goto(p, "sequence")
    /\ UNCHANGED <<pool, enqueue_pos, dequeue_pos, item, consumer>>

PushData(p) ==
    /\ pc[p] = "data"
    /\ data' = [data EXCEPT ![Slot(pos[p], pool_capacity)] = item[p]]
    /\ Goto(p, "publish")
    /\ UNCHANGED <<pool_capacity, sequence, enqueue_pos, dequeue_pos,
                   pos, item, consumer>>

\* Mutant: the sequence number is not advanced past the position.
PushPublishStale(p) ==
    /\ pc[p] = "publish"
    /\ sequence' = [sequence EXCEPT ![Slot(pos[p], pool_capacity)] = pos[p]]
    /\ Return(p)
    /\ UNCHANGED <<pool_capacity, data, enqueue_pos, dequeue_pos, consumer>>

PushPublish(p) ==
    /\ pc[p] = "publish"
    /\ sequence' = [sequence EXCEPT ![Slot(pos[p], pool_capacity)] = pos[p] + 1]
    /\ Return(p)
    /\ UNCHANGED <<pool_capacity, data, enqueue_pos, dequeue_pos, consumer>>

-----------------------------------------------------------------------------
(* Pop: dequeue_pos_ is written by the consumer alone, so loading it and the
   node's sequence number is one step.                                     *)

PopCheck ==
    /\ cpc = "idle"
    /\ pool_capacity # 0
    /\ sequence[Slot(dequeue_pos, pool_capacity)] = dequeue_pos + 1
    /\ cpos' = dequeue_pos
    /\ cpc' = "read"
    /\ UNCHANGED <<pool, enqueue_pos, dequeue_pos, producers, out>>

PopRead ==
    /\ cpc = "read"
    /\ out' = data[Slot(cpos, pool_capacity)]
    /\ cpc' = "advance"
    /\ UNCHANGED <<pool, enqueue_pos, dequeue_pos, producers, cpos>>

PopAdvance ==
    /\ cpc = "advance"
    /\ dequeue_pos' = cpos + 1
    /\ cpc' = "release"
    /\ UNCHANGED <<pool, enqueue_pos, producers, cpos, out>>

\* Mutant: the node is handed to the next round one position early.
PopReleaseEarly ==
    /\ cpc = "release"
    /\ sequence' = [sequence EXCEPT ![Slot(cpos, pool_capacity)] =
                                      cpos + pool_capacity - 1]
    /\ cpc' = "idle"
    /\ UNCHANGED <<pool_capacity, data, enqueue_pos, dequeue_pos, producers,
                   cpos, out>>

PopRelease ==
    /\ cpc = "release"
    /\ sequence' = [sequence EXCEPT ![Slot(cpos, pool_capacity)] =
                                      cpos + pool_capacity]
    /\ cpc' = "idle"
    /\ UNCHANGED <<pool_capacity, data, enqueue_pos, dequeue_pos, producers,
                   cpos, out>>

-----------------------------------------------------------------------------

Push(p) ==
    \/ \E v \in Items : PushCall(p, v)
    \/ PushLoad(p)
    \/ PushSequence(p)
    \/ PushClaim(p)
    \/ PushClaimFails(p)
    \/ PushData(p)
    \/ PushPublish(p)

Pop == PopCheck \/ PopRead \/ PopAdvance \/ PopRelease

Next ==
    \/ \E c \in InitSizes : InitQueue(c)
    \/ \E c \in ReserveSizes : Reserve(c)
    \/ Destroy
    \/ \E p \in Producers : Push(p)
    \/ Pop

Spec == Init /\ [][Next]_vars

\* A producer that won the compare-and-swap finishes its Push, and the
\* consumer keeps calling Pop.
FairSpec ==
    /\ Spec
    /\ \A p \in Producers : WF_vars(PushData(p) \/ PushPublish(p))
    /\ WF_vars(Pop)

-----------------------------------------------------------------------------
(* Properties *)

\* Types of all variables; the pool's two arrays have one entry per node.
TypeOK ==
    /\ pool_capacity \in InitSizes \cup ReserveSizes \cup {0}
    /\ sequence \in [0 .. (pool_capacity - 1) -> Nat]
    /\ data \in [0 .. (pool_capacity - 1) -> Items \cup {NoItem}]
    /\ enqueue_pos \in Nat
    /\ dequeue_pos \in Nat
    /\ pc \in [Producers -> PushSteps]
    /\ pos \in [Producers -> Nat]
    /\ item \in [Producers -> Items \cup {NoItem}]
    /\ cpc \in PopSteps
    /\ cpos \in Nat
    /\ out \in Items \cup {NoItem}

\* p has won the compare-and-swap and owns the node of pos[p].
Owns(p) == pc[p] \in {"data", "publish"}

\* The positions below this one were popped and their nodes handed back.
Released == IF cpc = "release" THEN dequeue_pos - 1 ELSE dequeue_pos

\* Between its compare-and-swap and its publishing store a producer has its
\* node to itself: no other producer is writing it, and the consumer is not
\* reading it (Push and Pop access node->data without any lock).
NoSlotShared ==
    \A p \in Producers : Owns(p) =>
        /\ \A q \in Producers \ {p} : Owns(q) =>
              Slot(pos[p], pool_capacity) # Slot(pos[q], pool_capacity)
        /\ cpc # "idle" =>
              Slot(pos[p], pool_capacity) # Slot(cpos, pool_capacity)

\* The two positions never drift apart by more than the capacity, so that
\* SizeApprox, read between two steps, is a possible size of the queue.
OccupancyBounded ==
    /\ dequeue_pos <= enqueue_pos
    /\ enqueue_pos <= Released + pool_capacity

\* Push returns false only at a moment when every node is claimed or not yet
\* handed back: a stale pos never makes it refuse an item there is room for.
RefusedOnlyWhenFull ==
    [][\A p \in Producers :
          pc[p] = "sequence" /\ pc'[p] = "idle"
              => enqueue_pos = Released + pool_capacity]_vars

\* Whatever position was claimed is popped, unless the storage is replaced:
\* no interleaving leaves the head of the queue unpublished for ever.
EveryClaimPopped ==
    \A k \in 0 .. MaxPos :
        enqueue_pos > k ~> (dequeue_pos > k \/ enqueue_pos <= k)

-----------------------------------------------------------------------------
(* The inductive invariant behind the safety properties. *)

Claimed(k) == \E p \in Producers : Owns(p) /\ pos[p] = k

\* Two owners never hold the same position, and what they hold lies between
\* the two shared positions.
OwnersInv ==
    \A p \in Producers : Owns(p) =>
        /\ dequeue_pos <= pos[p] /\ pos[p] < enqueue_pos
        /\ \A q \in Producers \ {p} : Owns(q) => pos[p] # pos[q]

\* A pos that was read earlier is never ahead of the ring, and a producer
\* about to try its compare-and-swap has seen a free node.
LoadedInv ==
    \A p \in Producers :
        /\ pc[p] \in {"sequence", "cas"} => pos[p] <= enqueue_pos
        /\ pc[p] = "cas" => pos[p] < Released + pool_capacity

\* The consumer is at a published position.
ConsumerInv ==
    /\ cpc \in {"read", "advance"} =>
          cpos = dequeue_pos /\ cpos < enqueue_pos /\ ~Claimed(cpos)
    /\ cpc = "release" => cpos = dequeue_pos - 1

\* The sequence number of every node of the current round: published
\* positions show position + 1, claimed and free ones the position itself.
WindowInv ==
    \A k \in Released .. (Released + pool_capacity - 1) :
        sequence[Slot(k, pool_capacity)] =
            IF k < enqueue_pos /\ ~Claimed(k) THEN k + 1 ELSE k

\* Nodes never return to a position that was already popped.
PastInv ==
    pool_capacity # 0 =>
        \A k \in 0 .. (Released - 1) : sequence[Slot(k, pool_capacity)] > k

QueueInv ==
    /\ TypeOK
    /\ pool_capacity # 1
    /\ pool_capacity = 0 => Quiescent
    /\ OccupancyBounded
    /\ OwnersInv
    /\ LoadedInv
    /\ ConsumerInv
    /\ WindowInv
    /\ PastInv

-----------------------------------------------------------------------------
(* The abstract queue. *)

\* The entry at position k as a client sees it: published in its node, or
\* still with the producer that claimed it.
EntryAt(k) ==
    LET node == Slot(k, pool_capacity)
        claimers == {p \in Producers : Owns(p) /\ pos[p] = k}
    IN  IF sequence[node] = k + 1
        THEN [val |-> data[node], ready |-> TRUE]
        ELSE [val |-> IF claimers = {} THEN NoItem
                      ELSE item[CHOOSE p \in claimers : TRUE],
              ready |-> FALSE]

\* An item leaves the queue when the consumer copies it out of its node.
HeadPos == IF cpc = "advance" THEN cpos + 1 ELSE dequeue_pos

FIFO == INSTANCE BoundedFIFO WITH
    ResetSizes <- InitSizes \cup {0},
    limit <- pool_capacity,
    queue <- [i \in 1 .. (enqueue_pos - HeadPos) |-> EntryAt(HeadPos + i - 1)],
    last  <- out

\* Push and Pop implement a bounded first-in first-out queue: nothing is
\* lost, delivered twice, overtaken or read before it was written, and
\* Reserve never discards an item.
ImplementsFIFO == FIFO!Spec
=============================================================================
