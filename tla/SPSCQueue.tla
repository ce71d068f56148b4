----------------------------- MODULE SPSCQueue -----------------------------
(***************************************************************************)
(* The single-producer single-consumer ring of                             *)
(* include/bridges/impl/ipc_queue_impl.hpp.                                *)
(*                                                                         *)
(* One slot always stays free, so that read_idx_ = write_idx_ means empty. *)
(* Each side reads the other's index once, then uses its slot and moves    *)
(* its own index; these accesses to shared memory are separate steps.  A   *)
(* call that returns false changes nothing and is a stuttering step.  Init *)
(* and Destroy are only called while neither side is inside the queue, and *)
(* Push and Pop only after a successful Init: both divide by capacity_.    *)
(***************************************************************************)
EXTENDS Integers

CONSTANTS Items,      \* the values that are pushed
          NoItem,     \* the value of default-constructed storage
          InitSizes   \* the arguments Init is called with

ASSUME SPSCAssumption ==
    /\ InitSizes \subseteq Nat
    /\ NoItem \notin Items

VARIABLES capacity,             \* 0 stands for buffer_ == nullptr
          buffer,
          read_idx, write_idx,
          ppc, item,            \* the producer: next access, argument
          cpc, out              \* the consumer: next access, result

storage == <<capacity, buffer>>
vars == <<capacity, buffer, read_idx, write_idx, ppc, item, cpc, out>>

NextIdx(i) == (i + 1) % capacity

Quiescent == ppc = "idle" /\ cpc = "idle"

NewStorage(c) ==
    /\ capacity' = c
    /\ buffer' = [i \in 0 .. (c - 1) |-> NoItem]

Init ==
    /\ capacity = 0
    /\ buffer = [i \in {} |-> NoItem]
    /\ read_idx = 0 /\ write_idx = 0
    /\ ppc = "idle" /\ item = NoItem
    /\ cpc = "idle" /\ out = NoItem

-----------------------------------------------------------------------------

\* Mutant: the indices of the previous storage are kept.
InitQueueKeepsIndices(c) ==
    /\ Quiescent
    /\ NewStorage(c)
    /\ UNCHANGED <<read_idx, write_idx, ppc, item, cpc, out>>

\* Init(0) leaves the queue destroyed, with its indices where they were.
InitQueue(c) ==
    /\ Quiescent
    /\ NewStorage(c)
    /\ IF c = 0 THEN UNCHANGED <<read_idx, write_idx>>
                ELSE read_idx' = 0 /\ write_idx' = 0
    /\ UNCHANGED <<ppc, item, cpc, out>>

Destroy ==
    /\ Quiescent
    /\ NewStorage(0)
    /\ UNCHANGED <<read_idx, write_idx, ppc, item, cpc, out>>

\* Mutant: the last free slot is used as well.
PushCheckNoGap(v) ==
    /\ ppc = "idle"
    /\ capacity # 0
    /\ item' = v
    /\ ppc' = "write"
    /\ UNCHANGED <<storage, read_idx, write_idx, cpc, out>>

PushCheck(v) ==
    /\ ppc = "idle"
    /\ capacity # 0
    /\ NextIdx(write_idx) # read_idx
    /\ item' = v
    /\ ppc' = "write"
    /\ UNCHANGED <<storage, read_idx, write_idx, cpc, out>>

PushWrite ==
    /\ ppc = "write"
    /\ buffer' = [buffer EXCEPT ![write_idx] = item]
    /\ ppc' = "publish"
    /\ UNCHANGED <<capacity, read_idx, write_idx, item, cpc, out>>

PushPublish ==
    /\ ppc = "publish"
    /\ write_idx' = NextIdx(write_idx)
    /\ ppc' = "idle"
    /\ item' = NoItem
    /\ UNCHANGED <<storage, read_idx, cpc, out>>

PopCheck ==
    /\ cpc = "idle"
    /\ capacity # 0
    /\ read_idx # write_idx
    /\ cpc' = "read"
    /\ UNCHANGED <<storage, read_idx, write_idx, ppc, item, out>>

\* Mutant: the index is advanced before the slot is read.
PopReadNext ==
    /\ cpc = "read"
    /\ out' = buffer[NextIdx(read_idx)]
    /\ cpc' = "advance"
    /\ UNCHANGED <<storage, read_idx, write_idx, ppc, item>>

PopRead ==
    /\ cpc = "read"
    /\ out' = buffer[read_idx]
    /\ cpc' = "advance"
    /\ UNCHANGED <<storage, read_idx, write_idx, ppc, item>>

PopAdvance ==
    /\ cpc = "advance"
    /\ read_idx' = NextIdx(read_idx)
    /\ cpc' = "idle"
    /\ UNCHANGED <<storage, write_idx, ppc, item, out>>

Push == (\E v \in Items : PushCheck(v)) \/ PushWrite \/ PushPublish
Pop == PopCheck \/ PopRead \/ PopAdvance

Next ==
    \/ \E c \in InitSizes : InitQueue(c)
    \/ Destroy
    \/ Push
    \/ Pop

Spec == Init /\ [][Next]_vars

-----------------------------------------------------------------------------
(* Properties *)

\* Types of all variables; with storage, both indices lie inside the buffer,
\* also after Init on a queue that was used and destroyed.
TypeOK ==
    /\ capacity \in InitSizes \cup {0}
    /\ buffer \in [0 .. (capacity - 1) -> Items \cup {NoItem}]
    /\ read_idx \in Nat /\ write_idx \in Nat
    /\ capacity # 0 => read_idx < capacity /\ write_idx < capacity
    /\ ppc \in {"idle", "write", "publish"}
    /\ cpc \in {"idle", "read", "advance"}
    /\ item \in Items \cup {NoItem}
    /\ out \in Items \cup {NoItem}

\* The producer never writes the slot the consumer is reading: the free slot
\* keeps them apart although neither looks at the other's index again.
NoSlotShared ==
    ppc # "idle" /\ cpc # "idle" => write_idx # read_idx

\* What each side has learnt from the other's index stays true until it is
\* done: there is room behind a Push under way, an item for a Pop under way.
SPSCInv ==
    /\ TypeOK
    /\ capacity = 0 => Quiescent
    /\ ppc # "idle" => NextIdx(write_idx) # read_idx
    /\ cpc # "idle" => read_idx # write_idx

\* How many items lie between the two indices (SizeApprox, read at once).
Size == IF capacity = 0 THEN 0 ELSE (write_idx - read_idx) % capacity

\* An item leaves the queue when the consumer copies it out of its slot.
Taken == IF cpc = "advance" THEN 1 ELSE 0

FIFO == INSTANCE BoundedFIFO WITH
    ResetSizes <- {c - 1 : c \in InitSizes \ {0}} \cup {0},
    limit <- IF capacity = 0 THEN 0 ELSE capacity - 1,
    queue <- [i \in 1 .. (Size - Taken) |->
                 [val |-> buffer[(read_idx + Taken + i - 1) % capacity],
                  ready |-> TRUE]],
    last  <- out

\* Push and Pop implement a first-in first-out queue of capacity - 1 items:
\* nothing is lost, repeated, overtaken or read before it was written, over
\* any number of rounds of the ring and any number of re-initialisations.
ImplementsFIFO == FIFO!Spec
=============================================================================
