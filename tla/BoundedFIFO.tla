---------------------------- MODULE BoundedFIFO ----------------------------
(***************************************************************************)
(* What a bounded queue of bridges/impl/ipc_queue_impl.hpp promises: a     *)
(* sequence of at most `limit' entries, taken in the order in which their  *)
(* places were claimed, each delivered exactly once and with the value its *)
(* producer put in.  An entry is claimed first and becomes ready later, so *)
(* a slow producer at the head holds back the ready entries behind it, but *)
(* no entry ever overtakes another one.                                    *)
(***************************************************************************)
EXTENDS Naturals, Sequences

CONSTANTS Items,     \* the values that can be queued
          ResetSizes \* the limits a queue can have after Init or Destroy

VARIABLES limit,   \* how many entries fit; 0 while the queue has no storage
          queue,   \* the claimed entries, oldest first
          last     \* the value the last successful take delivered

fifoVars == <<limit, queue, last>>

Entries == [val : Items, ready : BOOLEAN]

Init == limit = 0 /\ queue = << >>

\* A producer reserves the next place for v.
Claim(v) ==
    /\ Len(queue) < limit
    /\ queue' = Append(queue, [val |-> v, ready |-> FALSE])
    /\ UNCHANGED <<limit, last>>

\* The producer of the i-th entry has finished writing it.
Publish(i) ==
    /\ ~queue[i].ready
    /\ queue' = [queue EXCEPT ![i].ready = TRUE]
    /\ UNCHANGED <<limit, last>>

\* A queue with a single producer claims and publishes in one step.
Put(v) ==
    /\ Len(queue) < limit
    /\ queue' = Append(queue, [val |-> v, ready |-> TRUE])
    /\ UNCHANGED <<limit, last>>

\* The consumer takes the oldest entry, once it is ready.
Take ==
    /\ queue # << >>
    /\ Head(queue).ready
    /\ last' = Head(queue).val
    /\ queue' = Tail(queue)
    /\ UNCHANGED limit

\* Init and Destroy throw away whatever is queued.
Reset ==
    /\ limit' \in ResetSizes
    /\ queue' = << >>
    /\ UNCHANGED last

\* Growing keeps the contents: it is refused unless the queue is empty.
Grow ==
    /\ queue = << >>
    /\ limit' \in Nat
    /\ limit < limit'
    /\ UNCHANGED <<queue, last>>

Next ==
    \/ \E v \in Items : Claim(v) \/ Put(v)
    \/ \E i \in DOMAIN queue : Publish(i)
    \/ Take
    \/ Reset
    \/ Grow

Spec == Init /\ [][Next]_fifoVars
=============================================================================
