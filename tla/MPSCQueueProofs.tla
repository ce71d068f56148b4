-------------------------- MODULE MPSCQueueProofs --------------------------
(***************************************************************************)
(* Safety of MPSCQueue for any producers, items, sizes and number of       *)
(* pushes.  The one hypothesis is that Reserve is never asked for a single *)
(* node, which Init refuses and Reserve does not.                          *)
(***************************************************************************)
EXTENDS MPSCQueue, SequenceTheorems, TLAPS

-----------------------------------------------------------------------------
(* Queues written as functions on 1 .. n, as the refinement mapping writes *)
(* them, and the sequence operators of BoundedFIFO.                         *)

\* A function on 1 .. n is a sequence of length n.
LEMMA FnSeq ==
    ASSUME NEW n \in Nat, NEW f, f = [i \in 1 .. n |-> f[i]]
    PROVE  /\ f \in Seq({f[i] : i \in 1 .. n})
           /\ Len(f) = n
           /\ (f = << >>) <=> (n = 0)
<1> DEFINE S == {f[i] : i \in 1 .. n}
<1>1. f \in [1 .. n -> S]
  OBVIOUS
<1>2. f \in Seq(S)
  BY <1>1
<1>3. Len(f) = n
  BY <1>1, <1>2
<1>4. QED
  BY <1>2, <1>3

\* One entry more at the end.
LEMMA FnAppend ==
    ASSUME NEW n \in Nat, NEW f, f = [i \in 1 .. n |-> f[i]],
           NEW g, g = [i \in 1 .. (n + 1) |-> g[i]],
           \A i \in 1 .. n : g[i] = f[i]
    PROVE  g = Append(f, g[n + 1])
<1> DEFINE S == {f[i] : i \in 1 .. n} \cup {g[n + 1]}
<1>1. f \in [1 .. n -> S]
  OBVIOUS
<1>2. f \in Seq(S) /\ g[n + 1] \in S
  BY <1>1
<1> HIDE DEF S
<1>3. Len(f) = n
  BY <1>1, <1>2
<1>4. /\ Append(f, g[n + 1]) \in Seq(S)
      /\ Len(Append(f, g[n + 1])) = n + 1
      /\ \A i \in 1 .. n : Append(f, g[n + 1])[i] = f[i]
      /\ Append(f, g[n + 1])[n + 1] = g[n + 1]
  BY <1>2, <1>3, AppendProperties
<1>5. Append(f, g[n + 1]) = [i \in 1 .. (n + 1) |-> Append(f, g[n + 1])[i]]
  BY <1>4
<1>6. ASSUME NEW i \in 1 .. (n + 1)
      PROVE  Append(f, g[n + 1])[i] = g[i]
  <2>1. CASE i = n + 1
    BY <1>4, <2>1
  <2>2. CASE i # n + 1
    <3>1. i \in 1 .. n
      BY <2>2
    <3>2. QED
      BY <1>4, <3>1
  <2>3. QED
    BY <2>1, <2>2
<1>7. QED
  BY <1>5, <1>6

\* The oldest entry less.
LEMMA FnTail ==
    ASSUME NEW n \in Nat \ {0}, NEW f, f = [i \in 1 .. n |-> f[i]],
           NEW g, g = [i \in 1 .. (n - 1) |-> f[i + 1]]
    PROVE  g = Tail(f) /\ Head(f) = f[1] /\ f # << >>
<1> DEFINE S == {f[i] : i \in 1 .. n}
<1>1. f \in Seq(S) /\ Len(f) = n /\ f # << >>
  BY FnSeq
<1> HIDE DEF S
<1>2. QED
  BY <1>1

\* An entry becomes ready.
LEMMA MadeReady ==
    ASSUME NEW S, NEW r \in [val : S, ready : BOOLEAN]
    PROVE  [r EXCEPT !.ready = TRUE] = [val |-> r.val, ready |-> TRUE]
<1> DEFINE e == [r EXCEPT !.ready = TRUE]
           w == [val |-> r.val, ready |-> TRUE]
<1>1. DOMAIN r = {"val", "ready"}
  OBVIOUS
<1>2. e = [f \in DOMAIN r |-> IF f = "ready" THEN TRUE ELSE r[f]]
  OBVIOUS
<1>3. DOMAIN e = {"val", "ready"} /\ e = [f \in DOMAIN e |-> e[f]]
  BY <1>1, <1>2
<1>4. DOMAIN w = {"val", "ready"} /\ w = [f \in DOMAIN w |-> w[f]]
  OBVIOUS
<1>5. e["val"] = w["val"]
  OBVIOUS
<1>6. e["ready"] = w["ready"]
  <2>1. (e["ready"] = TRUE) /\ (w["ready"] = TRUE)
    BY <1>1
  <2>2. QED
    BY <2>1
<1> HIDE DEF e, w
<1>7. e = w
  BY <1>3, <1>4, <1>5, <1>6
<1>8. QED
  BY <1>7 DEF e, w

\* One entry changes.
LEMMA FnExcept ==
    ASSUME NEW n \in Nat, NEW f, f = [i \in 1 .. n |-> f[i]],
           NEW g, g = [i \in 1 .. n |-> g[i]],
           NEW k \in 1 .. n, NEW e, g[k] = e,
           \A i \in 1 .. n : i # k => g[i] = f[i]
    PROVE  g = [f EXCEPT ![k] = e]
OBVIOUS


-----------------------------------------------------------------------------
(* The ring arithmetic.  Everything below uses Slot only through these. *)

\* pos % pool_capacity_ is an index of the pool.
LEMMA SlotType ==
    ASSUME NEW c \in Nat \ {0}, NEW k \in Nat
    PROVE  Slot(k, c) \in 0 .. (c - 1)
BY DEF Slot

\* Two different positions less than one round apart have different nodes.
LEMMA SlotInjective ==
    ASSUME NEW c \in Nat \ {0}, NEW a \in Nat, NEW b \in Nat,
           a < b, b < a + c
    PROVE  Slot(a, c) # Slot(b, c)
<1> DEFINE qa == a \div c
           qb == b \div c
           d  == qb - qa
<1>1. qa \in Int /\ qb \in Int /\ d \in Int
  OBVIOUS
<1>2. a = c * qa + (a % c) /\ b = c * qb + (b % c)
  OBVIOUS
<1>3. SUFFICES ASSUME (a % c) = (b % c) PROVE FALSE
  BY DEF Slot
<1>4. b - a = c * qb - c * qa
  BY <1>1, <1>2, <1>3
<1>5. c * qb - c * qa = c * d
  BY <1>1
<1>6. CASE d <= 0
  <2>1. c * d <= 0
    BY <1>1, <1>6
  <2>2. QED
    BY <1>1, <1>4, <1>5, <2>1
<1>7. CASE d >= 1
  <2>1. c * d >= c
    BY <1>1, <1>7
  <2>2. QED
    BY <1>1, <1>4, <1>5, <2>1
<1>8. QED
  BY <1>1, <1>6, <1>7

\* One round later the same node comes up again.
LEMMA SlotPeriodic ==
    ASSUME NEW c \in Nat \ {0}, NEW a \in Nat
    PROVE  Slot(a + c, c) = Slot(a, c)
<1> DEFINE qa == a \div c
           qb == (a + c) \div c
           d  == qb - qa - 1
<1>1. qa \in Int /\ qb \in Int /\ d \in Int
  OBVIOUS
<1>2. a = c * qa + (a % c) /\ a + c = c * qb + ((a + c) % c)
  OBVIOUS
<1>3. a % c \in 0 .. (c - 1) /\ (a + c) % c \in 0 .. (c - 1)
  OBVIOUS
<1>4. c * qb - c * qa - c = c * d
  BY <1>1
<1>5. (a % c) - ((a + c) % c) = c * d
  BY <1>1, <1>2, <1>3, <1>4
<1>6. CASE d = 0
  BY <1>3, <1>5, <1>6 DEF Slot
<1>7. CASE d >= 1
  <2>1. c * d >= c
    BY <1>1, <1>7
  <2>2. QED
    BY <1>1, <1>3, <1>5, <2>1
<1>8. CASE d <= -1
  <2>1. c * d <= -c
    BY <1>1, <1>8
  <2>2. QED
    BY <1>1, <1>3, <1>5, <2>1
<1>9. QED
  BY <1>1, <1>6, <1>7, <1>8

\* The three facts together, for every position at once.
LEMMA Ring ==
    ASSUME NEW c \in Nat \ {0}
    PROVE  /\ \A k \in Nat : Slot(k, c) \in 0 .. (c - 1)
           /\ \A a, b \in Nat : a # b /\ a < b + c /\ b < a + c
                                    => Slot(a, c) # Slot(b, c)
           /\ \A a \in Nat : Slot(a + c, c) = Slot(a, c)
<1>1. \A k \in Nat : Slot(k, c) \in 0 .. (c - 1)
  BY SlotType
<1>2. ASSUME NEW a \in Nat, NEW b \in Nat, a # b, a < b + c, b < a + c
      PROVE  Slot(a, c) # Slot(b, c)
  <2>1. CASE a < b
    BY <1>2, <2>1, SlotInjective
  <2>2. CASE b < a
    BY <1>2, <2>2, SlotInjective
  <2>3. QED
    BY <1>2, <2>1, <2>2
<1>3. \A a \in Nat : Slot(a + c, c) = Slot(a, c)
  BY SlotPeriodic
<1>4. QED
  BY <1>1, <1>2, <1>3

-----------------------------------------------------------------------------
(* The invariant holds of new storage. *)

\* A pool that Init, Destroy or Reserve has just set up satisfies the
\* invariant: every node is free for its own position.
LEMMA FreshPoolInv ==
    ASSUME QueueInv, Quiescent,
           NEW c \in InitSizes \cup ReserveSizes \cup {0}, c # 1,
           FreshPool(c), UNCHANGED <<producers, consumer>>
    PROVE  QueueInv'
<1>1. c \in Nat
  BY ConstantsAssumption
<1>2. /\ pool_capacity' = c /\ enqueue_pos' = 0 /\ dequeue_pos' = 0
      /\ pc' = pc /\ pos' = pos /\ item' = item
      /\ cpc' = cpc /\ cpos' = cpos /\ out' = out
  BY DEF FreshPool, producers, consumer
<1>3. Quiescent' /\ Released' = 0 /\ \A p \in Producers : ~Owns(p)'
  BY <1>2 DEF Quiescent, Released, Owns
<1>4. TypeOK'
  BY <1>1, <1>2 DEF QueueInv, TypeOK, FreshPool
<1>5. OccupancyBounded' /\ OwnersInv'
  BY <1>1, <1>2, <1>3 DEF OccupancyBounded, OwnersInv
<1>6. LoadedInv' /\ ConsumerInv'
  BY <1>2, <1>3 DEF LoadedInv, ConsumerInv, Quiescent
<1>7. WindowInv'
  <2>1. SUFFICES ASSUME NEW k \in 0 .. (c - 1)
                 PROVE  sequence'[Slot(k, c)] = k
    BY <1>1, <1>2, <1>3 DEF WindowInv
  <2>2. Slot(k, c) = k
    BY <1>1 DEF Slot
  <2>3. QED
    BY <1>1, <2>2 DEF FreshPool
<1>8. PastInv'
  BY <1>3 DEF PastInv
<1>9. QED
  BY <1>2, <1>3, <1>4, <1>5, <1>6, <1>7, <1>8 DEF QueueInv

-----------------------------------------------------------------------------
(* Push.  Four of its steps only change the producer's own variables. *)

\* A step that leaves the shared variables and the owners alone preserves
\* every part of the invariant that does not speak of its local variables.
LEMMA LocalStep ==
    ASSUME QueueInv,
           UNCHANGED <<pool, enqueue_pos, dequeue_pos, consumer>>,
           \A q \in Producers : Owns(q)' = Owns(q),
           \A q \in Producers : Owns(q) => pos'[q] = pos[q],
           pc' \in [Producers -> PushSteps], pos' \in [Producers -> Nat],
           item' \in [Producers -> Items \cup {NoItem}],
           pool_capacity # 0, LoadedInv'
    PROVE  QueueInv'
<1>1. /\ pool_capacity' = pool_capacity /\ sequence' = sequence /\ data' = data
      /\ enqueue_pos' = enqueue_pos /\ dequeue_pos' = dequeue_pos
      /\ cpc' = cpc /\ cpos' = cpos /\ out' = out
  BY DEF pool, consumer
<1>2. Released' = Released
  BY <1>1 DEF Released
<1>3. \A k : Claimed(k)' <=> Claimed(k)
  BY DEF Claimed
<1>4. TypeOK' /\ OccupancyBounded'
  BY <1>1, <1>2 DEF QueueInv, TypeOK, OccupancyBounded
<1>5. OwnersInv'
  BY <1>1 DEF QueueInv, OwnersInv
<1>6. ConsumerInv'
  BY <1>1, <1>3 DEF QueueInv, ConsumerInv
<1>7. WindowInv' /\ PastInv'
  BY <1>1, <1>2, <1>3 DEF QueueInv, WindowInv, PastInv
<1>8. QED
  BY <1>1, <1>4, <1>5, <1>6, <1>7 DEF QueueInv

\* Calling Push, loading enqueue_pos_ and a failed compare-and-swap.
LEMMA PushLocalInv ==
    ASSUME QueueInv, NEW p \in Producers,
           \/ \E v \in Items : PushCall(p, v)
           \/ PushLoad(p)
           \/ PushClaimFails(p)
    PROVE  QueueInv'
<1>1. UNCHANGED <<pool, enqueue_pos, dequeue_pos, consumer>>
  BY DEF PushCall, PushLoad, PushClaimFails
<1>2. pool_capacity # 0
  BY DEF QueueInv, Quiescent, PushCall, PushLoad, PushClaimFails
<1>3. /\ pc' \in [Producers -> PushSteps] /\ pos' \in [Producers -> Nat]
      /\ item' \in [Producers -> Items \cup {NoItem}]
  BY DEF QueueInv, TypeOK, PushCall, PushLoad, PushClaimFails, Goto, PushSteps
<1>4. /\ \A q \in Producers : Owns(q)' = Owns(q)
      /\ \A q \in Producers : Owns(q) => pos'[q] = pos[q]
  BY DEF QueueInv, TypeOK, Owns, PushCall, PushLoad, PushClaimFails, Goto
<1>5. LoadedInv'
  <2>1. /\ pool_capacity' = pool_capacity /\ enqueue_pos' = enqueue_pos
        /\ Released' = Released
    BY <1>1 DEF pool, consumer, Released
  <2>2. QED
    BY <2>1 DEF QueueInv, TypeOK, LoadedInv, PushCall, PushLoad,
                PushClaimFails, Goto
<1>6. QED
  BY <1>1, <1>2, <1>3, <1>4, <1>5, LocalStep

\* What a producer can have seen: a free node is inside the current round,
\* and a node that is behind pos is the one of the full ring.
LEMMA SeenSequence ==
    ASSUME QueueInv, NEW p \in Producers, pc[p] = "sequence"
    PROVE  /\ pool_capacity \in Nat \ {0, 1}
           /\ sequence[Slot(pos[p], pool_capacity)] = pos[p]
                  => pos[p] < Released + pool_capacity
           /\ sequence[Slot(pos[p], pool_capacity)] < pos[p]
                  => enqueue_pos = Released + pool_capacity
<1> DEFINE c == pool_capacity
           seen == sequence[Slot(pos[p], c)]
<1>1. c \in Nat \ {0, 1}
  BY ConstantsAssumption DEF QueueInv, TypeOK, Quiescent
<1>2. /\ pos[p] \in Nat /\ enqueue_pos \in Nat /\ dequeue_pos \in Nat
      /\ Released \in Nat
      /\ pos[p] <= enqueue_pos /\ enqueue_pos <= Released + c
  BY DEF QueueInv, TypeOK, LoadedInv, OccupancyBounded, ConsumerInv, Released
<1>3. /\ \A k \in Nat : Slot(k, c) \in 0 .. (c - 1)
      /\ \A k \in Nat : Slot(k + c, c) = Slot(k, c)
  BY <1>1, Ring
<1>4. seen \in Nat
  BY <1>2, <1>3 DEF QueueInv, TypeOK
<1>5. ASSUME pos[p] = Released + c PROVE seen < pos[p]
  <2>1. Slot(pos[p], c) = Slot(Released, c)
    BY <1>2, <1>3, <1>5
  <2>2. sequence[Slot(Released, c)] \in {Released, Released + 1}
    <3>1. Released \in Released .. (Released + c - 1)
      BY <1>1, <1>2
    <3>2. QED
      BY <1>2, <3>1 DEF QueueInv, WindowInv
  <2>3. QED
    BY <1>1, <1>2, <1>5, <2>1, <2>2
<1>6. ASSUME Released <= pos[p], pos[p] < Released + c PROVE seen >= pos[p]
  BY <1>1, <1>2, <1>6 DEF QueueInv, WindowInv
<1>7. ASSUME pos[p] < Released PROVE seen >= pos[p]
  BY <1>1, <1>2, <1>4, <1>7 DEF QueueInv, PastInv
<1>8. seen = pos[p] => pos[p] < Released + c
  BY <1>1, <1>2, <1>5
<1>9. seen < pos[p] => enqueue_pos = Released + c
  BY <1>1, <1>2, <1>4, <1>6, <1>7
<1>10. QED
  BY <1>1, <1>8, <1>9

\* Comparing the node's sequence number with pos.
LEMMA PushSequenceInv ==
    ASSUME QueueInv, NEW p \in Producers, PushSequence(p)
    PROVE  QueueInv'
<1>1. UNCHANGED <<pool, enqueue_pos, dequeue_pos, consumer>>
  BY DEF PushSequence
<1>2. pc[p] = "sequence" /\ pool_capacity # 0
  BY DEF QueueInv, Quiescent, PushSequence
<1> DEFINE kept == (Goto(p, "cas") \/ Goto(p, "load")) /\ UNCHANGED <<pos, item>>
<1>a. kept \/ Return(p)
  BY DEF PushSequence
<1>b. /\ pc \in [Producers -> PushSteps] /\ pos \in [Producers -> Nat]
      /\ item \in [Producers -> Items \cup {NoItem}]
  BY DEF QueueInv, TypeOK
<1>3. /\ pc' \in [Producers -> PushSteps] /\ pos' \in [Producers -> Nat]
      /\ item' \in [Producers -> Items \cup {NoItem}]
  <2>1. CASE kept
    BY <1>b, <2>1 DEF Goto, PushSteps
  <2>2. CASE Return(p)
    BY <1>b, <2>2 DEF Return, Goto, PushSteps
  <2>3. QED
    BY <1>a, <2>1, <2>2
<1>4. /\ \A q \in Producers : Owns(q)' = Owns(q)
      /\ \A q \in Producers : Owns(q) => pos'[q] = pos[q]
  <2>1. CASE kept
    BY <1>2, <1>b, <2>1 DEF Owns, Goto
  <2>2. CASE Return(p)
    BY <1>2, <1>b, <2>2 DEF Owns, Return, Goto
  <2>3. QED
    BY <1>a, <2>1, <2>2
<1>5. LoadedInv'
  <2>1. /\ pool_capacity' = pool_capacity /\ enqueue_pos' = enqueue_pos
        /\ Released' = Released
    BY <1>1 DEF pool, consumer, Released
  <2>2. ASSUME NEW q \in Producers
        PROVE  /\ pc'[q] \in {"sequence", "cas"} =>
                     pc[q] \in {"sequence", "cas"} /\ pos'[q] = pos[q]
               /\ pc'[q] = "cas" => pos[q] < Released + pool_capacity
    BY <1>2, SeenSequence
       DEF QueueInv, TypeOK, LoadedInv, PushSequence, Goto, Return
  <2>3. QED
    BY <2>1, <2>2 DEF QueueInv, LoadedInv
<1>6. QED
  BY <1>1, <1>2, <1>3, <1>4, <1>5, LocalStep

\* Numeric facts that every later step needs.
LEMMA Numbers ==
    ASSUME QueueInv
    PROVE  /\ pool_capacity \in Nat /\ enqueue_pos \in Nat /\ dequeue_pos \in Nat
           /\ Released \in Nat /\ Released <= dequeue_pos
           /\ dequeue_pos <= enqueue_pos
           /\ enqueue_pos <= Released + pool_capacity
           /\ cpos \in Nat /\ pos \in [Producers -> Nat]
BY ConstantsAssumption
   DEF QueueInv, TypeOK, OccupancyBounded, ConsumerInv, Released

\* The compare-and-swap succeeds: the next position gets an owner.
LEMMA PushClaimInv ==
    ASSUME QueueInv, NEW p \in Producers, PushClaim(p)
    PROVE  QueueInv'
<1> DEFINE c == pool_capacity
<1>1. /\ pc[p] = "cas" /\ enqueue_pos = pos[p] /\ enqueue_pos' = pos[p] + 1
      /\ pc' = [pc EXCEPT ![p] = "data"] /\ pos' = pos /\ item' = item
      /\ pool_capacity' = c /\ sequence' = sequence /\ data' = data
      /\ dequeue_pos' = dequeue_pos /\ cpc' = cpc /\ cpos' = cpos /\ out' = out
  BY DEF PushClaim, Goto, pool, consumer
<1>2. Released' = Released
  BY <1>1 DEF Released
<1>3. enqueue_pos < Released + c
  BY <1>1 DEF QueueInv, LoadedInv
<1>4. c # 0
  BY <1>1 DEF QueueInv, Quiescent
<1>5. \A q \in Producers : Owns(q)' <=> (Owns(q) \/ q = p)
  BY <1>1 DEF QueueInv, TypeOK, Owns
<1>6. \A k : Claimed(k)' <=> (Claimed(k) \/ k = enqueue_pos)
  BY <1>1, <1>5 DEF Claimed
<1>7. TypeOK'
  BY <1>1 DEF QueueInv, TypeOK, PushSteps
<1>8. OccupancyBounded'
  BY <1>1, <1>2, <1>3, Numbers DEF OccupancyBounded
<1>9. OwnersInv'
  BY <1>1, <1>5, Numbers DEF QueueInv, OwnersInv
<1>10. LoadedInv'
  BY <1>1, <1>2, Numbers DEF QueueInv, TypeOK, LoadedInv
<1>11. ConsumerInv'
  BY <1>1, <1>6, Numbers DEF QueueInv, ConsumerInv
<1>12. WindowInv'
  BY <1>1, <1>2, <1>6, Numbers DEF QueueInv, WindowInv
<1>13. PastInv'
  BY <1>1, <1>2 DEF QueueInv, PastInv
<1>14. QED
  BY <1>1, <1>4, <1>7, <1>8, <1>9, <1>10, <1>11, <1>12, <1>13 DEF QueueInv

\* Writing the item into the node.
LEMMA PushDataInv ==
    ASSUME QueueInv, NEW p \in Producers, PushData(p)
    PROVE  QueueInv'
<1>1. /\ pc[p] = "data" /\ pc' = [pc EXCEPT ![p] = "publish"]
      /\ pos' = pos /\ item' = item
      /\ pool_capacity' = pool_capacity /\ sequence' = sequence
      /\ enqueue_pos' = enqueue_pos /\ dequeue_pos' = dequeue_pos
      /\ cpc' = cpc /\ cpos' = cpos /\ out' = out
  BY DEF PushData, Goto, consumer
<1>2. Released' = Released /\ pool_capacity # 0
  BY <1>1 DEF QueueInv, Quiescent, Released
<1>3. \A q \in Producers : Owns(q)' <=> Owns(q)
  BY <1>1 DEF QueueInv, TypeOK, Owns
<1>4. \A k : Claimed(k)' <=> Claimed(k)
  BY <1>1, <1>3 DEF Claimed
<1>5. TypeOK'
  BY <1>1 DEF QueueInv, TypeOK, PushSteps, PushData
<1>6. OccupancyBounded' /\ OwnersInv'
  BY <1>1, <1>2, <1>3 DEF QueueInv, OccupancyBounded, OwnersInv
<1>7. LoadedInv'
  BY <1>1, <1>2 DEF QueueInv, TypeOK, LoadedInv
<1>8. ConsumerInv' /\ WindowInv' /\ PastInv'
  BY <1>1, <1>2, <1>4 DEF QueueInv, ConsumerInv, WindowInv, PastInv
<1>9. QED
  BY <1>1, <1>2, <1>5, <1>6, <1>7, <1>8 DEF QueueInv

\* Publishing: the node's sequence number moves one past its position.
LEMMA PushPublishInv ==
    ASSUME QueueInv, NEW p \in Producers, PushPublish(p)
    PROVE  QueueInv'
<1> DEFINE c == pool_capacity
           n == Slot(pos[p], c)
<1>1. /\ pc[p] = "publish" /\ pc' = [pc EXCEPT ![p] = "idle"]
      /\ pos' = [pos EXCEPT ![p] = 0] /\ item' = [item EXCEPT ![p] = NoItem]
      /\ sequence' = [sequence EXCEPT ![n] = pos[p] + 1]
      /\ pool_capacity' = c /\ data' = data
      /\ enqueue_pos' = enqueue_pos /\ dequeue_pos' = dequeue_pos
      /\ cpc' = cpc /\ cpos' = cpos /\ out' = out
  BY DEF PushPublish, Return, Goto, consumer
<1>2. Released' = Released /\ c \in Nat \ {0}
  BY <1>1, Numbers DEF QueueInv, Quiescent, Released
<1>3. /\ \A k \in Nat : Slot(k, c) \in 0 .. (c - 1)
      /\ \A a, b \in Nat : a # b /\ a < b + c /\ b < a + c
                               => Slot(a, c) # Slot(b, c)
  BY <1>2, Ring
<1>4. /\ pos[p] \in Nat /\ dequeue_pos <= pos[p] /\ pos[p] < enqueue_pos
      /\ Released <= pos[p] /\ pos[p] < Released + c
  BY <1>1, Numbers DEF QueueInv, OwnersInv, Owns
<1>5. \A q \in Producers : Owns(q)' <=> (Owns(q) /\ q # p)
  BY <1>1 DEF QueueInv, TypeOK, Owns
<1>6. \A k : Claimed(k)' <=> (Claimed(k) /\ k # pos[p])
  BY <1>1, <1>5 DEF QueueInv, TypeOK, OwnersInv, Claimed, Owns
<1>7. TypeOK'
  <2>1. /\ pc' \in [Producers -> PushSteps] /\ pos' \in [Producers -> Nat]
        /\ item' \in [Producers -> Items \cup {NoItem}]
    BY <1>1 DEF QueueInv, TypeOK, PushSteps
  <2>2. sequence' \in [0 .. (c - 1) -> Nat]
    <3>1. sequence \in [0 .. (c - 1) -> Nat] /\ pos[p] + 1 \in Nat
      BY <1>4 DEF QueueInv, TypeOK
    <3>2. QED
      BY <1>1, <3>1
  <2>3. QED
    BY <1>1, <2>1, <2>2 DEF QueueInv, TypeOK
<1>8. OccupancyBounded'
  BY <1>1, <1>2 DEF QueueInv, OccupancyBounded
<1>9. OwnersInv'
  BY <1>1, <1>5 DEF QueueInv, TypeOK, OwnersInv
<1>10. LoadedInv'
  BY <1>1, <1>2 DEF QueueInv, TypeOK, LoadedInv
<1>11. ConsumerInv'
  BY <1>1, <1>6 DEF QueueInv, ConsumerInv
<1>12. WindowInv'
  <2>1. SUFFICES ASSUME NEW k \in Released .. (Released + c - 1)
                 PROVE  sequence'[Slot(k, c)] =
                            IF k < enqueue_pos /\ ~Claimed(k)' THEN k + 1 ELSE k
    BY <1>1, <1>2 DEF WindowInv
  <2>2. k \in Nat /\ Slot(k, c) \in 0 .. (c - 1) /\ n \in 0 .. (c - 1)
    BY <1>2, <1>3, <1>4, Numbers
  <2>3. CASE k = pos[p]
    BY <1>1, <1>4, <1>6, <2>2, <2>3 DEF QueueInv, TypeOK
  <2>4. CASE k # pos[p]
    <3>1. Slot(k, c) # n
      BY <1>2, <1>3, <1>4, <2>2, <2>4, Numbers
    <3>2. sequence'[Slot(k, c)] = sequence[Slot(k, c)]
      BY <1>1, <2>2, <3>1 DEF QueueInv, TypeOK
    <3>3. QED
      BY <1>6, <2>4, <3>2 DEF QueueInv, WindowInv
  <2>5. QED
    BY <2>3, <2>4
<1>13. PastInv'
  <2>1. SUFFICES ASSUME NEW k \in 0 .. (Released - 1)
                 PROVE  sequence'[Slot(k, c)] > k
    BY <1>1, <1>2 DEF PastInv
  <2>2. k \in Nat /\ k < pos[p] /\ Slot(k, c) \in 0 .. (c - 1)
    BY <1>3, <1>4, Numbers
  <2>3. sequence[Slot(k, c)] > k
    BY <1>2 DEF QueueInv, PastInv
  <2>4. QED
    BY <1>1, <1>4, <2>2, <2>3 DEF QueueInv, TypeOK
<1>14. QED
  BY <1>1, <1>2, <1>7, <1>8, <1>9, <1>10, <1>11, <1>12, <1>13 DEF QueueInv

-----------------------------------------------------------------------------
(* Pop *)

\* The head's sequence number says it is published, so it has no owner.
LEMMA PopCheckInv ==
    ASSUME QueueInv, PopCheck
    PROVE  QueueInv'
<1>1. /\ cpc = "idle" /\ pool_capacity # 0
      /\ sequence[Slot(dequeue_pos, pool_capacity)] = dequeue_pos + 1
      /\ cpos' = dequeue_pos /\ cpc' = "read" /\ out' = out
      /\ pool_capacity' = pool_capacity /\ sequence' = sequence /\ data' = data
      /\ enqueue_pos' = enqueue_pos /\ dequeue_pos' = dequeue_pos
      /\ pc' = pc /\ pos' = pos /\ item' = item
  BY DEF PopCheck, pool, producers
<1>2. Released = dequeue_pos /\ Released' = dequeue_pos
  BY <1>1 DEF Released
<1>3. /\ \A q \in Producers : Owns(q)' <=> Owns(q)
      /\ \A k : Claimed(k)' <=> Claimed(k)
  BY <1>1 DEF Owns, Claimed
<1>4. dequeue_pos < enqueue_pos /\ ~Claimed(dequeue_pos)
  <2>1. dequeue_pos \in Released .. (Released + pool_capacity - 1)
    BY <1>1, <1>2, Numbers
  <2>2. dequeue_pos # dequeue_pos + 1
    BY Numbers
  <2>3. QED
    BY <1>1, <2>1, <2>2 DEF QueueInv, WindowInv
<1>5. TypeOK'
  BY <1>1 DEF QueueInv, TypeOK, PopSteps
<1>6. OccupancyBounded' /\ OwnersInv' /\ LoadedInv'
  BY <1>1, <1>2, <1>3 DEF QueueInv, OccupancyBounded, OwnersInv, LoadedInv
<1>7. ConsumerInv'
  BY <1>1, <1>3, <1>4 DEF ConsumerInv
<1>8. WindowInv' /\ PastInv'
  BY <1>1, <1>2, <1>3 DEF QueueInv, WindowInv, PastInv
<1>9. QED
  BY <1>1, <1>5, <1>6, <1>7, <1>8 DEF QueueInv

\* Copying the item out of the node.
LEMMA PopReadInv ==
    ASSUME QueueInv, PopRead
    PROVE  QueueInv'
<1>1. /\ cpc = "read" /\ cpc' = "advance" /\ cpos' = cpos
      /\ out' = data[Slot(cpos, pool_capacity)]
      /\ pool_capacity' = pool_capacity /\ sequence' = sequence /\ data' = data
      /\ enqueue_pos' = enqueue_pos /\ dequeue_pos' = dequeue_pos
      /\ pc' = pc /\ pos' = pos /\ item' = item
  BY DEF PopRead, pool, producers
<1>2. Released' = Released /\ pool_capacity \in Nat \ {0}
  BY <1>1, Numbers DEF QueueInv, Quiescent, Released
<1>3. /\ \A q \in Producers : Owns(q)' <=> Owns(q)
      /\ \A k : Claimed(k)' <=> Claimed(k)
  BY <1>1 DEF Owns, Claimed
<1>4. Slot(cpos, pool_capacity) \in 0 .. (pool_capacity - 1)
  BY <1>2, SlotType, Numbers
<1>5. TypeOK'
  BY <1>1, <1>4 DEF QueueInv, TypeOK, PopSteps
<1>6. OccupancyBounded' /\ OwnersInv' /\ LoadedInv'
  BY <1>1, <1>2, <1>3 DEF QueueInv, OccupancyBounded, OwnersInv, LoadedInv
<1>7. ConsumerInv'
  BY <1>1, <1>3 DEF QueueInv, ConsumerInv
<1>8. WindowInv' /\ PastInv'
  BY <1>1, <1>2, <1>3 DEF QueueInv, WindowInv, PastInv
<1>9. QED
  BY <1>1, <1>2, <1>5, <1>6, <1>7, <1>8 DEF QueueInv

\* dequeue_pos_ moves on while the node still shows the old round.
LEMMA PopAdvanceInv ==
    ASSUME QueueInv, PopAdvance
    PROVE  QueueInv'
<1>1. /\ cpc = "advance" /\ cpc' = "release" /\ cpos' = cpos /\ out' = out
      /\ dequeue_pos' = cpos + 1
      /\ pool_capacity' = pool_capacity /\ sequence' = sequence /\ data' = data
      /\ enqueue_pos' = enqueue_pos
      /\ pc' = pc /\ pos' = pos /\ item' = item
  BY DEF PopAdvance, pool, producers
<1>2. /\ cpos = dequeue_pos /\ cpos < enqueue_pos /\ ~Claimed(cpos)
      /\ pool_capacity # 0
  BY <1>1 DEF QueueInv, ConsumerInv, Quiescent
<1>3. Released' = Released
  BY <1>1, <1>2, Numbers DEF Released
<1>4. /\ \A q \in Producers : Owns(q)' <=> Owns(q)
      /\ \A k : Claimed(k)' <=> Claimed(k)
  BY <1>1 DEF Owns, Claimed
<1>5. TypeOK'
  BY <1>1, Numbers DEF QueueInv, TypeOK, PopSteps
<1>6. OccupancyBounded' /\ LoadedInv'
  BY <1>1, <1>2, <1>3, Numbers DEF QueueInv, OccupancyBounded, LoadedInv
<1>7. OwnersInv'
  BY <1>1, <1>2, <1>4, Numbers DEF QueueInv, OwnersInv, Claimed
<1>8. ConsumerInv'
  BY <1>1, Numbers DEF ConsumerInv
<1>9. WindowInv' /\ PastInv'
  BY <1>1, <1>3, <1>4 DEF QueueInv, WindowInv, PastInv
<1>10. QED
  BY <1>1, <1>2, <1>5, <1>6, <1>7, <1>8, <1>9 DEF QueueInv

\* The node is handed to the producers of the next round.
LEMMA PopReleaseInv ==
    ASSUME QueueInv, PopRelease
    PROVE  QueueInv'
<1> DEFINE c == pool_capacity
           n == Slot(cpos, c)
<1>1. /\ cpc = "release" /\ cpc' = "idle" /\ cpos' = cpos /\ out' = out
      /\ sequence' = [sequence EXCEPT ![n] = cpos + c]
      /\ pool_capacity' = c /\ data' = data
      /\ enqueue_pos' = enqueue_pos /\ dequeue_pos' = dequeue_pos
      /\ pc' = pc /\ pos' = pos /\ item' = item
  BY DEF PopRelease, producers
<1>2. /\ cpos = dequeue_pos - 1 /\ Released = cpos /\ Released' = cpos + 1
      /\ c \in Nat \ {0}
  BY <1>1, Numbers DEF QueueInv, ConsumerInv, Quiescent, Released
<1>3. /\ \A k \in Nat : Slot(k, c) \in 0 .. (c - 1)
      /\ \A a, b \in Nat : a # b /\ a < b + c /\ b < a + c
                               => Slot(a, c) # Slot(b, c)
      /\ \A a \in Nat : Slot(a + c, c) = Slot(a, c)
  BY <1>2, Ring
<1>4. /\ \A q \in Producers : Owns(q)' <=> Owns(q)
      /\ \A k : Claimed(k)' <=> Claimed(k)
  BY <1>1 DEF Owns, Claimed
<1>5. TypeOK'
  <2>1. sequence' \in [0 .. (c - 1) -> Nat]
    <3>1. sequence \in [0 .. (c - 1) -> Nat] /\ cpos + c \in Nat
      BY <1>2, Numbers DEF QueueInv, TypeOK
    <3>2. QED
      BY <1>1, <3>1
  <2>2. QED
    BY <1>1, <2>1 DEF QueueInv, TypeOK, PopSteps
<1>6. OccupancyBounded' /\ OwnersInv' /\ LoadedInv'
  BY <1>1, <1>2, <1>4, Numbers
     DEF QueueInv, OccupancyBounded, OwnersInv, LoadedInv
<1>7. ConsumerInv'
  BY <1>1 DEF ConsumerInv
<1>8. WindowInv'
  <2>1. SUFFICES ASSUME NEW k \in (cpos + 1) .. (cpos + c)
                 PROVE  sequence'[Slot(k, c)] =
                            IF k < enqueue_pos /\ ~Claimed(k) THEN k + 1 ELSE k
    BY <1>1, <1>2, <1>4, Numbers DEF WindowInv
  <2>2. k \in Nat /\ Slot(k, c) \in 0 .. (c - 1) /\ n \in 0 .. (c - 1)
    BY <1>3, Numbers
  <2>3. CASE k = cpos + c
    <3>1. Slot(k, c) = n /\ ~(k < enqueue_pos)
      BY <1>2, <1>3, <2>3, Numbers
    <3>2. QED
      BY <1>1, <2>2, <2>3, <3>1 DEF QueueInv, TypeOK
  <2>4. CASE k # cpos + c
    <3>1. Slot(k, c) # n
      <4>1. cpos \in Nat /\ k # cpos /\ k < cpos + c /\ cpos < k + c
        BY <1>2, <2>2, <2>4, Numbers
      <4>2. QED
        BY <1>3, <2>2, <4>1
    <3>2. sequence'[Slot(k, c)] = sequence[Slot(k, c)]
      BY <1>1, <2>2, <3>1 DEF QueueInv, TypeOK
    <3>3. k \in Released .. (Released + c - 1)
      BY <1>2, <2>4, Numbers
    <3>4. QED
      BY <3>2, <3>3 DEF QueueInv, WindowInv
  <2>5. QED
    BY <2>3, <2>4
<1>9. PastInv'
  <2>1. SUFFICES ASSUME NEW k \in 0 .. cpos
                 PROVE  sequence'[Slot(k, c)] > k
    BY <1>1, <1>2, Numbers DEF PastInv
  <2>2. k \in Nat /\ Slot(k, c) \in 0 .. (c - 1) /\ n \in 0 .. (c - 1)
    BY <1>3, Numbers
  <2>3. CASE Slot(k, c) = n
    BY <1>1, <1>2, <2>2, <2>3, Numbers DEF QueueInv, TypeOK
  <2>4. CASE Slot(k, c) # n
    <3>1. k # cpos /\ k \in 0 .. (Released - 1)
      BY <1>2, <2>4, Numbers
    <3>2. sequence[Slot(k, c)] > k
      BY <1>2, <3>1 DEF QueueInv, PastInv
    <3>3. QED
      BY <1>1, <2>2, <2>4, <3>2 DEF QueueInv, TypeOK
  <2>5. QED
    BY <2>3, <2>4
<1>10. QED
  BY <1>1, <1>2, <1>5, <1>6, <1>7, <1>8, <1>9 DEF QueueInv

-----------------------------------------------------------------------------
(* The theorems *)

\* The invariant is inductive, provided Reserve is not asked for one node.
LEMMA QueueInvStep ==
    ASSUME 1 \notin ReserveSizes, QueueInv, [Next]_vars
    PROVE  QueueInv'
<1>1. ASSUME NEW c \in InitSizes, InitQueue(c) PROVE QueueInv'
  <2>1. CASE c < 2
    BY <1>1, <2>1, FreshPoolInv DEF InitQueue, NoPool
  <2>2. CASE ~(c < 2)
    BY <1>1, <2>2, FreshPoolInv, ConstantsAssumption DEF InitQueue
  <2>3. QED
    BY <2>1, <2>2
<1>2. ASSUME NEW c \in ReserveSizes, Reserve(c) PROVE QueueInv'
  BY <1>2, FreshPoolInv DEF Reserve
<1>3. CASE Destroy
  BY <1>3, FreshPoolInv DEF Destroy, NoPool
<1>4. ASSUME NEW p \in Producers, Push(p) PROVE QueueInv'
  BY <1>4, PushLocalInv, PushSequenceInv, PushClaimInv, PushDataInv,
     PushPublishInv DEF Push
<1>5. CASE Pop
  BY <1>5, PopCheckInv, PopReadInv, PopAdvanceInv, PopReleaseInv DEF Pop
<1>6. CASE UNCHANGED vars
  BY <1>6 DEF vars, QueueInv, TypeOK, Quiescent, OccupancyBounded, OwnersInv,
     LoadedInv, ConsumerInv, WindowInv, PastInv, Released, Claimed, Owns
<1>7. QED
  BY <1>1, <1>2, <1>3, <1>4, <1>5, <1>6 DEF Next

\* A queue without storage satisfies the invariant.
LEMMA QueueInvInit == Init => QueueInv
<1> SUFFICES ASSUME Init PROVE QueueInv
  OBVIOUS
<1>1. TypeOK /\ Quiescent
  BY DEF Init, TypeOK, Quiescent, PushSteps, PopSteps
<1>2. Released = 0 /\ \A p \in Producers : ~Owns(p)
  BY DEF Init, Released, Owns
<1>3. OccupancyBounded /\ OwnersInv /\ LoadedInv /\ ConsumerInv
  BY <1>2 DEF Init, OccupancyBounded, OwnersInv, LoadedInv, ConsumerInv
<1>4. WindowInv /\ PastInv
  BY <1>2 DEF Init, WindowInv, PastInv
<1>5. QED
  BY <1>1, <1>3, <1>4 DEF QueueInv, Init

\* Everything Push and Pop rely on holds in every reachable state.
THEOREM QueueSafe ==
    ASSUME 1 \notin ReserveSizes
    PROVE  Spec => []QueueInv
BY QueueInvInit, QueueInvStep, PTL DEF Spec

\* The variables keep their types.
THEOREM QueueTypeOK ==
    ASSUME 1 \notin ReserveSizes
    PROVE  Spec => []TypeOK
<1>1. QueueInv => TypeOK
  BY DEF QueueInv
<1>2. QED
  BY <1>1, QueueSafe, PTL

\* SizeApprox's difference is a possible size: the positions stay in order
\* and at most one round apart.
THEOREM QueueOccupancy ==
    ASSUME 1 \notin ReserveSizes
    PROVE  Spec => []OccupancyBounded
<1>1. QueueInv => OccupancyBounded
  BY DEF QueueInv
<1>2. QED
  BY <1>1, QueueSafe, PTL

\* Two producers that own a node own different ones.
LEMMA OwnersApart ==
    ASSUME QueueInv, NEW p \in Producers, NEW q \in Producers,
           p # q, Owns(p), Owns(q)
    PROVE  Slot(pos[p], pool_capacity) # Slot(pos[q], pool_capacity)
<1>1. pool_capacity \in Nat \ {0}
  BY Numbers DEF QueueInv, Quiescent, Owns
<1>2. \A a, b \in Nat : a # b /\ a < b + pool_capacity /\ b < a + pool_capacity
                            => Slot(a, pool_capacity) # Slot(b, pool_capacity)
  BY <1>1, Ring
<1>3. /\ pos[p] \in Nat /\ dequeue_pos <= pos[p] /\ pos[p] < enqueue_pos
      /\ pos[q] \in Nat /\ dequeue_pos <= pos[q] /\ pos[q] < enqueue_pos
      /\ pos[p] # pos[q]
  BY Numbers DEF QueueInv, OwnersInv
<1>4. QED
  BY <1>1, <1>2, <1>3, Numbers

\* No two threads access the data of one node at the same time.
THEOREM QueueNoSlotShared ==
    ASSUME 1 \notin ReserveSizes
    PROVE  Spec => []NoSlotShared
<1>1. ASSUME QueueInv PROVE NoSlotShared
  <2>1. SUFFICES ASSUME NEW p \in Producers, Owns(p)
                 PROVE  /\ \A q \in Producers \ {p} : Owns(q) =>
                              Slot(pos[p], pool_capacity) # Slot(pos[q], pool_capacity)
                        /\ cpc # "idle" =>
                              Slot(pos[p], pool_capacity) # Slot(cpos, pool_capacity)
    BY DEF NoSlotShared
  <2>2. pool_capacity \in Nat \ {0}
    BY <1>1, <2>1, Numbers DEF QueueInv, Quiescent, Owns
  <2>3. \A a, b \in Nat : a # b /\ a < b + pool_capacity /\ b < a + pool_capacity
                              => Slot(a, pool_capacity) # Slot(b, pool_capacity)
    BY <2>2, Ring
  <2>4. pos[p] \in Nat /\ dequeue_pos <= pos[p] /\ pos[p] < enqueue_pos
    BY <1>1, <2>1, Numbers DEF QueueInv, OwnersInv
  <2>5. ASSUME NEW q \in Producers \ {p}, Owns(q)
        PROVE  Slot(pos[p], pool_capacity) # Slot(pos[q], pool_capacity)
    BY <1>1, <2>1, <2>5, OwnersApart
  <2>6. ASSUME cpc # "idle"
        PROVE  Slot(pos[p], pool_capacity) # Slot(cpos, pool_capacity)
    <3>1. /\ pos[p] # cpos
          /\ Released <= cpos /\ cpos < enqueue_pos
      <4>1. CASE cpc \in {"read", "advance"}
        BY <1>1, <2>1, <4>1, Numbers DEF QueueInv, ConsumerInv, Claimed
      <4>2. CASE cpc = "release"
        BY <1>1, <2>4, <4>2, Numbers DEF QueueInv, ConsumerInv, Released
      <4>3. QED
        BY <1>1, <2>6, <4>1, <4>2 DEF QueueInv, TypeOK, PopSteps
    <3>2. QED
      BY <1>1, <2>2, <2>3, <2>4, <3>1, Numbers
  <2>7. QED
    BY <2>5, <2>6
<1>2. QED
  BY <1>1, QueueSafe, PTL

\* Push refuses an item only in a state in which the ring is full.
THEOREM QueueRefusedOnlyWhenFull ==
    ASSUME 1 \notin ReserveSizes
    PROVE  Spec => RefusedOnlyWhenFull
<1>1. ASSUME QueueInv, [Next]_vars, NEW p \in Producers,
             pc[p] = "sequence", pc'[p] = "idle"
      PROVE  enqueue_pos = Released + pool_capacity
  <2>1. PushSequence(p)
    BY <1>1 DEF Next, vars, InitQueue, Reserve, Destroy, NoPool, FreshPool,
       Quiescent, producers, consumer, Push, PushCall, PushLoad, PushSequence,
       PushClaim, PushClaimFails, PushData, PushPublish, Goto, Return,
       Pop, PopCheck, PopRead, PopAdvance, PopRelease, QueueInv, TypeOK
  <2>2. sequence[Slot(pos[p], pool_capacity)] < pos[p]
    BY <1>1, <2>1 DEF PushSequence, Goto, QueueInv, TypeOK
  <2>3. QED
    BY <1>1, <2>2, SeenSequence
<1>2. QueueInv /\ [Next]_vars =>
          [\A p \in Producers :
             pc[p] = "sequence" /\ pc'[p] = "idle"
                 => enqueue_pos = Released + pool_capacity]_vars
  BY <1>1
<1>3. QED
  BY <1>2, QueueSafe, PTL DEF Spec, RefusedOnlyWhenFull

-----------------------------------------------------------------------------
(* The refinement: which entries the abstract queue has. *)

\* The entries between the consumer and enqueue_pos_, as the instance FIFO
\* has them.
AbsQueue ==
    [i \in 1 .. (enqueue_pos - HeadPos) |-> EntryAt(HeadPos + i - 1)]

\* A published position shows what is in its node, a claimed one the argument
\* of its producer; no producer is behind the consumer.
AbsOK ==
    /\ HeadPos \in Nat /\ Released <= HeadPos /\ HeadPos <= enqueue_pos
    /\ AbsQueue = [i \in 1 .. (enqueue_pos - HeadPos) |-> AbsQueue[i]]
    /\ \A k \in HeadPos .. (enqueue_pos - 1) : ~Claimed(k) =>
          AbsQueue[k - HeadPos + 1] =
              [val |-> data[Slot(k, pool_capacity)], ready |-> TRUE]
    /\ \A p \in Producers : Owns(p) =>
          /\ HeadPos <= pos[p] /\ pos[p] < enqueue_pos
          /\ AbsQueue[pos[p] - HeadPos + 1] =
                 [val |-> item[p], ready |-> FALSE]

\* The sequence numbers of the current round say exactly that.
LEMMA AbsForm ==
    ASSUME QueueInv
    PROVE  AbsOK
<1> DEFINE c == pool_capacity
<1>1. /\ HeadPos \in Nat /\ Released <= HeadPos /\ HeadPos <= enqueue_pos
      /\ c \in Nat /\ enqueue_pos \in Nat /\ Released \in Nat
      /\ enqueue_pos <= Released + c
  BY Numbers DEF QueueInv, ConsumerInv, HeadPos
<1>2. AbsQueue = [i \in 1 .. (enqueue_pos - HeadPos) |-> AbsQueue[i]]
  BY DEF AbsQueue
<1>3. ASSUME NEW k \in HeadPos .. (enqueue_pos - 1)
      PROVE  /\ k \in Nat
             /\ AbsQueue[k - HeadPos + 1] = EntryAt(k)
             /\ sequence[Slot(k, c)] = IF ~Claimed(k) THEN k + 1 ELSE k
  <2>1. /\ k \in Nat /\ k \in Released .. (Released + c - 1)
        /\ k < enqueue_pos
    BY <1>1
  <2>2. /\ k - HeadPos + 1 \in 1 .. (enqueue_pos - HeadPos)
        /\ HeadPos + (k - HeadPos + 1) - 1 = k
    BY <1>1, <2>1
  <2>3. AbsQueue[k - HeadPos + 1] = EntryAt(k)
    BY <2>2 DEF AbsQueue
  <2>4. QED
    BY <2>1, <2>3 DEF QueueInv, WindowInv
<1>4. ASSUME NEW k \in HeadPos .. (enqueue_pos - 1), ~Claimed(k)
      PROVE  AbsQueue[k - HeadPos + 1] =
                 [val |-> data[Slot(k, c)], ready |-> TRUE]
  BY <1>3, <1>4 DEF EntryAt
<1>5. ASSUME NEW p \in Producers, Owns(p)
      PROVE  /\ HeadPos <= pos[p] /\ pos[p] < enqueue_pos
             /\ AbsQueue[pos[p] - HeadPos + 1] =
                    [val |-> item[p], ready |-> FALSE]
  <2>1. /\ pos[p] \in Nat /\ dequeue_pos <= pos[p] /\ pos[p] < enqueue_pos
        /\ Claimed(pos[p])
    BY <1>5, Numbers DEF QueueInv, OwnersInv, Claimed
  <2>2. HeadPos <= pos[p]
    <3>1. CASE cpc = "advance"
      BY <2>1, <3>1, Numbers DEF QueueInv, ConsumerInv, HeadPos
    <3>2. CASE cpc # "advance"
      BY <2>1, <3>2 DEF HeadPos
    <3>3. QED
      BY <3>1, <3>2
  <2>3. pos[p] \in HeadPos .. (enqueue_pos - 1)
    BY <1>1, <2>1, <2>2
  <2>4. sequence[Slot(pos[p], c)] # pos[p] + 1
    BY <1>3, <2>1, <2>3
  <2> DEFINE claimers == {q \in Producers : Owns(q) /\ pos[q] = pos[p]}
  <2>5. claimers = {p}
    BY <1>5 DEF QueueInv, OwnersInv
  <2>6. (CHOOSE q \in claimers : TRUE) = p
    BY <2>5
  <2>7. EntryAt(pos[p]) = [val |-> item[p], ready |-> FALSE]
    BY <2>4, <2>5, <2>6 DEF EntryAt
  <2>8. QED
    BY <1>3, <2>1, <2>2, <2>3, <2>7
<1>6. QED
  BY <1>1, <1>2, <1>4, <1>5 DEF AbsOK

\* So they do after a step.
LEMMA AbsFormNext ==
    ASSUME QueueInv'
    PROVE  AbsOK'
BY AbsForm, PTL

-----------------------------------------------------------------------------
(* The strengthened invariant. *)

\* A Push under way carries an item, and once it is written it stays in the
\* node until the producer publishes it.
RefineInv ==
    /\ QueueInv
    /\ \A p \in Producers :
          /\ pc[p] # "idle" => item[p] \in Items
          /\ pc[p] = "publish" => data[Slot(pos[p], pool_capacity)] = item[p]

\* Every step keeps it: nobody else writes the node of an owner.
LEMMA RefineInvStep ==
    ASSUME 1 \notin ReserveSizes, RefineInv, [Next]_vars
    PROVE  RefineInv'
<1> DEFINE Carried(p) ==
               /\ pc[p] # "idle" => item[p] \in Items
               /\ pc[p] = "publish" =>
                      data[Slot(pos[p], pool_capacity)] = item[p]
<1>1. QueueInv /\ QueueInv' /\ \A p \in Producers : Carried(p)
  BY QueueInvStep DEF RefineInv
<1>2. /\ pc \in [Producers -> PushSteps] /\ pos \in [Producers -> Nat]
      /\ item \in [Producers -> Items \cup {NoItem}]
  BY <1>1 DEF QueueInv, TypeOK
<1>3. SUFFICES ASSUME NEW q \in Producers
               PROVE  Carried(q)'
  BY <1>1 DEF RefineInv
<1>4. ASSUME Quiescent, UNCHANGED <<producers, consumer>> PROVE Carried(q)'
  BY <1>4 DEF Quiescent, producers
<1>5. ASSUME NEW p \in Producers, NEW v \in Items, PushCall(p, v)
      PROVE  Carried(q)'
  BY <1>1, <1>2, <1>5 DEF PushCall, Goto, pool
<1>6. ASSUME NEW p \in Producers, PushLoad(p) \/ PushClaimFails(p)
      PROVE  Carried(q)'
  BY <1>1, <1>2, <1>6 DEF PushLoad, PushClaimFails, Goto, pool
<1>7. ASSUME NEW p \in Producers, PushSequence(p)
      PROVE  Carried(q)'
  <2>1. pc[p] = "sequence" /\ pool_capacity' = pool_capacity /\ data' = data
    BY <1>7 DEF PushSequence, pool
  <2>2. \/ (Goto(p, "cas") \/ Goto(p, "load")) /\ UNCHANGED <<pos, item>>
        \/ Return(p)
    BY <1>7 DEF PushSequence
  <2>3. CASE (Goto(p, "cas") \/ Goto(p, "load")) /\ UNCHANGED <<pos, item>>
    BY <1>1, <1>2, <2>1, <2>3 DEF Goto
  <2>4. CASE Return(p)
    BY <1>1, <1>2, <2>1, <2>4 DEF Return, Goto
  <2>5. QED
    BY <2>2, <2>3, <2>4
<1>8. ASSUME NEW p \in Producers, PushClaim(p)
      PROVE  Carried(q)'
  BY <1>1, <1>2, <1>8 DEF PushClaim, Goto, pool
<1>9. ASSUME NEW p \in Producers, PushData(p)
      PROVE  Carried(q)'
  <2>1. /\ pc[p] = "data" /\ pc' = [pc EXCEPT ![p] = "publish"]
        /\ pos' = pos /\ item' = item /\ pool_capacity' = pool_capacity
        /\ data' = [data EXCEPT ![Slot(pos[p], pool_capacity)] = item[p]]
    BY <1>9 DEF PushData, Goto
  <2>2. pool_capacity \in Nat \ {0}
    BY <1>1, <2>1, Numbers DEF QueueInv, Quiescent
  <2>3. /\ Slot(pos[p], pool_capacity) \in 0 .. (pool_capacity - 1)
        /\ Slot(pos[q], pool_capacity) \in 0 .. (pool_capacity - 1)
    BY <1>2, <2>2, SlotType
  <2>4. data \in [0 .. (pool_capacity - 1) -> Items \cup {NoItem}]
    BY <1>1 DEF QueueInv, TypeOK
  <2>5. CASE q = p
    BY <1>1, <1>2, <2>1, <2>3, <2>4, <2>5
  <2>6. CASE q # p
    <3>1. pc'[q] = pc[q]
      BY <1>2, <2>1, <2>6
    <3>2. ASSUME pc[q] = "publish"
          PROVE  Slot(pos[p], pool_capacity) # Slot(pos[q], pool_capacity)
      <4>1. Owns(p) /\ Owns(q)
        BY <2>1, <3>2 DEF Owns
      <4>2. QED
        BY <1>1, <2>6, <4>1, OwnersApart
    <3>3. QED
      BY <1>1, <1>2, <2>1, <2>3, <2>4, <3>1, <3>2
  <2>7. QED
    BY <2>5, <2>6
<1>10. ASSUME NEW p \in Producers, PushPublish(p)
       PROVE  Carried(q)'
  BY <1>1, <1>2, <1>10 DEF PushPublish, Return, Goto
<1>11. CASE Pop
  BY <1>1, <1>11
     DEF Pop, PopCheck, PopRead, PopAdvance, PopRelease, producers, pool
<1>12. CASE UNCHANGED vars
  BY <1>1, <1>12 DEF vars
<1>13. QED
  BY <1>4, <1>5, <1>6, <1>7, <1>8, <1>9, <1>10, <1>11, <1>12
     DEF Next, InitQueue, Reserve, Destroy, Push

-----------------------------------------------------------------------------
(* What each step does to the abstract queue. *)

\* Storage that is empty, before or after a step.
LEMMA EmptyQueue ==
    ASSUME enqueue_pos = dequeue_pos, cpc = "idle", enqueue_pos \in Nat
    PROVE  AbsQueue = << >>
BY DEF AbsQueue, HeadPos

\* Init, Destroy and Reserve leave an empty queue.
LEMMA FreshEmpty ==
    ASSUME Quiescent, NEW c, FreshPool(c), UNCHANGED <<producers, consumer>>
    PROVE  AbsQueue' = << >> /\ pool_capacity' = c /\ out' = out
BY DEF Quiescent, FreshPool, producers, consumer, AbsQueue, HeadPos

\* A step is invisible when it moves neither end of the queue and changes no
\* owner, no owner's argument and no published node.
LEMMA Hidden ==
    ASSUME QueueInv, QueueInv',
           pool_capacity' = pool_capacity, out' = out,
           enqueue_pos' = enqueue_pos, HeadPos' = HeadPos,
           \A q \in Producers : Owns(q)' <=> Owns(q),
           \A q \in Producers : Owns(q) =>
               pos'[q] = pos[q] /\ item'[q] = item[q],
           \A k \in HeadPos .. (enqueue_pos - 1) : ~Claimed(k) =>
               data'[Slot(k, pool_capacity)] = data[Slot(k, pool_capacity)]
    PROVE  UNCHANGED <<pool_capacity, AbsQueue, out>>
<1>1. AbsOK /\ AbsOK'
  BY AbsForm, AbsFormNext
<1>2. HeadPos \in Nat /\ enqueue_pos \in Nat
  BY <1>1, Numbers DEF AbsOK
<1>3. \A k : Claimed(k)' <=> Claimed(k)
  BY DEF Claimed
<1>4. ASSUME NEW i \in 1 .. (enqueue_pos - HeadPos)
      PROVE  AbsQueue'[i] = AbsQueue[i]
  <2> DEFINE k == HeadPos + i - 1
  <2>1. k \in HeadPos .. (enqueue_pos - 1) /\ k - HeadPos + 1 = i /\ k \in Nat
    BY <1>2
  <2> HIDE DEF k
  <2>2. CASE Claimed(k)
    <3>1. PICK p \in Producers : Owns(p) /\ pos[p] = k
      BY <2>2 DEF Claimed
    <3>2. Owns(p)' /\ pos'[p] = k /\ item'[p] = item[p]
      BY <3>1
    <3>3. AbsQueue[k - HeadPos + 1] = [val |-> item[p], ready |-> FALSE]
      BY <1>1, <3>1 DEF AbsOK
    <3>4. AbsQueue'[k - HeadPos + 1] = [val |-> item[p], ready |-> FALSE]
      BY <1>1, <3>2 DEF AbsOK
    <3>5. QED
      BY <2>1, <3>3, <3>4
  <2>3. CASE ~Claimed(k)
    <3>1. AbsQueue[k - HeadPos + 1]
              = [val |-> data[Slot(k, pool_capacity)], ready |-> TRUE]
      BY <1>1, <2>1, <2>3 DEF AbsOK
    <3>2. AbsQueue'[k - HeadPos + 1]
              = [val |-> data'[Slot(k, pool_capacity)], ready |-> TRUE]
      BY <1>1, <1>3, <2>1, <2>3 DEF AbsOK
    <3>3. QED
      BY <2>1, <2>3, <3>1, <3>2
  <2>4. QED
    BY <2>2, <2>3
<1>5. /\ AbsQueue = [i \in 1 .. (enqueue_pos - HeadPos) |-> AbsQueue[i]]
      /\ AbsQueue' = [i \in 1 .. (enqueue_pos - HeadPos) |-> AbsQueue'[i]]
  BY <1>1 DEF AbsOK
<1>6. AbsQueue' = AbsQueue
  BY <1>4, <1>5
<1>7. QED
  BY <1>6

\* The steps of Push before its compare-and-swap, and a lost one.
LEMMA PushLocalHidden ==
    ASSUME QueueInv, QueueInv', NEW p \in Producers,
           \/ \E v \in Items : PushCall(p, v)
           \/ PushLoad(p)
           \/ PushClaimFails(p)
           \/ PushSequence(p)
    PROVE  UNCHANGED <<pool_capacity, AbsQueue, out>>
<1>1. UNCHANGED <<pool, enqueue_pos, dequeue_pos, consumer>>
  BY DEF PushCall, PushLoad, PushClaimFails, PushSequence
<1>2. /\ pc \in [Producers -> PushSteps] /\ pos \in [Producers -> Nat]
      /\ item \in [Producers -> Items \cup {NoItem}]
  BY DEF QueueInv, TypeOK
<1>3. /\ \A q \in Producers : Owns(q)' <=> Owns(q)
      /\ \A q \in Producers : Owns(q) => pos'[q] = pos[q] /\ item'[q] = item[q]
  <2>1. CASE PushSequence(p)
    <3>1. CASE (Goto(p, "cas") \/ Goto(p, "load")) /\ UNCHANGED <<pos, item>>
      BY <1>2, <2>1, <3>1 DEF PushSequence, Goto, Owns
    <3>2. CASE Return(p)
      BY <1>2, <2>1, <3>2 DEF PushSequence, Return, Goto, Owns
    <3>3. QED
      BY <2>1, <3>1, <3>2 DEF PushSequence
  <2>2. CASE PushLoad(p) \/ PushClaimFails(p) \/ \E v \in Items : PushCall(p, v)
    BY <1>2, <2>2 DEF PushCall, PushLoad, PushClaimFails, Goto, Owns
  <2>3. QED
    BY <2>1, <2>2
<1>4. HeadPos' = HeadPos
  BY <1>1 DEF HeadPos, consumer
<1>5. QED
  BY <1>1, <1>3, <1>4, Hidden DEF pool, consumer

\* Writing the node of a claimed position shows nothing: the entry is not
\* ready, and no other position of the queue has this node.
LEMMA PushDataHidden ==
    ASSUME QueueInv, QueueInv', NEW p \in Producers, PushData(p)
    PROVE  UNCHANGED <<pool_capacity, AbsQueue, out>>
<1> DEFINE c == pool_capacity
<1>1. /\ pc[p] = "data" /\ pc' = [pc EXCEPT ![p] = "publish"]
      /\ pos' = pos /\ item' = item /\ pool_capacity' = c
      /\ data' = [data EXCEPT ![Slot(pos[p], c)] = item[p]]
      /\ enqueue_pos' = enqueue_pos /\ dequeue_pos' = dequeue_pos
      /\ cpc' = cpc /\ cpos' = cpos /\ out' = out
  BY DEF PushData, Goto, consumer
<1>2. c \in Nat \ {0}
  BY <1>1, Numbers DEF QueueInv, Quiescent
<1>3. /\ \A k \in Nat : Slot(k, c) \in 0 .. (c - 1)
      /\ \A a, b \in Nat : a # b /\ a < b + c /\ b < a + c
                               => Slot(a, c) # Slot(b, c)
  BY <1>2, Ring
<1>4. \A q \in Producers : Owns(q)' <=> Owns(q)
  BY <1>1 DEF QueueInv, TypeOK, Owns
<1>5. HeadPos' = HeadPos /\ AbsOK /\ Owns(p)
  BY <1>1, AbsForm DEF HeadPos, Owns
<1>6. ASSUME NEW k \in HeadPos .. (enqueue_pos - 1), ~Claimed(k)
      PROVE  data'[Slot(k, c)] = data[Slot(k, c)]
  <2>1. k \in Nat /\ pos[p] \in Nat /\ k # pos[p]
    BY <1>5, <1>6, Numbers DEF AbsOK, Claimed
  <2>2. k < pos[p] + c /\ pos[p] < k + c
    <3>1. /\ HeadPos \in Nat /\ enqueue_pos \in Nat /\ Released \in Nat
          /\ HeadPos <= pos[p] /\ pos[p] < enqueue_pos
          /\ Released <= HeadPos /\ enqueue_pos <= Released + c
      BY <1>5, Numbers DEF AbsOK
    <3>2. HeadPos <= k /\ k < enqueue_pos
      BY <2>1, <3>1
    <3>3. QED
      BY <1>2, <2>1, <3>1, <3>2
  <2>3. Slot(k, c) # Slot(pos[p], c) /\ Slot(k, c) \in 0 .. (c - 1)
    BY <1>3, <2>1, <2>2
  <2>4. QED
    BY <1>1, <2>3 DEF QueueInv, TypeOK
<1>7. QED
  BY <1>1, <1>4, <1>5, <1>6, Hidden

\* A successful compare-and-swap claims the next place, and there is one.
LEMMA ClaimClaims ==
    ASSUME RefineInv, QueueInv', NEW p \in Producers, PushClaim(p)
    PROVE  /\ item[p] \in Items
           /\ Len(AbsQueue) < pool_capacity
           /\ AbsQueue' = Append(AbsQueue, [val |-> item[p], ready |-> FALSE])
           /\ UNCHANGED <<pool_capacity, out>>
<1> DEFINE c == pool_capacity
           n == enqueue_pos - HeadPos
<1>1. /\ pc[p] = "cas" /\ enqueue_pos = pos[p] /\ enqueue_pos' = pos[p] + 1
      /\ pc' = [pc EXCEPT ![p] = "data"] /\ pos' = pos /\ item' = item
      /\ pool_capacity' = c /\ data' = data
      /\ dequeue_pos' = dequeue_pos /\ cpc' = cpc /\ cpos' = cpos /\ out' = out
  BY DEF PushClaim, Goto, pool, consumer
<1>2. QueueInv /\ item[p] \in Items
  BY <1>1 DEF RefineInv
<1>3. AbsOK /\ AbsOK' /\ HeadPos' = HeadPos
  BY <1>1, <1>2, AbsForm, AbsFormNext DEF HeadPos
<1>4. /\ n \in Nat /\ n < c /\ HeadPos \in Nat /\ enqueue_pos \in Nat
      /\ enqueue_pos' - HeadPos' = n + 1
  BY <1>1, <1>2, <1>3, Numbers DEF AbsOK, QueueInv, LoadedInv
<1>5. \A q \in Producers : Owns(q)' <=> (Owns(q) \/ q = p)
  BY <1>1, <1>2 DEF QueueInv, TypeOK, Owns
<1>6. \A k : Claimed(k)' <=> (Claimed(k) \/ k = enqueue_pos)
  BY <1>1, <1>5 DEF Claimed
<1>7. ASSUME NEW i \in 1 .. n
      PROVE  AbsQueue'[i] = AbsQueue[i]
  <2> DEFINE k == HeadPos + i - 1
  <2>1. /\ k \in HeadPos .. (enqueue_pos - 1) /\ k - HeadPos + 1 = i
        /\ k \in HeadPos .. (enqueue_pos' - 1) /\ k # enqueue_pos
    BY <1>1, <1>4
  <2> HIDE DEF k
  <2>2. CASE Claimed(k)
    <3>1. PICK q \in Producers : Owns(q) /\ pos[q] = k
      BY <2>2 DEF Claimed
    <3>2. AbsQueue[k - HeadPos + 1] = [val |-> item[q], ready |-> FALSE]
      BY <1>3, <3>1 DEF AbsOK
    <3>3. AbsQueue'[k - HeadPos + 1] = [val |-> item[q], ready |-> FALSE]
      BY <1>1, <1>3, <1>5, <3>1 DEF AbsOK
    <3>4. QED
      BY <2>1, <3>2, <3>3
  <2>3. CASE ~Claimed(k)
    <3>1. AbsQueue[k - HeadPos + 1]
              = [val |-> data[Slot(k, c)], ready |-> TRUE]
      BY <1>3, <2>1, <2>3 DEF AbsOK
    <3>2. AbsQueue'[k - HeadPos + 1]
              = [val |-> data[Slot(k, c)], ready |-> TRUE]
      BY <1>1, <1>3, <1>6, <2>1, <2>3 DEF AbsOK
    <3>3. QED
      BY <2>1, <3>1, <3>2
  <2>4. QED
    BY <2>2, <2>3
<1>8. AbsQueue'[n + 1] = [val |-> item[p], ready |-> FALSE]
  <2>1. AbsQueue'[pos[p] - HeadPos + 1] = [val |-> item[p], ready |-> FALSE]
    BY <1>1, <1>3, <1>5 DEF AbsOK
  <2>2. QED
    BY <1>1, <2>1
<1>9. /\ AbsQueue = [i \in 1 .. n |-> AbsQueue[i]]
      /\ AbsQueue' = [i \in 1 .. (n + 1) |-> AbsQueue'[i]]
  BY <1>3, <1>4 DEF AbsOK
<1> HIDE DEF n
<1>10. AbsQueue' = Append(AbsQueue, [val |-> item[p], ready |-> FALSE])
  BY <1>4, <1>7, <1>8, <1>9, FnAppend
<1>11. Len(AbsQueue) = n
  BY <1>4, <1>9, FnSeq
<1>12. QED
  BY <1>1, <1>2, <1>4, <1>10, <1>11

\* Publishing makes the producer's own entry ready, with the item it pushed.
LEMMA PublishPublishes ==
    ASSUME RefineInv, QueueInv', NEW p \in Producers, PushPublish(p),
           NEW i, i = pos[p] - HeadPos + 1
    PROVE  /\ i \in DOMAIN AbsQueue
           /\ AbsQueue[i] = [val |-> item[p], ready |-> FALSE]
           /\ AbsQueue' = [AbsQueue EXCEPT ![i] =
                              [val |-> item[p], ready |-> TRUE]]
           /\ UNCHANGED <<pool_capacity, out>>
<1> DEFINE c == pool_capacity
           n == enqueue_pos - HeadPos
<1>1. /\ pc[p] = "publish" /\ pc' = [pc EXCEPT ![p] = "idle"]
      /\ pos' = [pos EXCEPT ![p] = 0] /\ item' = [item EXCEPT ![p] = NoItem]
      /\ pool_capacity' = c /\ data' = data
      /\ enqueue_pos' = enqueue_pos /\ dequeue_pos' = dequeue_pos
      /\ cpc' = cpc /\ cpos' = cpos /\ out' = out
  BY DEF PushPublish, Return, Goto, consumer
<1>2. QueueInv /\ data[Slot(pos[p], c)] = item[p] /\ Owns(p)
  BY <1>1 DEF RefineInv, Owns
<1>3. AbsOK /\ AbsOK' /\ HeadPos' = HeadPos
  BY <1>1, <1>2, AbsForm, AbsFormNext DEF HeadPos
<1>4. /\ n \in Nat /\ HeadPos \in Nat /\ enqueue_pos \in Nat /\ pos[p] \in Nat
      /\ HeadPos <= pos[p] /\ pos[p] < enqueue_pos
  <2>1. /\ HeadPos \in Nat /\ enqueue_pos \in Nat /\ pos[p] \in Nat
        /\ HeadPos <= enqueue_pos
    BY <1>2, <1>3, Numbers DEF AbsOK
  <2>2. HeadPos <= pos[p] /\ pos[p] < enqueue_pos
    BY <1>2, <1>3 DEF AbsOK
  <2>3. QED
    BY <2>1, <2>2
<1>5. i \in 1 .. n /\ pos[p] \in HeadPos .. (enqueue_pos - 1)
  BY <1>4
<1>6. \A q \in Producers : Owns(q)' <=> (Owns(q) /\ q # p)
  BY <1>1, <1>2 DEF QueueInv, TypeOK, Owns
<1>7. \A q \in Producers : q # p => pos'[q] = pos[q] /\ item'[q] = item[q]
  BY <1>1, <1>2 DEF QueueInv, TypeOK
<1>8. \A k : Claimed(k)' <=> (Claimed(k) /\ k # pos[p])
  BY <1>2, <1>6, <1>7 DEF QueueInv, OwnersInv, Claimed
<1>9. AbsQueue[i] = [val |-> item[p], ready |-> FALSE]
  BY <1>2, <1>3 DEF AbsOK
<1>10. AbsQueue'[i] = [val |-> item[p], ready |-> TRUE]
  <2>1. PICK k : k = pos[p]
    OBVIOUS
  <2>2. ~Claimed(k)' /\ k \in HeadPos .. (enqueue_pos - 1)
    BY <1>5, <1>8, <2>1
  <2>3. AbsQueue'[k - HeadPos + 1]
            = [val |-> data[Slot(k, c)], ready |-> TRUE]
    BY <1>1, <1>3, <2>2 DEF AbsOK
  <2>4. QED
    BY <1>2, <2>1, <2>3
<1>11. ASSUME NEW j \in 1 .. n, j # i
       PROVE  AbsQueue'[j] = AbsQueue[j]
  <2> DEFINE k == HeadPos + j - 1
  <2>1. /\ k \in HeadPos .. (enqueue_pos - 1) /\ k - HeadPos + 1 = j
        /\ k # pos[p]
    BY <1>4, <1>11
  <2> HIDE DEF k
  <2>2. CASE Claimed(k)
    <3>1. PICK q \in Producers : Owns(q) /\ pos[q] = k
      BY <2>2 DEF Claimed
    <3>2. q # p
      BY <2>1, <3>1
    <3>3. AbsQueue[k - HeadPos + 1] = [val |-> item[q], ready |-> FALSE]
      BY <1>3, <3>1 DEF AbsOK
    <3>4. AbsQueue'[k - HeadPos + 1] = [val |-> item[q], ready |-> FALSE]
      BY <1>3, <1>6, <1>7, <3>1, <3>2 DEF AbsOK
    <3>5. QED
      BY <2>1, <3>3, <3>4
  <2>3. CASE ~Claimed(k)
    <3>1. AbsQueue[k - HeadPos + 1]
              = [val |-> data[Slot(k, c)], ready |-> TRUE]
      BY <1>3, <2>1, <2>3 DEF AbsOK
    <3>2. AbsQueue'[k - HeadPos + 1]
              = [val |-> data[Slot(k, c)], ready |-> TRUE]
      BY <1>1, <1>3, <1>8, <2>1, <2>3 DEF AbsOK
    <3>3. QED
      BY <2>1, <3>1, <3>2
  <2>4. QED
    BY <2>2, <2>3
<1>12. /\ AbsQueue = [j \in 1 .. n |-> AbsQueue[j]]
       /\ AbsQueue' = [j \in 1 .. n |-> AbsQueue'[j]]
  BY <1>1, <1>3 DEF AbsOK
<1> HIDE DEF n
<1>13. AbsQueue' = [AbsQueue EXCEPT ![i] = [val |-> item[p], ready |-> TRUE]]
  BY <1>4, <1>5, <1>10, <1>11, <1>12, FnExcept
<1>14. i \in DOMAIN AbsQueue
  BY <1>5, <1>12
<1>15. QED
  BY <1>1, <1>9, <1>13, <1>14

\* The copy of the head's node takes the oldest entry, which is published.
LEMMA ReadTakes ==
    ASSUME QueueInv, QueueInv', PopRead
    PROVE  /\ AbsQueue # << >>
           /\ Head(AbsQueue) = [val |-> out', ready |-> TRUE]
           /\ AbsQueue' = Tail(AbsQueue)
           /\ UNCHANGED pool_capacity
<1> DEFINE c == pool_capacity
           n == enqueue_pos - HeadPos
<1>1. /\ cpc = "read" /\ cpc' = "advance" /\ cpos' = cpos
      /\ out' = data[Slot(cpos, c)]
      /\ pool_capacity' = c /\ sequence' = sequence /\ data' = data
      /\ enqueue_pos' = enqueue_pos /\ dequeue_pos' = dequeue_pos
      /\ pc' = pc /\ pos' = pos /\ item' = item
  BY DEF PopRead, pool, producers
<1>2. /\ cpos = dequeue_pos /\ cpos < enqueue_pos /\ ~Claimed(cpos)
      /\ HeadPos = cpos /\ HeadPos' = cpos + 1
  BY <1>1 DEF QueueInv, ConsumerInv, HeadPos
<1>3. AbsOK /\ AbsOK'
  BY AbsForm, AbsFormNext
<1>4. n \in Nat \ {0} /\ HeadPos \in Nat /\ enqueue_pos \in Nat /\ cpos \in Nat
  BY <1>2, <1>3, Numbers DEF AbsOK
<1>5. /\ \A q \in Producers : Owns(q)' <=> Owns(q)
      /\ \A k : Claimed(k)' <=> Claimed(k)
  BY <1>1 DEF Owns, Claimed
<1>6. AbsQueue[1] = [val |-> out', ready |-> TRUE]
  <2>1. cpos \in HeadPos .. (enqueue_pos - 1) /\ cpos - HeadPos + 1 = 1
    BY <1>2, <1>4
  <2>2. QED
    BY <1>1, <1>2, <1>3, <2>1 DEF AbsOK
<1>7. ASSUME NEW i \in 1 .. (n - 1)
      PROVE  AbsQueue'[i] = AbsQueue[i + 1]
  <2> DEFINE k == HeadPos + i
  <2>1. /\ k \in HeadPos .. (enqueue_pos - 1) /\ k - HeadPos + 1 = i + 1
        /\ k \in HeadPos' .. (enqueue_pos - 1) /\ k - HeadPos' + 1 = i
    BY <1>2, <1>4
  <2> HIDE DEF k
  <2>2. CASE Claimed(k)
    <3>1. PICK q \in Producers : Owns(q) /\ pos[q] = k
      BY <2>2 DEF Claimed
    <3>2. AbsQueue[k - HeadPos + 1] = [val |-> item[q], ready |-> FALSE]
      BY <1>3, <3>1 DEF AbsOK
    <3>3. AbsQueue'[k - HeadPos' + 1] = [val |-> item[q], ready |-> FALSE]
      BY <1>1, <1>3, <1>5, <3>1 DEF AbsOK
    <3>4. QED
      BY <2>1, <3>2, <3>3
  <2>3. CASE ~Claimed(k)
    <3>1. AbsQueue[k - HeadPos + 1]
              = [val |-> data[Slot(k, c)], ready |-> TRUE]
      BY <1>3, <2>1, <2>3 DEF AbsOK
    <3>2. AbsQueue'[k - HeadPos' + 1]
              = [val |-> data[Slot(k, c)], ready |-> TRUE]
      BY <1>1, <1>3, <1>5, <2>1, <2>3 DEF AbsOK
    <3>3. QED
      BY <2>1, <3>1, <3>2
  <2>4. QED
    BY <2>2, <2>3
<1>8. /\ AbsQueue = [i \in 1 .. n |-> AbsQueue[i]]
      /\ AbsQueue' = [i \in 1 .. (enqueue_pos' - HeadPos') |-> AbsQueue'[i]]
      /\ enqueue_pos' - HeadPos' = n - 1
  BY <1>1, <1>2, <1>3, <1>4 DEF AbsOK
<1> HIDE DEF n
<1>9. AbsQueue' = [i \in 1 .. (n - 1) |-> AbsQueue[i + 1]]
  BY <1>7, <1>8
<1>10. QED
  BY <1>1, <1>4, <1>6, <1>8, <1>9, FnTail

\* The other steps of Pop are invisible.
LEMMA PopHidden ==
    ASSUME QueueInv, QueueInv', PopCheck \/ PopAdvance \/ PopRelease
    PROVE  UNCHANGED <<pool_capacity, AbsQueue, out>>
<1>1. /\ pool_capacity' = pool_capacity /\ data' = data /\ out' = out
      /\ enqueue_pos' = enqueue_pos
      /\ pc' = pc /\ pos' = pos /\ item' = item
  BY DEF PopCheck, PopAdvance, PopRelease, pool, producers
<1>2. HeadPos' = HeadPos
  BY DEF PopCheck, PopAdvance, PopRelease, HeadPos
<1>3. \A q \in Producers : Owns(q)' <=> Owns(q)
  BY <1>1 DEF Owns
<1>4. QED
  BY <1>1, <1>2, <1>3, Hidden

\* Every step of the ring is a step of the abstract queue, or leaves it alone.
LEMMA RefineStep ==
    ASSUME RefineInv, RefineInv', [Next]_vars
    PROVE  [FIFO!Next]_<<pool_capacity, AbsQueue, out>>
<1> USE DEF FIFO!Next, AbsQueue
<1>1. QueueInv /\ QueueInv'
  BY DEF RefineInv
<1>2. ASSUME NEW c \in InitSizes, InitQueue(c)
      PROVE  FIFO!Reset
  <2>1. CASE c < 2
    BY <1>2, <2>1, FreshEmpty DEF InitQueue, NoPool, FIFO!Reset
  <2>2. CASE ~(c < 2)
    BY <1>2, <2>2, FreshEmpty DEF InitQueue, FIFO!Reset
  <2>3. QED
    BY <2>1, <2>2
<1>3. ASSUME NEW c \in ReserveSizes, Reserve(c)
      PROVE  FIFO!Grow
  <2>1. AbsQueue = << >>
    BY <1>1, <1>3, EmptyQueue, Numbers DEF Reserve, Quiescent
  <2>2. AbsQueue' = << >> /\ pool_capacity' = c /\ out' = out
    BY <1>3, FreshEmpty DEF Reserve
  <2>3. c \in Nat /\ pool_capacity \in Nat /\ pool_capacity < c
    BY <1>1, <1>3, ConstantsAssumption, Numbers DEF Reserve
  <2>4. QED
    BY <2>1, <2>2, <2>3 DEF FIFO!Grow
<1>4. CASE Destroy
  <2>1. FIFO!Reset
    BY <1>4, FreshEmpty DEF Destroy, NoPool, FIFO!Reset
  <2>2. QED
    BY <2>1
<1>5. ASSUME NEW p \in Producers, PushClaim(p)
      PROVE  [FIFO!Next]_<<pool_capacity, AbsQueue, out>>
  <2>1. PICK v \in Items : v = item[p]
    BY <1>1, <1>5, ClaimClaims
  <2>2. FIFO!Claim(v)
    BY <1>1, <1>5, <2>1, ClaimClaims DEF FIFO!Claim
  <2>3. QED
    BY <2>2
<1>6. ASSUME NEW p \in Producers, PushPublish(p)
      PROVE  [FIFO!Next]_<<pool_capacity, AbsQueue, out>>
  <2>1. PICK i : i = pos[p] - HeadPos + 1
    OBVIOUS
  <2> HIDE DEF AbsQueue
  <2>2. /\ i \in DOMAIN AbsQueue
        /\ AbsQueue[i] = [val |-> item[p], ready |-> FALSE]
        /\ AbsQueue' = [AbsQueue EXCEPT ![i] =
                           [val |-> item[p], ready |-> TRUE]]
        /\ UNCHANGED <<pool_capacity, out>>
    BY <1>1, <1>6, <2>1, PublishPublishes
  <2>3. ~AbsQueue[i].ready /\ AbsQueue' = [AbsQueue EXCEPT ![i].ready = TRUE]
    <3>1. AbsQueue[i].ready = FALSE
      BY <2>2
    <3>2. [AbsQueue[i] EXCEPT !.ready = TRUE]
              = [val |-> item[p], ready |-> TRUE]
      <4>1. AbsQueue[i] \in [val : {item[p]}, ready : BOOLEAN]
        BY <2>2
      <4>2. AbsQueue[i].val = item[p]
        BY <2>2
      <4>3. QED
        BY <4>1, <4>2, MadeReady
    <3>3. AbsQueue' = [AbsQueue EXCEPT ![i] =
                          [AbsQueue[i] EXCEPT !.ready = TRUE]]
      BY <2>2, <3>2
    <3>4. QED
      BY <3>1, <3>3
  <2>4. FIFO!Publish(i)
    BY <2>2, <2>3 DEF FIFO!Publish, AbsQueue
  <2>5. \E j \in DOMAIN AbsQueue : FIFO!Publish(j)
    BY <2>2, <2>4
  <2>6. QED
    BY <2>5 DEF AbsQueue
<1>7. CASE PopRead
  <2>1. Head(AbsQueue).ready /\ out' = Head(AbsQueue).val
    <3>1. Head(AbsQueue) = [val |-> out', ready |-> TRUE]
      BY <1>1, <1>7, ReadTakes
    <3>2. QED
      BY <3>1
  <2>2. FIFO!Take
    BY <1>1, <1>7, <2>1, ReadTakes DEF FIFO!Take
  <2>3. QED
    BY <2>2
<1>8. CASE UNCHANGED vars
  BY <1>8 DEF vars, HeadPos, EntryAt, Owns
<1>9. ASSUME NEW p \in Producers, Push(p)
      PROVE  [FIFO!Next]_<<pool_capacity, AbsQueue, out>>
  BY <1>1, <1>5, <1>6, <1>9, PushLocalHidden, PushDataHidden DEF Push
<1>10. CASE Pop
  BY <1>1, <1>7, <1>10, PopHidden DEF Pop
<1>11. QED
  BY <1>2, <1>3, <1>4, <1>8, <1>9, <1>10 DEF Next

\* The ring implements a bounded first-in first-out queue for any number of
\* producers, any items, sizes and number of rounds: a place is claimed by
\* the compare-and-swap on enqueue_pos_, becomes ready with the store of its
\* sequence number, and is taken when Pop copies the node.
THEOREM QueueImplementsFIFO ==
    ASSUME 1 \notin ReserveSizes
    PROVE  Spec => ImplementsFIFO
<1>1. Init => RefineInv
  BY QueueInvInit DEF Init, RefineInv
<1>2. Init => FIFO!Init
  BY DEF Init, FIFO!Init, HeadPos
<1>3. RefineInv /\ RefineInv' /\ [Next]_vars => [FIFO!Next]_(FIFO!fifoVars)
  BY RefineStep DEF FIFO!fifoVars, AbsQueue
<1>4. Spec => []RefineInv
  BY <1>1, RefineInvStep, PTL DEF Spec
<1>5. QED
  BY <1>2, <1>3, <1>4, PTL DEF Spec, ImplementsFIFO, FIFO!Spec
=============================================================================
