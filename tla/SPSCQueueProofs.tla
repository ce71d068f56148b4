-------------------------- MODULE SPSCQueueProofs --------------------------
(***************************************************************************)
(* Safety of SPSCQueue for any items and any sizes, over any number of     *)
(* rounds of the ring.                                                     *)
(***************************************************************************)
EXTENDS SPSCQueue, SequenceTheorems, TLAPS

-----------------------------------------------------------------------------
(* Queues written as functions on 1 .. n, as the refinement mapping writes *)
(* them, and the sequence operators of BoundedFIFO.                         *)

\* A function on 1 .. n is a sequence of length n.
LEMMA FnSeq ==
    ASSUME NEW n \in Nat, NEW f, f = [i \in 1 .. n |-> f[i]]
    PROVE  /\ f \in Seq({f[i] : i \in 1 .. n})
           /\ Len(f) = n
           /\ (f = << >>) <=> (n = 0)
<1> DEFINE S == {f[i] : i \in 1 .. n}
<1>1. f \in [1 .. n -> S]
  OBVIOUS
<1>2. f \in Seq(S)
  BY <1>1
<1>3. Len(f) = n
  BY <1>1, <1>2
<1>4. QED
  BY <1>2, <1>3

\* One entry more at the end.
LEMMA FnAppend ==
    ASSUME NEW n \in Nat, NEW f, f = [i \in 1 .. n |-> f[i]],
           NEW g, g = [i \in 1 .. (n + 1) |-> g[i]],
           \A i \in 1 .. n : g[i] = f[i]
    PROVE  g = Append(f, g[n + 1])
<1> DEFINE S == {f[i] : i \in 1 .. n} \cup {g[n + 1]}
<1>1. f \in [1 .. n -> S]
  OBVIOUS
<1>2. f \in Seq(S) /\ g[n + 1] \in S
  BY <1>1
<1> HIDE DEF S
<1>3. Len(f) = n
  BY <1>1, <1>2
<1>4. /\ Append(f, g[n + 1]) \in Seq(S)
      /\ Len(Append(f, g[n + 1])) = n + 1
      /\ \A i \in 1 .. n : Append(f, g[n + 1])[i] = f[i]
      /\ Append(f, g[n + 1])[n + 1] = g[n + 1]
  BY <1>2, <1>3, AppendProperties
<1>5. Append(f, g[n + 1]) = [i \in 1 .. (n + 1) |-> Append(f, g[n + 1])[i]]
  BY <1>4
<1>6. ASSUME NEW i \in 1 .. (n + 1)
      PROVE  Append(f, g[n + 1])[i] = g[i]
  <2>1. CASE i = n + 1
    BY <1>4, <2>1
  <2>2. CASE i # n + 1
    <3>1. i \in 1 .. n
      BY <2>2
    <3>2. QED
      BY <1>4, <3>1
  <2>3. QED
    BY <2>1, <2>2
<1>7. QED
  BY <1>5, <1>6

\* The oldest entry less.
LEMMA FnTail ==
    ASSUME NEW n \in Nat \ {0}, NEW f, f = [i \in 1 .. n |-> f[i]],
           NEW g, g = [i \in 1 .. (n - 1) |-> f[i + 1]]
    PROVE  g = Tail(f) /\ Head(f) = f[1] /\ f # << >>
<1> DEFINE S == {f[i] : i \in 1 .. n}
<1>1. f \in Seq(S) /\ Len(f) = n /\ f # << >>
  BY FnSeq
<1> HIDE DEF S
<1>2. QED
  BY <1>1


\* (i + 1) % capacity_ is an index again.
LEMMA NextIdxType ==
    ASSUME capacity \in Nat \ {0}, NEW i \in Nat
    PROVE  NextIdx(i) \in Nat /\ NextIdx(i) < capacity
BY DEF NextIdx

\* Different indices have different successors.
LEMMA NextIdxInjective ==
    ASSUME capacity \in Nat \ {0}, NEW i \in Nat, NEW j \in Nat,
           i < capacity, j < capacity, i # j
    PROVE  NextIdx(i) # NextIdx(j)
<1>1. ASSUME NEW k \in Nat, k < capacity
      PROVE  NextIdx(k) = IF k + 1 = capacity THEN 0 ELSE k + 1
  <2>1. CASE k + 1 = capacity
    BY <2>1 DEF NextIdx
  <2>2. CASE k + 1 # capacity
    BY <1>1, <2>2 DEF NextIdx
  <2>3. QED
    BY <2>1, <2>2
<1>2. QED
  BY <1>1

\* Storage from Init or Destroy satisfies the invariant, whatever the indices
\* of the storage before it were.
LEMMA StorageInv ==
    ASSUME SPSCInv, Quiescent,
           NEW c \in InitSizes \cup {0}, NewStorage(c),
           read_idx' \in Nat, write_idx' \in Nat,
           c # 0 => read_idx' = 0 /\ write_idx' = 0,
           UNCHANGED <<ppc, item, cpc, out>>
    PROVE  SPSCInv'
<1>1. c \in Nat
  BY SPSCAssumption
<1>2. TypeOK'
  BY <1>1 DEF SPSCInv, TypeOK, NewStorage
<1>3. Quiescent' /\ ppc' = "idle" /\ cpc' = "idle"
  BY DEF Quiescent
<1>4. QED
  BY <1>2, <1>3 DEF SPSCInv

\* Every step of the producer keeps the invariant: the consumer only ever
\* makes more room.
LEMMA PushInv ==
    ASSUME SPSCInv, Push
    PROVE  SPSCInv'
<1> USE DEF SPSCInv, TypeOK
<1>1. capacity \in Nat
  BY SPSCAssumption
<1>2. ASSUME NEW v \in Items, PushCheck(v)
      PROVE  SPSCInv'
  BY <1>1, <1>2 DEF PushCheck, storage, Quiescent, NextIdx
<1>3. CASE PushWrite
  BY <1>1, <1>3 DEF PushWrite, Quiescent, NextIdx
<1>4. CASE PushPublish
  <2>1. capacity # 0
    BY <1>4 DEF PushPublish, Quiescent
  <2>2. NextIdx(write_idx) \in Nat /\ NextIdx(write_idx) < capacity
    BY <1>1, <2>1, NextIdxType
  <2>3. TypeOK'
    BY <1>4, <2>2 DEF PushPublish, storage
  <2>4. cpc' # "idle" => read_idx' # write_idx'
    BY <1>4 DEF PushPublish
  <2>5. QED
    BY <1>4, <2>1, <2>3, <2>4 DEF PushPublish, storage, Quiescent
<1>5. QED
  BY <1>2, <1>3, <1>4 DEF Push

\* Every step of the consumer keeps the invariant: the slot it leaves behind
\* is not the one the producer is heading for.
LEMMA PopInv ==
    ASSUME SPSCInv, Pop
    PROVE  SPSCInv'
<1> USE DEF SPSCInv, TypeOK
<1>1. capacity \in Nat
  BY SPSCAssumption
<1>2. CASE PopCheck
  BY <1>1, <1>2 DEF PopCheck, storage, Quiescent, NextIdx
<1>3. CASE PopRead
  <2>1. capacity # 0
    BY <1>3 DEF PopRead, Quiescent
  <2>2. buffer[read_idx] \in Items \cup {NoItem}
    BY <1>1, <2>1
  <2>3. QED
    BY <1>3, <2>1, <2>2 DEF PopRead, storage, Quiescent, NextIdx
<1>4. CASE PopAdvance
  <2>1. capacity # 0
    BY <1>4 DEF PopAdvance, Quiescent
  <2>2. NextIdx(read_idx) \in Nat /\ NextIdx(read_idx) < capacity
    BY <1>1, <2>1, NextIdxType
  <2>3. TypeOK'
    BY <1>4, <2>2 DEF PopAdvance, storage
  <2>4. NextIdx(write_idx) # NextIdx(read_idx)
    <3>1. read_idx # write_idx
      BY <1>4 DEF PopAdvance
    <3>2. QED
      BY <1>1, <2>1, <3>1, NextIdxInjective
  <2>5. QED
    BY <1>4, <2>1, <2>3, <2>4 DEF PopAdvance, storage, Quiescent, NextIdx
<1>5. QED
  BY <1>2, <1>3, <1>4 DEF Pop

\* Every step keeps the invariant.
LEMMA SPSCInvStep ==
    ASSUME SPSCInv, [Next]_vars
    PROVE  SPSCInv'
<1>1. ASSUME NEW c \in InitSizes, InitQueue(c)
      PROVE  SPSCInv'
  BY <1>1, StorageInv DEF InitQueue, SPSCInv, TypeOK
<1>2. CASE Destroy
  BY <1>2, StorageInv DEF Destroy, SPSCInv, TypeOK
<1>3. CASE UNCHANGED vars
  BY <1>3 DEF vars, SPSCInv, TypeOK, Quiescent, NextIdx
<1>4. QED
  BY <1>1, <1>2, <1>3, PushInv, PopInv DEF Next

\* The invariant holds throughout, for every capacity Init accepts.
THEOREM SPSCSafe == Spec => []SPSCInv
<1>1. Init => SPSCInv
  BY DEF Init, SPSCInv, TypeOK, Quiescent
<1>2. QED
  BY <1>1, SPSCInvStep, PTL DEF Spec

\* The indices never leave the buffer, even after Init on a queue that was
\* used before with another capacity.
THEOREM SPSCTypeOK == Spec => []TypeOK
BY SPSCSafe, PTL DEF SPSCInv

\* Producer and consumer never touch the same slot at the same time.
THEOREM SPSCNoSlotShared == Spec => []NoSlotShared
<1>1. SPSCInv => NoSlotShared
  BY DEF SPSCInv, NoSlotShared
<1>2. QED
  BY <1>1, SPSCSafe, PTL

-----------------------------------------------------------------------------
(* The refinement.  The queue is written down once more without `%': inside *)
(* one round of the ring it is a comparison and a subtraction.             *)

\* What (i + j) % capacity_ is for two indices.
Wrap(k) == IF k < capacity THEN k ELSE k - capacity

\* How many items the buffer holds for the consumer.
Distance == IF read_idx <= write_idx THEN write_idx - read_idx
                                     ELSE write_idx - read_idx + capacity

\* An entry of the abstract queue.
Entry(v) == [val |-> v, ready |-> TRUE]

\* The state of the abstract queue, as the instance FIFO has it.
AbsLimit == IF capacity = 0 THEN 0 ELSE capacity - 1
AbsQueue == [i \in 1 .. (Size - Taken) |->
                [val |-> buffer[(read_idx + Taken + i - 1) % capacity],
                 ready |-> TRUE]]

\* The value of a Push under way is an item, and once it is written it stays
\* in the slot the producer is about to publish.
RefineInv ==
    /\ SPSCInv
    /\ ppc # "idle" => item \in Items
    /\ ppc = "publish" => buffer[write_idx] = item

\* One round of the ring.
LEMMA ModRound ==
    ASSUME NEW c \in Nat \ {0}, NEW k \in Int
    PROVE  /\ 0 <= k /\ k < c => k % c = k
           /\ c <= k /\ k < 2 * c => k % c = k - c
           /\ -c <= k /\ k < 0 => k % c = k + c
<1> DEFINE q == k \div c
<1>1. q \in Int /\ k % c \in Int
  OBVIOUS
<1>2. k = c * q + (k % c) /\ 0 <= k % c /\ k % c < c
  OBVIOUS
<1> HIDE DEF q
<1>3. c * q > k - c /\ c * q <= k /\ c * q \in Int
  BY <1>1, <1>2
<1>4. q >= 2 => c * q >= 2 * c
  BY <1>1
<1>5. q <= -2 => c * q <= -2 * c
  BY <1>1
<1>6. (q = 0 => c * q = 0) /\ (q = 1 => c * q = c) /\ (q = -1 => c * q = -c)
  BY <1>1
<1>7. q >= 2 \/ q = 1 \/ q = 0 \/ q = -1 \/ q <= -2
  BY <1>1
<1>8. QED
  BY <1>1, <1>2, <1>3, <1>4, <1>5, <1>6, <1>7

\* Every `%' of the queue is one of these.
LEMMA RingForms ==
    ASSUME SPSCInv, capacity # 0
    PROVE  /\ capacity \in Nat \ {0}
           /\ Size = Distance
           /\ \A i \in 0 .. (2 * capacity - 1) : i % capacity = Wrap(i)
           /\ \A i \in 0 .. (capacity - 1) : NextIdx(i) = Wrap(i + 1)
<1>1. /\ capacity \in Nat \ {0}
      /\ read_idx \in Nat /\ write_idx \in Nat
      /\ read_idx < capacity /\ write_idx < capacity
  BY SPSCAssumption DEF SPSCInv, TypeOK
<1>2. \A i \in 0 .. (2 * capacity - 1) : i % capacity = Wrap(i)
  <2>1. SUFFICES ASSUME NEW i \in 0 .. (2 * capacity - 1)
                 PROVE  i % capacity = Wrap(i)
    OBVIOUS
  <2>2. i \in Int /\ 0 <= i /\ i < 2 * capacity
    BY <1>1
  <2>3. QED
    BY <1>1, <2>2, ModRound DEF Wrap
<1>3. Size = Distance
  <2>1. write_idx - read_idx \in Int
    BY <1>1
  <2>2. CASE read_idx <= write_idx
    BY <1>1, <2>1, <2>2, ModRound DEF Size, Distance
  <2>3. CASE write_idx < read_idx
    BY <1>1, <2>1, <2>3, ModRound DEF Size, Distance
  <2>4. QED
    BY <1>1, <2>2, <2>3
<1>4. \A i \in 0 .. (capacity - 1) : NextIdx(i) = Wrap(i + 1)
  BY <1>1, <1>2 DEF NextIdx
<1>5. QED
  BY <1>1, <1>2, <1>3, <1>4

\* The abstract queue: the slots from the consumer's on, less the one it has
\* already copied.
AbsOK ==
    /\ Distance \in Nat /\ Distance < capacity
    /\ Taken \in {0, 1} /\ Taken <= Distance
    /\ Wrap(read_idx + Distance) = write_idx
    /\ AbsQueue = [i \in 1 .. (Distance - Taken) |->
                      Entry(buffer[Wrap(read_idx + Taken + i - 1)])]

\* A queue with storage has this form.
LEMMA AbsForm ==
    ASSUME SPSCInv, capacity # 0
    PROVE  AbsOK
<1>1. /\ capacity \in Nat \ {0}
      /\ read_idx \in Nat /\ write_idx \in Nat
      /\ read_idx < capacity /\ write_idx < capacity
  BY SPSCAssumption DEF SPSCInv, TypeOK
<1>2. Distance \in Nat /\ Distance < capacity
  BY <1>1 DEF Distance
<1>3. Taken \in {0, 1} /\ Taken <= Distance
  BY <1>1, <1>2 DEF Taken, Distance, SPSCInv
<1>4. Wrap(read_idx + Distance) = write_idx
  BY <1>1 DEF Wrap, Distance
<1>5. Size = Distance
  BY RingForms
<1>6. ASSUME NEW i \in 1 .. (Distance - Taken)
      PROVE  (read_idx + Taken + i - 1) % capacity
                 = Wrap(read_idx + Taken + i - 1)
  <2>1. read_idx + Taken + i - 1 \in 0 .. (2 * capacity - 1)
    BY <1>1, <1>2, <1>3, <1>6
  <2>2. QED
    BY <2>1, RingForms
<1>7. QED
  BY <1>2, <1>3, <1>4, <1>5, <1>6 DEF AbsQueue, Entry, AbsOK

\* So has the queue after a step.
LEMMA AbsFormNext ==
    ASSUME SPSCInv', (capacity # 0)'
    PROVE  AbsOK'
BY AbsForm, PTL

-----------------------------------------------------------------------------
(* The strengthened invariant. *)

\* Every step keeps what is known of the value being pushed: the consumer
\* writes no slot, and only the producer moves write_idx_.
LEMMA RefineInvStep ==
    ASSUME RefineInv, [Next]_vars
    PROVE  RefineInv'
<1>1. SPSCInv'
  BY SPSCInvStep DEF RefineInv
<1>2. ASSUME NEW c \in InitSizes, InitQueue(c)
      PROVE  RefineInv'
  BY <1>1, <1>2 DEF RefineInv, InitQueue, Quiescent
<1>3. CASE Destroy
  BY <1>1, <1>3 DEF RefineInv, Destroy, Quiescent
<1>4. ASSUME NEW v \in Items, PushCheck(v)
      PROVE  RefineInv'
  BY <1>1, <1>4 DEF RefineInv, PushCheck, storage
<1>5. CASE PushWrite
  <2>1. write_idx \in 0 .. (capacity - 1)
    BY <1>5, SPSCAssumption DEF RefineInv, SPSCInv, TypeOK, PushWrite, Quiescent
  <2>2. buffer'[write_idx] = item
    BY <1>5, <2>1 DEF RefineInv, SPSCInv, TypeOK, PushWrite
  <2>3. QED
    BY <1>1, <1>5, <2>2 DEF RefineInv, PushWrite
<1>6. CASE PushPublish
  BY <1>1, <1>6 DEF RefineInv, PushPublish
<1>7. CASE PopCheck
  BY <1>1, <1>7 DEF RefineInv, PopCheck, storage
<1>8. CASE PopRead
  BY <1>1, <1>8 DEF RefineInv, PopRead, storage
<1>9. CASE PopAdvance
  BY <1>1, <1>9 DEF RefineInv, PopAdvance, storage
<1>10. CASE UNCHANGED vars
  BY <1>1, <1>10 DEF RefineInv, vars
<1>11. QED
  BY <1>2, <1>3, <1>4, <1>5, <1>6, <1>7, <1>8, <1>9, <1>10
     DEF Next, Push, Pop

-----------------------------------------------------------------------------
(* What each step does to the abstract queue. *)

\* Init and Destroy leave an empty queue.
LEMMA ResetEmpties ==
    ASSUME SPSCInv, Quiescent, NEW c \in InitSizes \cup {0}, NewStorage(c),
           c # 0 => read_idx' = 0 /\ write_idx' = 0,
           UNCHANGED <<ppc, item, cpc, out>>
    PROVE  /\ AbsQueue' = << >>
           /\ AbsLimit' \in {b - 1 : b \in InitSizes \ {0}} \cup {0}
<1>1. c \in Nat /\ capacity' = c
  BY SPSCAssumption DEF NewStorage
<1>2. Taken' = 0
  BY DEF Quiescent, Taken
<1>3. Size' = 0
  <2>1. CASE c = 0
    BY <1>1, <2>1 DEF Size
  <2>2. CASE c # 0
    BY <1>1, <2>2, ModRound DEF Size
  <2>3. QED
    BY <2>1, <2>2
<1>4. AbsQueue' = << >>
  BY <1>2, <1>3 DEF AbsQueue
<1>5. AbsLimit' \in {b - 1 : b \in InitSizes \ {0}} \cup {0}
  BY <1>1 DEF AbsLimit
<1>6. QED
  BY <1>4, <1>5

\* The write of a Push under way touches no slot that is queued.
LEMMA WriteHidden ==
    ASSUME RefineInv, RefineInv', PushWrite
    PROVE  UNCHANGED <<AbsLimit, AbsQueue, out>>
<1>1. /\ capacity \in Nat \ {0} /\ capacity' = capacity
      /\ read_idx \in Nat /\ write_idx \in Nat
      /\ read_idx < capacity /\ write_idx < capacity
      /\ buffer \in [0 .. (capacity - 1) -> Items \cup {NoItem}]
      /\ SPSCInv /\ SPSCInv'
  BY SPSCAssumption DEF RefineInv, SPSCInv, TypeOK, PushWrite, Quiescent
<1>2. AbsOK /\ AbsOK'
  BY <1>1, AbsForm, AbsFormNext
<1>3. Distance' = Distance /\ Taken' = Taken /\ read_idx' = read_idx
  BY DEF PushWrite, Distance, Taken
<1>4. ASSUME NEW i \in 1 .. (Distance - Taken)
      PROVE  buffer'[Wrap(read_idx + Taken + i - 1)]
                 = buffer[Wrap(read_idx + Taken + i - 1)]
  <2>1. Wrap(read_idx + Taken + i - 1) \in 0 .. (capacity - 1)
    BY <1>1, <1>2 DEF Wrap, AbsOK
  <2>2. Wrap(read_idx + Taken + i - 1) # write_idx
    BY <1>1, <1>2 DEF Wrap, AbsOK
  <2>3. QED
    BY <1>1, <2>1, <2>2 DEF PushWrite
<1>5. AbsQueue' = [i \in 1 .. (Distance - Taken) |->
                      Entry(buffer'[Wrap(read_idx + Taken + i - 1)])]
  BY <1>1, <1>2, <1>3 DEF AbsOK, Wrap, Entry
<1>6. AbsQueue' = AbsQueue
  BY <1>2, <1>4, <1>5 DEF AbsOK
<1>7. QED
  BY <1>1, <1>6 DEF AbsLimit, PushWrite

\* Publishing appends the item, and there is room for it.
LEMMA PublishPuts ==
    ASSUME RefineInv, RefineInv', PushPublish
    PROVE  /\ item \in Items
           /\ Len(AbsQueue) < AbsLimit
           /\ AbsQueue' = Append(AbsQueue, Entry(item))
           /\ UNCHANGED <<AbsLimit, out>>
<1>1. /\ capacity \in Nat \ {0} /\ capacity' = capacity
      /\ read_idx \in Nat /\ write_idx \in Nat
      /\ read_idx < capacity /\ write_idx < capacity
      /\ SPSCInv /\ SPSCInv'
      /\ NextIdx(write_idx) # read_idx
  BY SPSCAssumption
     DEF RefineInv, SPSCInv, TypeOK, PushPublish, Quiescent, storage
<1>2. AbsOK /\ AbsOK'
  BY <1>1, AbsForm, AbsFormNext
<1>3. NextIdx(write_idx) = Wrap(write_idx + 1)
  BY <1>1, RingForms
<1>4. Taken' = Taken /\ read_idx' = read_idx /\ buffer' = buffer
  BY DEF PushPublish, Taken, storage
<1>5. Distance' = Distance + 1 /\ Distance + 1 < capacity
  BY <1>1, <1>3 DEF PushPublish, Distance, Wrap
<1> DEFINE n == Distance - Taken
<1>6. n \in Nat /\ n < capacity - 1 /\ Distance \in Nat /\ Taken \in Nat
  BY <1>1, <1>2, <1>5 DEF AbsOK
<1>7. AbsQueue = [i \in 1 .. n |-> Entry(buffer[Wrap(read_idx + Taken + i - 1)])]
  BY <1>2 DEF AbsOK
<1>8. AbsQueue' = [i \in 1 .. (n + 1) |->
                      Entry(buffer[Wrap(read_idx + Taken + i - 1)])]
  <2>1. Distance' - Taken' = n + 1
    BY <1>4, <1>5, <1>6
  <2>2. QED
    BY <1>1, <1>2, <1>4, <2>1 DEF AbsOK, Wrap, Entry
<1>9. AbsQueue'[n + 1] = Entry(item)
  <2>1. read_idx + Taken + (n + 1) - 1 = read_idx + Distance
    BY <1>1, <1>6
  <2>2. AbsQueue'[n + 1] = Entry(buffer[Wrap(read_idx + Distance)])
    BY <1>6, <1>8, <2>1
  <2>3. QED
    BY <1>2, <2>2 DEF AbsOK, RefineInv, PushPublish
<1> HIDE DEF n
<1>10. AbsQueue' = Append(AbsQueue, Entry(item))
  <2>1. \A i \in 1 .. n : AbsQueue'[i] = AbsQueue[i]
    BY <1>6, <1>7, <1>8
  <2>2. AbsQueue = [i \in 1 .. n |-> AbsQueue[i]]
    BY <1>7
  <2>3. AbsQueue' = [i \in 1 .. (n + 1) |-> AbsQueue'[i]]
    BY <1>8
  <2>4. QED
    BY <1>6, <1>9, <2>1, <2>2, <2>3, FnAppend
<1>11. Len(AbsQueue) = n
  BY <1>6, <1>7, FnSeq
<1>12. QED
  BY <1>1, <1>6, <1>10, <1>11 DEF AbsLimit, RefineInv, PushPublish

\* The copy of the slot at read_idx_ takes the oldest entry.
LEMMA ReadTakes ==
    ASSUME RefineInv, RefineInv', PopRead
    PROVE  /\ AbsQueue # << >>
           /\ Head(AbsQueue) = Entry(out')
           /\ AbsQueue' = Tail(AbsQueue)
           /\ UNCHANGED AbsLimit
<1>1. /\ capacity \in Nat \ {0} /\ capacity' = capacity
      /\ read_idx \in Nat /\ write_idx \in Nat
      /\ read_idx < capacity /\ write_idx < capacity
      /\ SPSCInv /\ SPSCInv'
      /\ read_idx # write_idx
  BY SPSCAssumption
     DEF RefineInv, SPSCInv, TypeOK, PopRead, Quiescent, storage
<1>2. AbsOK /\ AbsOK'
  BY <1>1, AbsForm, AbsFormNext
<1>3. Taken = 0 /\ Taken' = 1 /\ read_idx' = read_idx /\ buffer' = buffer
  BY DEF PopRead, Taken, storage
<1>4. Distance' = Distance /\ Distance \in Nat \ {0}
  BY <1>1 DEF PopRead, Distance, storage
<1> DEFINE n == Distance
<1>5. AbsQueue = [i \in 1 .. n |-> Entry(buffer[Wrap(read_idx + 0 + i - 1)])]
  BY <1>2, <1>3, <1>4 DEF AbsOK
<1>6. AbsQueue' = [i \in 1 .. (n - 1) |->
                      Entry(buffer[Wrap(read_idx + 1 + i - 1)])]
  BY <1>1, <1>2, <1>3, <1>4 DEF AbsOK, Wrap, Entry
<1> HIDE DEF n
<1>7. n \in Nat \ {0}
  BY <1>4 DEF n
<1>8. AbsQueue' = [i \in 1 .. (n - 1) |-> AbsQueue[i + 1]]
  <2>1. ASSUME NEW i \in 1 .. (n - 1)
        PROVE  AbsQueue[i + 1] = Entry(buffer[Wrap(read_idx + 1 + i - 1)])
    <3>1. i + 1 \in 1 .. n /\ read_idx + 0 + (i + 1) - 1 = read_idx + 1 + i - 1
      BY <1>1, <1>7
    <3>2. QED
      BY <1>5, <3>1
  <2>2. QED
    BY <1>6, <2>1
<1>9. AbsQueue[1] = Entry(out')
  <2>1. Wrap(read_idx + 0 + 1 - 1) = read_idx
    BY <1>1 DEF Wrap
  <2>2. QED
    BY <1>5, <1>7, <2>1 DEF PopRead
<1>10. AbsQueue = [i \in 1 .. n |-> AbsQueue[i]]
  BY <1>5
<1>11. QED
  BY <1>1, <1>7, <1>8, <1>9, <1>10, FnTail DEF AbsLimit

\* Moving read_idx_ on is invisible: the entry has been taken already.
LEMMA AdvanceHidden ==
    ASSUME RefineInv, RefineInv', PopAdvance
    PROVE  UNCHANGED <<AbsLimit, AbsQueue, out>>
<1>1. /\ capacity \in Nat \ {0} /\ capacity' = capacity
      /\ read_idx \in Nat /\ write_idx \in Nat
      /\ read_idx < capacity /\ write_idx < capacity
      /\ SPSCInv /\ SPSCInv'
      /\ read_idx # write_idx
  BY SPSCAssumption
     DEF RefineInv, SPSCInv, TypeOK, PopAdvance, Quiescent, storage
<1>2. AbsOK /\ AbsOK'
  BY <1>1, AbsForm, AbsFormNext
<1>3. Taken = 1 /\ Taken' = 0 /\ buffer' = buffer
  BY DEF PopAdvance, Taken, storage
<1>4. read_idx' = Wrap(read_idx + 1)
  BY <1>1, RingForms DEF PopAdvance
<1>5. Distance' = Distance - 1 /\ Distance \in Nat \ {0}
  BY <1>1, <1>4 DEF PopAdvance, Distance, Wrap
<1>6. ASSUME NEW i \in 1 .. (Distance - 1)
      PROVE  Wrap(read_idx' + 0 + i - 1) = Wrap(read_idx + 1 + i - 1)
  BY <1>1, <1>2, <1>4, <1>5 DEF Wrap, AbsOK
<1>7. AbsQueue' = [i \in 1 .. (Distance - 1) |->
                      Entry(buffer[Wrap(read_idx' + 0 + i - 1)])]
  BY <1>1, <1>2, <1>3, <1>5 DEF AbsOK, Wrap, Entry
<1>8. AbsQueue = [i \in 1 .. (Distance - 1) |->
                     Entry(buffer[Wrap(read_idx + 1 + i - 1)])]
  BY <1>2, <1>3 DEF AbsOK
<1>9. AbsQueue' = AbsQueue
  BY <1>6, <1>7, <1>8
<1>10. QED
  BY <1>1, <1>9 DEF AbsLimit, PopAdvance

\* The two checks change nothing that is queued.
LEMMA CheckHidden ==
    ASSUME UNCHANGED <<capacity, buffer, read_idx, write_idx, out>>,
           Taken' = Taken
    PROVE  UNCHANGED <<AbsLimit, AbsQueue, out>>
BY DEF AbsLimit, AbsQueue, Size

\* Every step of the ring is a step of the abstract queue, or leaves it alone.
LEMMA RefineStep ==
    ASSUME RefineInv, RefineInv', [Next]_vars
    PROVE  [FIFO!Next]_<<AbsLimit, AbsQueue, out>>
<1> USE DEF FIFO!Next, AbsLimit, AbsQueue
<1>1. ASSUME NEW c \in InitSizes, InitQueue(c)
      PROVE  FIFO!Reset
  BY <1>1, ResetEmpties DEF InitQueue, RefineInv, FIFO!Reset
<1>2. CASE Destroy
  <2>1. FIFO!Reset
    BY <1>2, ResetEmpties DEF Destroy, RefineInv, FIFO!Reset
  <2>2. QED
    BY <2>1
<1>3. ASSUME NEW v \in Items, PushCheck(v)
      PROVE  UNCHANGED <<AbsLimit, AbsQueue, out>>
  BY <1>3, CheckHidden DEF PushCheck, storage, Taken
<1>4. CASE PushPublish
  <2>1. PICK v \in Items : v = item
    BY <1>4, PublishPuts
  <2>2. FIFO!Put(v)
    BY <1>4, <2>1, PublishPuts DEF Entry, FIFO!Put
  <2>3. QED
    BY <2>2
<1>5. CASE PopCheck
  BY <1>5, CheckHidden DEF PopCheck, storage, Taken
<1>6. CASE PopRead
  <2>1. Head(AbsQueue) = [val |-> out', ready |-> TRUE]
    BY <1>6, ReadTakes DEF Entry
  <2>2. Head(AbsQueue).ready /\ out' = Head(AbsQueue).val
    BY <2>1
  <2>3. FIFO!Take
    BY <1>6, <2>2, ReadTakes DEF FIFO!Take
  <2>4. QED
    BY <2>3
<1>7. CASE UNCHANGED vars
  BY <1>7, CheckHidden DEF vars, Taken
<1>8. QED
  BY <1>1, <1>2, <1>3, <1>4, <1>5, <1>6, <1>7, WriteHidden, AdvanceHidden
     DEF Next, Push, Pop

\* The ring implements a first-in first-out queue of capacity_ - 1 items, for
\* any items, any sizes and any number of rounds: a Push takes effect when
\* write_idx_ moves, a Pop when it copies the slot, and every other access to
\* shared memory is invisible.
THEOREM SPSCImplementsFIFO == Spec => ImplementsFIFO
<1>1. Init => RefineInv
  BY DEF Init, RefineInv, SPSCInv, TypeOK, Quiescent
<1>2. Init => FIFO!Init
  BY DEF Init, FIFO!Init, Size, Taken
<1>3. RefineInv /\ RefineInv' /\ [Next]_vars => [FIFO!Next]_(FIFO!fifoVars)
  BY RefineStep DEF FIFO!fifoVars, AbsLimit, AbsQueue
<1>4. Spec => []RefineInv
  BY <1>1, RefineInvStep, PTL DEF Spec
<1>5. QED
  BY <1>2, <1>3, <1>4, PTL DEF Spec, ImplementsFIFO, FIFO!Spec
=============================================================================
