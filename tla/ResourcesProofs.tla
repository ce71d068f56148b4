--------------------------- MODULE ResourcesProofs ---------------------------
(***************************************************************************)
(* Safety of DeviceManager and its streams, SharedMemory, Buffers,         *)
(* Tensors, GpuTensors and Allocators, as parts of MCResources, for any    *)
(* number of devices, callbacks, segments, objects, blocks, tensors,       *)
(* streams and threads.                                                    *)
(***************************************************************************)
EXTENDS MCResources, SequenceTheorems, FiniteSetTheorems, WellFoundedInduction, TLAPS

-----------------------------------------------------------------------------
(* Induction                                                               *)

\* Induction over the subsets of a finite set: a family of them has a minimal member.
LEMMA SubsetMin ==
    ASSUME NEW S, IsFiniteSet(S), NEW B \in SUBSET (SUBSET S), B # {}
    PROVE  \E T \in B : \A U \in B : U \subseteq T => U = T
<1> DEFINE R == StrictSubsetOrdering(S)
<1>1. IsWellFoundedOn(R, SUBSET S)
  <2>1. IsWellFoundedOn(R, FiniteSubsetsOf(S))
    BY FS_StrictSubsetOrderingWellFounded
  <2>2. FiniteSubsetsOf(S) = SUBSET S
    BY FS_FiniteSubsetsOfFinite
  <2>3. QED
    BY <2>1, <2>2
<1> HIDE DEF R
<1>2. \E T \in B : \A U \in B : ~(<<U, T>> \in R)
  BY <1>1, WFMin
<1>3. QED
  BY <1>2 DEF R, StrictSubsetOrdering

-----------------------------------------------------------------------------
(* DeviceManager.                                                          *)

\* A device, or the place of one.
Entry == [hw : Int, nr : Nat]

\* The default device is one that can be asked for, or the one being removed;
\* the removed entry itself never is.
DefaultKnown ==
    /\ devices \in Seq(Entry)
    /\ default # Gone
    /\ default \in Registered(devices) \cup {CpuDevice, NoDevice, removing}

\* Ids are positions until the first removal.
CallbacksFollow ==
    /\ added \in Nat /\ callbacks \in Seq(Nat) /\ removed \in Seq(Nat)
    /\ Range(removed) \subseteq 1 .. added
    /\ removed = << >> => /\ Len(callbacks) = added
                          /\ \A i \in 1 .. added : callbacks[i] = i
    /\ Len(removed) = 1 => Range(callbacks) = (1 .. added) \ Range(removed)

DeviceInv == DefaultKnown /\ CallbacksFollow

\* The set of the values of a sequence.
LEMMA RangeOf ==
    ASSUME NEW S, NEW s \in Seq(S)
    PROVE  Range(s) = {s[i] : i \in 1 .. Len(s)}
BY DEF Range

\* A sequence that is one longer.
LEMMA RangeAppend ==
    ASSUME NEW S, NEW s \in Seq(S), NEW x \in S
    PROVE  Range(Append(s, x)) = Range(s) \cup {x}
<1> DEFINE a == Append(s, x)
<1>1. /\ a \in Seq(S) /\ Len(a) = Len(s) + 1 /\ Len(s) \in Nat
      /\ \A i \in 1 .. Len(s) : a[i] = s[i]
      /\ a[Len(s) + 1] = x
  OBVIOUS
<1> HIDE DEF a
<1>2. Range(a) = {a[i] : i \in 1 .. Len(a)} /\ Range(s) = {s[i] : i \in 1 .. Len(s)}
  BY <1>1, RangeOf
<1>3. \A i \in 1 .. Len(a) : i \in 1 .. Len(s) \/ i = Len(s) + 1
  BY <1>1
<1>4. \A y \in Range(a) : y \in Range(s) \cup {x}
  BY <1>1, <1>2, <1>3
<1>5. \A i \in 1 .. Len(s) : i \in 1 .. Len(a)
  BY <1>1
<1>6. \A y \in Range(s) : y \in Range(a)
  BY <1>1, <1>2, <1>5
<1>7. x \in Range(a)
  <2>1. Len(s) + 1 \in 1 .. Len(a)
    BY <1>1
  <2>2. QED
    BY <1>1, <1>2, <2>1
<1>8. QED
  BY <1>4, <1>6, <1>7 DEF a

\* The invariant says what ManagerConsistent says.
LEMMA DeviceInvConsistent ==
    ASSUME DeviceInv
    PROVE  ManagerConsistent
<1>1. /\ added \in Nat /\ callbacks \in Seq(Nat) /\ removed \in Seq(Nat)
      /\ Len(removed) \in Nat
  BY DEF DeviceInv, CallbacksFollow
<1>2. CASE removed = << >>
  <2>1. Range(removed) = {}
    BY <1>2 DEF Range
  <2>2. Range(callbacks) = {callbacks[i] : i \in 1 .. Len(callbacks)}
    BY <1>1, RangeOf
  <2>3. Range(callbacks) = 1 .. added
    BY <1>2, <2>2 DEF DeviceInv, CallbacksFollow
  <2>4. QED
    BY <2>1, <2>3 DEF DeviceInv, DefaultKnown, ManagerConsistent
<1>3. CASE removed # << >>
  <2>1. Len(removed) <= 1 => Len(removed) = 1
    <3>1. Len(removed) # 0
      BY <1>1, <1>3, EmptySeq
    <3>2. ASSUME NEW n \in Nat, n # 0 PROVE n <= 1 => n = 1
      BY <3>2
    <3>3. Len(removed) \in Nat
      BY <1>1
    <3>4. QED
      BY <3>1, <3>2, <3>3
  <2>2. QED
    BY <2>1 DEF DeviceInv, DefaultKnown, CallbacksFollow, ManagerConsistent
<1>4. QED
  BY <1>2, <1>3

\* A manager that has just been made satisfies it.
LEMMA DeviceInvInit ==
    ASSUME DeviceInit
    PROVE  DeviceInv
<1>1. /\ devices = << >> /\ default = CpuDevice /\ callbacks = << >> /\ added = 0
      /\ removed = << >>
  BY DEF DeviceInit
<1>2. DefaultKnown
  BY <1>1 DEF DefaultKnown, CpuDevice, Gone
<1>3. Range(removed) = {}
  BY <1>1 DEF Range
<1>4. CallbacksFollow
  BY <1>1, <1>3 DEF CallbacksFollow
<1>5. QED
  BY <1>2, <1>4 DEF DeviceInv

\* Looking devices up scans only when none is registered.
LEMMA LookedUp ==
    ASSUME DefaultKnown, NEW id \in Hardware
    PROVE  LET g == GetDevice(id) IN
           /\ g.devs \in Seq(Entry)
           /\ g.devs = devices \/ Registered(devices) = {}
           /\ g.found \subseteq Registered(g.devs) \cup {NoDevice}
<1> DEFINE new == [i \in 1 .. Cardinality(Hardware) |->
                     [hw |-> i - 1, nr |-> Len(devices) + i]]
           after == IF FindDevice(devices, id) = {} THEN Scanned(devices) ELSE devices
<1>1. Cardinality(Hardware) \in Nat
  BY DeviceAssumption, FS_CardinalityType
<1>2. devices \in Seq(Entry) /\ Len(devices) \in Nat
  BY DEF DefaultKnown
<1>3. new \in Seq(Entry)
  <2>1. new \in [1 .. Cardinality(Hardware) -> Entry]
    BY <1>1, <1>2 DEF Entry
  <2> HIDE DEF new
  <2>2. QED
    BY <1>1, <2>1
<1>4. after \in Seq(Entry) /\ (after = devices \/ Registered(devices) = {})
  BY <1>2, <1>3 DEF Scanned
<1> HIDE DEF after
<1>5. GetDevice(id).devs = after
  BY DEF GetDevice, after
<1>6. GetDevice(id).found = IF FindDevice(after, id) = {} THEN {NoDevice} ELSE FindDevice(after, id)
  BY DEF GetDevice, after
<1>7. FindDevice(after, id) \subseteq Registered(after)
  BY DEF FindDevice
<1>8. QED
  BY <1>4, <1>5, <1>6, <1>7

\* The callbacks do not see what happens to devices.
LEMMA SameCallbacks ==
    ASSUME CallbacksFollow, UNCHANGED <<callbacks, added, removed>>
    PROVE  CallbacksFollow'
BY DEF CallbacksFollow

\* Looking up, choosing a default and registering.
LEMMA CallersInv ==
    ASSUME DeviceInv, SetDefault \/ Lookup \/ RegisterDevice
    PROVE  DeviceInv'
<1>1. /\ UNCHANGED <<callbacks, added, removed, removing>>
      /\ DefaultKnown /\ devices \in Seq(Entry) /\ Len(devices) \in Nat
      /\ default # Gone
      /\ default \in Registered(devices) \cup {CpuDevice, NoDevice, removing}
  BY DEF SetDefault, Lookup, RegisterDevice, DeviceInv, DefaultKnown
<1>2. CallbacksFollow'
  BY <1>1, SameCallbacks DEF DeviceInv
<1>3. CpuDevice # Gone /\ NoDevice # Gone
  BY DEF CpuDevice, NoDevice, Gone
<1>4. Gone \notin Registered(devices')
  BY DEF Registered
<1>5. ASSUME NEW id \in Hardware, devices' = GetDevice(id).devs,
             default' = default \/ default' \in GetDevice(id).found
      PROVE  DefaultKnown'
  <2>1. /\ devices' \in Seq(Entry) /\ (devices' = devices \/ Registered(devices) = {})
        /\ GetDevice(id).found \subseteq Registered(devices') \cup {NoDevice}
    BY <1>1, <1>5, LookedUp
  <2>2. default' # Gone /\ default' \in Registered(devices') \cup {CpuDevice, NoDevice, removing}
    BY <1>1, <1>3, <1>4, <1>5, <2>1
  <2>3. QED
    BY <1>1, <2>1, <2>2 DEF DefaultKnown
<1>6. CASE SetDefault
  <2>1. CASE default' = CpuDevice /\ UNCHANGED devices
    BY <1>1, <1>2, <1>3, <2>1 DEF DefaultKnown, DeviceInv
  <2>2. CASE \E id \in Hardware : /\ devices' = GetDevice(id).devs
                                  /\ default' \in GetDevice(id).found
    BY <1>2, <1>5, <2>2 DEF DeviceInv
  <2>3. QED
    BY <1>6, <2>1, <2>2 DEF SetDefault
<1>7. CASE Lookup
  BY <1>2, <1>5, <1>7 DEF Lookup, DeviceInv
<1>8. CASE RegisterDevice
  <2>1. PICK d \in Registered(devices) \cup
                  {[hw |-> i, nr |-> Len(devices) + 1] : i \in Hardware} :
             devices' = Append(devices, d)
    BY <1>8 DEF RegisterDevice
  <2>2. d \in Entry
    <3>1. Range(devices) \subseteq Entry
      BY <1>1, RangeOf
    <3>2. \A i \in Hardware : [hw |-> i, nr |-> Len(devices) + 1] \in Entry
      BY <1>1, DeviceAssumption DEF Entry
    <3>3. QED
      BY <3>1, <3>2 DEF Registered
  <2>3. devices' \in Seq(Entry) /\ Range(devices') = Range(devices) \cup {d}
    BY <1>1, <2>1, <2>2, RangeAppend
  <2>4. Registered(devices) \subseteq Registered(devices')
    BY <2>3 DEF Registered
  <2>5. default' = default
    BY <1>8 DEF RegisterDevice
  <2>6. DefaultKnown'
    BY <1>1, <2>3, <2>4, <2>5 DEF DefaultKnown
  <2>7. QED
    BY <1>2, <2>6 DEF DeviceInv
<1>9. QED
  BY <1>6, <1>7, <1>8

\* A removal takes the device out of the table, and then out of the default.
LEMMA UnregisterInv ==
    ASSUME DeviceInv, UnregisterBegin \/ UnregisterEnd
    PROVE  DeviceInv'
<1>1. /\ UNCHANGED <<callbacks, added, removed>>
      /\ devices \in Seq(Entry) /\ Len(devices) \in Nat /\ default # Gone
      /\ default \in Registered(devices) \cup {CpuDevice, NoDevice, removing}
  BY DEF UnregisterBegin, UnregisterEnd, DeviceInv, DefaultKnown
<1>2. CallbacksFollow'
  BY <1>1, SameCallbacks DEF DeviceInv
<1>3. CASE UnregisterBegin
  <2>1. PICK i \in DOMAIN devices : /\ devices[i] # Gone /\ removing' = devices[i]
                                    /\ devices' = [devices EXCEPT ![i] = Gone]
    BY <1>3 DEF UnregisterBegin
  <2>2. default' = default /\ removing = Gone
    BY <1>3 DEF UnregisterBegin
  <2>3. Gone \in Entry
    BY DEF Gone, Entry
  <2>4. devices' \in Seq(Entry)
    BY <1>1, <2>1, <2>3
  <2>5. default \in Registered(devices) =>
            default' \in Registered(devices') \cup {removing'}
    <3>1. SUFFICES ASSUME NEW j \in DOMAIN devices, default = devices[j],
                          default # removing'
                   PROVE  default \in Registered(devices')
      BY <2>2 DEF Registered, Range
    <3>2. j # i /\ j \in DOMAIN devices' /\ devices'[j] = default
      BY <1>1, <2>1, <3>1
    <3>3. QED
      BY <1>1, <3>2 DEF Registered, Range
  <2>6. DefaultKnown'
    BY <1>1, <2>2, <2>4, <2>5 DEF DefaultKnown
  <2>7. QED
    BY <1>2, <2>6 DEF DeviceInv
<1>4. CASE UnregisterEnd
  <2>1. /\ default' = IF default = removing THEN CpuDevice ELSE default
        /\ UNCHANGED devices
    BY <1>4 DEF UnregisterEnd
  <2>2. CpuDevice # Gone
    BY DEF CpuDevice, Gone
  <2>3. DefaultKnown'
    BY <1>1, <2>1, <2>2 DEF DefaultKnown
  <2>4. QED
    BY <1>2, <2>3 DEF DeviceInv
<1>5. QED
  BY <1>3, <1>4

\* The ids and the callbacks agree until two have been removed.
LEMMA CallbacksInv ==
    ASSUME DeviceInv, AddCallback \/ RemoveCallback
    PROVE  DeviceInv'
<1>1. /\ UNCHANGED <<devices, default, removing>>
      /\ added \in Nat /\ callbacks \in Seq(Nat) /\ removed \in Seq(Nat)
      /\ Range(removed) \subseteq 1 .. added /\ Len(removed) \in Nat /\ Len(callbacks) \in Nat
  BY DEF AddCallback, RemoveCallback, DeviceInv, CallbacksFollow
<1>2. DefaultKnown'
  BY <1>1 DEF DeviceInv, DefaultKnown
<1>3. CASE AddCallback
  <2>1. added' = added + 1 /\ callbacks' = Append(callbacks, added + 1) /\ removed' = removed
    BY <1>3 DEF AddCallback
  <2>2. /\ callbacks' \in Seq(Nat) /\ Range(callbacks') = Range(callbacks) \cup {added + 1}
        /\ Len(callbacks') = Len(callbacks) + 1
        /\ \A i \in 1 .. Len(callbacks) : callbacks'[i] = callbacks[i]
        /\ callbacks'[Len(callbacks) + 1] = added + 1
    <3>1. added + 1 \in Nat
      BY <1>1
    <3>2. Range(callbacks') = Range(callbacks) \cup {added + 1}
      BY <1>1, <2>1, <3>1, RangeAppend
    <3>3. QED
      BY <1>1, <2>1, <3>1, <3>2
  <2>3. 1 .. added' = (1 .. added) \cup {added + 1} /\ added + 1 \notin 1 .. added
    BY <1>1, <2>1
  <2>4. Range(removed') \subseteq 1 .. added'
    BY <1>1, <2>1, <2>3
  <2>5. ASSUME removed = << >>
        PROVE  /\ Len(callbacks') = added' /\ \A i \in 1 .. added' : callbacks'[i] = i
    <3>1. Len(callbacks) = added /\ \A i \in 1 .. added : callbacks[i] = i
      BY <2>5 DEF DeviceInv, CallbacksFollow
    <3>2. QED
      BY <2>1, <2>2, <2>3, <3>1
  <2>6. ASSUME Len(removed) = 1
        PROVE  Range(callbacks') = (1 .. added') \ Range(removed')
    <3>1. Range(callbacks) = (1 .. added) \ Range(removed)
      BY <2>6 DEF DeviceInv, CallbacksFollow
    <3>2. added + 1 \notin Range(removed)
      BY <1>1, <2>3
    <3>3. QED
      BY <2>1, <2>2, <2>3, <3>1, <3>2
  <2>7. CallbacksFollow'
    BY <1>1, <2>1, <2>2, <2>4, <2>5, <2>6 DEF CallbacksFollow
  <2>8. QED
    BY <1>2, <2>7 DEF DeviceInv
<1>4. CASE RemoveCallback
  <2>1. PICK id \in 1 .. added : /\ id <= Len(callbacks)
                                 /\ callbacks' = RemoveAt(callbacks, id)
                                 /\ removed' = Append(removed, id)
    BY <1>4 DEF RemoveCallback
  <2>2. added' = added
    BY <1>4 DEF RemoveCallback
  <2> DEFINE low == SubSeq(callbacks, 1, id - 1)
             high == SubSeq(callbacks, id + 1, Len(callbacks))
  <2>3. /\ low \in Seq(Nat) /\ Len(low) = id - 1
        /\ \A i \in 1 .. (id - 1) : low[i] = callbacks[i]
    BY <1>1, <2>1
  <2>4. /\ high \in Seq(Nat) /\ Len(high) = Len(callbacks) - id
        /\ \A i \in 1 .. (Len(callbacks) - id) : high[i] = callbacks[id + i]
    BY <1>1, <2>1
  <2>5. callbacks' = low \o high
    BY <2>1 DEF RemoveAt
  <2> HIDE DEF low, high
  <2>6. /\ callbacks' \in Seq(Nat) /\ Len(callbacks') = Len(callbacks) - 1
        /\ \A i \in 1 .. (id - 1) : callbacks'[i] = callbacks[i]
        /\ \A i \in id .. (Len(callbacks) - 1) : callbacks'[i] = callbacks[i + 1]
    <3>1. low \o high \in Seq(Nat) /\ Len(low \o high) = Len(callbacks) - 1
      <4>1. low \o high \in Seq(Nat) /\ Len(low \o high) = Len(low) + Len(high)
        BY <2>3, <2>4, ConcatProperties
      <4>2. QED
        BY <1>1, <2>3, <2>4, <4>1
    <3>2. \A i \in 1 .. (id - 1) : (low \o high)[i] = callbacks[i]
      BY <1>1, <2>1, <2>3, <2>4
    <3>3. ASSUME NEW i \in id .. (Len(callbacks) - 1)
          PROVE  (low \o high)[i] = callbacks[i + 1]
      <4>1. /\ i - (id - 1) \in 1 .. (Len(callbacks) - id)
            /\ id + (i - (id - 1)) = i + 1
            /\ i \in (Len(low) + 1) .. (Len(low) + Len(high))
        BY <1>1, <2>1, <2>3, <2>4
      <4>2. (low \o high)[i] = high[i - Len(low)]
        <5>1. i \in 1 .. (Len(low) + Len(high)) /\ ~(i <= Len(low))
          BY <1>1, <2>1, <2>3, <2>4, <4>1
        <5>2. QED
          BY <2>3, <2>4, <5>1, ConcatProperties
      <4>3. QED
        BY <2>3, <2>4, <4>1, <4>2
    <3>4. QED
      BY <2>5, <3>1, <3>2, <3>3
  <2>7. /\ removed' \in Seq(Nat) /\ Len(removed') = Len(removed) + 1
        /\ Range(removed') = Range(removed) \cup {id}
    <3>1. id \in Nat
      BY <1>1
    <3>2. Range(removed') = Range(removed) \cup {id}
      <4>1. Range(Append(removed, id)) = Range(removed) \cup {id}
        BY <1>1, <3>1, RangeAppend
      <4>2. QED
        BY <2>1, <4>1
    <3>3. QED
      BY <1>1, <2>1, <3>1, <3>2
  <2>8. removed' # << >>
    BY <1>1, <2>7
  <2>9. ASSUME Len(removed') = 1
        PROVE  Range(callbacks') = (1 .. added) \ Range(removed')
    <3>1. removed = << >>
      BY <1>1, <2>7, <2>9, EmptySeq
    <3>2. Range(removed') = {id}
      BY <2>7, <3>1 DEF Range
    <3>3. Len(callbacks) = added /\ \A i \in 1 .. added : callbacks[i] = i
      BY <3>1 DEF DeviceInv, CallbacksFollow
    <3>4. Range(callbacks') = {callbacks'[i] : i \in 1 .. (added - 1)}
      BY <2>6, <3>3, RangeOf
    <3>5. /\ \A i \in 1 .. (id - 1) : callbacks'[i] = i
          /\ \A i \in id .. (added - 1) : callbacks'[i] = i + 1
      BY <1>1, <2>1, <2>6, <3>3
    <3>6. ASSUME NEW k \in Range(callbacks')
          PROVE  k \in (1 .. added) \ {id}
      <4>1. PICK i \in 1 .. (added - 1) : k = callbacks'[i]
        BY <3>4, <3>6
      <4>2. CASE i \in 1 .. (id - 1)
        BY <1>1, <2>1, <3>5, <4>1, <4>2
      <4>3. CASE i \in id .. (added - 1)
        BY <1>1, <2>1, <3>5, <4>1, <4>3
      <4>4. QED
        BY <1>1, <4>2, <4>3
    <3>7. ASSUME NEW k \in (1 .. added) \ {id}
          PROVE  k \in Range(callbacks')
      <4>1. CASE k < id
        <5>1. k \in 1 .. (added - 1) /\ callbacks'[k] = k
          BY <1>1, <2>1, <3>5, <4>1
        <5>2. QED
          BY <3>4, <5>1
      <4>2. CASE k > id
        <5>1. k - 1 \in 1 .. (added - 1) /\ callbacks'[k - 1] = k
          BY <1>1, <2>1, <3>5, <4>2
        <5>2. QED
          BY <3>4, <5>1
      <4>3. QED
        BY <1>1, <2>1, <4>1, <4>2
    <3>8. QED
      BY <3>2, <3>6, <3>7
  <2>10. CallbacksFollow'
    BY <1>1, <2>2, <2>6, <2>7, <2>8, <2>9 DEF CallbacksFollow
  <2>11. QED
    BY <1>2, <2>10 DEF DeviceInv
<1>5. QED
  BY <1>3, <1>4

\* When another part of MCResources moves, or none, the manager stays as it is.
LEMMA DeviceInvStep ==
    ASSUME part = "devices" => DeviceInv, [Next]_vars
    PROVE  (part = "devices" => DeviceInv)'
<1>1. part' = part
  BY DEF Next, RestOf, vars
<1>2. SUFFICES ASSUME part = "devices" PROVE DeviceInv'
  BY <1>1
<1>3. DeviceNext \/ UNCHANGED deviceVars
  BY <1>2 DEF Next, RestOf, vars
<1>4. CASE UNCHANGED deviceVars
  BY <1>2, <1>4 DEF deviceVars, DeviceInv, DefaultKnown, CallbacksFollow
<1>5. CASE DeviceNext
  BY <1>2, <1>5, CallersInv, UnregisterInv, CallbacksInv DEF DeviceNext
<1>6. QED
  BY <1>3, <1>4, <1>5

\* DeviceManager: the default device is the CPU's, a registered one, the null of
\* a failed lookup or the one whose removal callbacks still hear of, whatever
\* they do meanwhile; and the callbacks left are the right ones until a second
\* one has been removed.
THEOREM DeviceManagerKept == Spec => []ManagerKept
<1>1. Init => (part = "devices" => DeviceInv)
  BY DeviceInvInit DEF Init
<1>2. (part = "devices" => DeviceInv) => ManagerKept
  BY DeviceInvConsistent DEF ManagerKept
<1>3. QED
  BY <1>1, <1>2, DeviceInvStep, PTL DEF Spec

-----------------------------------------------------------------------------
(* SharedMemory.  The tables of the system count what the segments hold;    *)
(* and while no two creators have met, the one there is owns the name and  *)
(* is the only one to set the size of its object.                          *)

\* A segment variable.
Segment ==
    [pc : {"none", "truncate", "map", "stat"},
     fd : ShmObjects \cup {0}, map : ShmObjects \cup {0}, size : Int, wish : Int,
     named : BOOLEAN, creator : BOOLEAN, state : {"Invalid", "Created", "Opened"}]

\* Types of all variables.
ShmTypes ==
    /\ sdir \in ShmObjects \cup {0}
    /\ ssize \in [ShmObjects -> Int]
    /\ fds \in [ShmObjects -> Int] /\ maps \in [ShmObjects -> Int]
    /\ seg \in [ShmSlots -> Segment]
    /\ clash \in BOOLEAN /\ again \in BOOLEAN

\* What a segment holds at each point of Create, Open and its life after them.
Phased(g) ==
    /\ g.pc # "none" => /\ g.fd # 0 /\ g.state = "Invalid" /\ ~g.creator
                        /\ g.pc = "truncate" => g.wish > 0
                        /\ g.pc = "stat" => g.wish = 0
    /\ g.map # 0 => g.map = g.fd
    /\ g.state = "Invalid" <=> g.map = 0
    /\ g.state = "Opened" => ~g.creator
    /\ g.state = "Created" => g.creator /\ g.named
    /\ g.fd = 0 => g.size = 0

Phases == \A s \in ShmSlots : Phased(seg[s])

\* How often f has the value o on S.
At(S, f, o) == {x \in S : f[x] = o}
Count(S, f, o) == Cardinality(At(S, f, o))

FdOf == [s \in ShmSlots |-> seg[s].fd]
MapOf == [s \in ShmSlots |-> seg[s].map]

\* The tables of the system.
Counted ==
    \A o \in ShmObjects : /\ Count(ShmSlots, FdOf, o) = fds[o]
                          /\ Count(ShmSlots, MapOf, o) = maps[o]

\* A segment between its shm_open and its Destroy that Create is for.
Creating(g) == \/ g.pc = "truncate" \/ g.state = "Created"
               \/ g.pc = "map" /\ g.wish > 0

\* The size of its object that a segment relies on.
SizeKnown(g) ==
    g.fd # 0 => /\ 0 <= ssize[g.fd] /\ g.size <= ssize[g.fd]
                /\ g.pc = "truncate" => ssize[g.fd] = 0
                /\ g.pc = "map" /\ g.wish > 0 => ssize[g.fd] = g.wish

\* While no Create met an object and nobody unlinked twice.
NameOwned ==
    ~clash /\ ~again =>
      /\ sdir # 0 => 0 <= ssize[sdir]
      /\ \A s \in ShmSlots : SizeKnown(seg[s])
      /\ \A s \in ShmSlots : Creating(seg[s]) => sdir = seg[s].fd
      /\ \A s, t \in ShmSlots : Creating(seg[s]) /\ Creating(seg[t]) => s = t

ShmInv == ShmTypes /\ Phases /\ Counted /\ NameOwned

\* A creator has a descriptor.
LEMMA CreatorOpen ==
    ASSUME NEW g, Phased(g), Creating(g)
    PROVE  g.fd # 0
BY DEF Phased, Creating

\* The invariant says what the two properties say.
LEMMA ShmInvSound ==
    ASSUME ShmInv
    PROVE  DescriptorsOwned /\ NameHeld
<1>1. DescriptorsOwned
  <2>1. \A o : /\ At(ShmSlots, FdOf, o) = {s \in ShmSlots : seg[s].fd = o}
               /\ At(ShmSlots, MapOf, o) = {s \in ShmSlots : seg[s].map = o}
    BY DEF At, FdOf, MapOf
  <2>2. QED
    BY <2>1 DEF ShmInv, Counted, Count, DescriptorsOwned
<1>2. ASSUME ~clash, ~again, NEW s \in ShmSlots, seg[s].map # 0
      PROVE  /\ seg[s].state = "Created" => sdir = seg[s].map
             /\ seg[s].size <= ssize[seg[s].map]
  <2>1. seg[s].map = seg[s].fd
    BY <1>2 DEF ShmInv, Phases, Phased
  <2>2. QED
    BY <1>2, <2>1 DEF ShmInv, NameOwned, Creating, SizeKnown
<1>3. NameHeld
  BY <1>2 DEF NameHeld
<1>4. QED
  BY <1>1, <1>3

\* A segment variable that was never used.
LEMMA BlankSegment ==
    /\ ShmBlank \in Segment /\ Phased(ShmBlank) /\ ~Creating(ShmBlank)
    /\ ShmBlank.fd = 0 /\ ShmBlank.map = 0 /\ ShmBlank.size = 0 /\ ShmBlank.wish = 0
    /\ ~ShmBlank.named /\ ~ShmBlank.creator /\ ShmBlank.state = "Invalid"
BY DEF ShmBlank, Segment, Phased, Creating

\* All segment variables together are finitely many.
LEMMA SlotsFinite == IsFiniteSet(ShmSlots)
BY ShmAssumption, FS_Union DEF ShmSlots

\* Nothing is open at first.
LEMMA ShmInvInit ==
    ASSUME ShmInit
    PROVE  ShmInv
<1>1. /\ sdir = 0 /\ ssize = [o \in ShmObjects |-> -1]
      /\ fds = [o \in ShmObjects |-> 0] /\ maps = [o \in ShmObjects |-> 0]
      /\ seg = [s \in ShmSlots |-> ShmBlank] /\ clash = FALSE /\ again = FALSE
  BY DEF ShmInit
<1>2. \A s \in ShmSlots : seg[s] = ShmBlank
  BY <1>1
<1>3. ShmTypes
  <2>1. clash \in BOOLEAN /\ again \in BOOLEAN
    BY <1>1
  <2>2. /\ sdir \in ShmObjects \cup {0} /\ ssize \in [ShmObjects -> Int]
        /\ fds \in [ShmObjects -> Int] /\ maps \in [ShmObjects -> Int]
    BY <1>1
  <2>3. seg \in [ShmSlots -> Segment]
    BY <1>1, BlankSegment
  <2>4. QED
    BY <2>1, <2>2, <2>3 DEF ShmTypes
<1>4. Phases
  BY <1>2, BlankSegment DEF Phases
<1>5. Counted
  <2>1. ASSUME NEW o \in ShmObjects
        PROVE  At(ShmSlots, FdOf, o) = {} /\ At(ShmSlots, MapOf, o) = {}
    BY <1>2, BlankSegment, ShmAssumption DEF At, FdOf, MapOf
  <2>2. QED
    BY <1>1, <2>1, FS_EmptySet DEF Counted, Count
<1>6. NameOwned
  BY <1>1, <1>2, BlankSegment DEF NameOwned, SizeKnown
<1>7. QED
  BY <1>3, <1>4, <1>5, <1>6 DEF ShmInv

DiffersAt(S, f, g, s) == \A x \in S \ {s} : g[x] = f[x]

\* One value that changes.
LEMMA Recounted ==
    ASSUME NEW S, IsFiniteSet(S), NEW s \in S, NEW f, NEW g, DiffersAt(S, f, g, s), NEW o
    PROVE  /\ Count(S, f, o) \in Nat
           /\ Count(S, g, o) = Count(S, f, o) - (IF f[s] = o THEN 1 ELSE 0)
                                              + (IF g[s] = o THEN 1 ELSE 0)
<1>1. IsFiniteSet(At(S, f, o)) /\ Count(S, f, o) \in Nat
  <2>1. At(S, f, o) \subseteq S
    BY DEF At
  <2>2. QED
    BY <2>1, FS_Subset, FS_CardinalityType DEF Count
<1>2. CASE (f[s] = o) <=> (g[s] = o)
  <2>1. At(S, g, o) = At(S, f, o)
    BY <1>2 DEF At, DiffersAt
  <2>2. QED
    BY <1>1, <1>2, <2>1 DEF Count
<1>3. CASE f[s] = o /\ g[s] # o
  <2>1. At(S, g, o) = At(S, f, o) \ {s} /\ s \in At(S, f, o)
    BY <1>3 DEF At, DiffersAt
  <2>2. Cardinality(At(S, g, o)) = Cardinality(At(S, f, o)) - 1
    BY <1>1, <2>1, FS_RemoveElement
  <2>3. Count(S, g, o) = Count(S, f, o) - 1
    BY <2>2 DEF Count
  <2>4. QED
    BY <1>1, <1>3, <2>3
<1>4. CASE f[s] # o /\ g[s] = o
  <2>1. At(S, g, o) = At(S, f, o) \cup {s} /\ s \notin At(S, f, o)
    BY <1>4 DEF At, DiffersAt
  <2>2. Cardinality(At(S, g, o)) = Cardinality(At(S, f, o)) + 1
    BY <1>1, <2>1, FS_AddElement
  <2>3. Count(S, g, o) = Count(S, f, o) + 1
    BY <2>2 DEF Count
  <2>4. QED
    BY <1>1, <1>4, <2>3
<1>5. QED
  BY <1>1, <1>2, <1>3, <1>4

\* The tables follow the segment s.
Balanced(s) ==
    \A o \in ShmObjects :
      /\ fds'[o] = fds[o] - (IF seg[s].fd = o THEN 1 ELSE 0)
                          + (IF seg'[s].fd = o THEN 1 ELSE 0)
      /\ maps'[o] = maps[o] - (IF seg[s].map = o THEN 1 ELSE 0)
                            + (IF seg'[s].map = o THEN 1 ELSE 0)

\* A step on one segment.
LEMMA SegmentStep ==
    ASSUME ShmInv, NEW s \in ShmSlots, Balanced(s),
           seg' \in [ShmSlots -> Segment], \A x \in ShmSlots \ {s} : seg'[x] = seg[x],
           Phased(seg'[s])
    PROVE  Phases' /\ Counted'
<1>1. Phases'
  BY DEF ShmInv, Phases
<1>2. /\ DiffersAt(ShmSlots, FdOf, FdOf', s) /\ DiffersAt(ShmSlots, MapOf, MapOf', s)
      /\ FdOf[s] = seg[s].fd /\ FdOf'[s] = seg'[s].fd
      /\ MapOf[s] = seg[s].map /\ MapOf'[s] = seg'[s].map
  BY DEF DiffersAt, FdOf, MapOf
<1>3. ASSUME NEW o \in ShmObjects
      PROVE  /\ Count(ShmSlots, FdOf', o) = fds'[o]
             /\ Count(ShmSlots, MapOf', o) = maps'[o]
  <2>1. Count(ShmSlots, FdOf', o) = Count(ShmSlots, FdOf, o)
            - (IF FdOf[s] = o THEN 1 ELSE 0) + (IF FdOf'[s] = o THEN 1 ELSE 0)
    BY <1>2, SlotsFinite, Recounted
  <2>2. Count(ShmSlots, MapOf', o) = Count(ShmSlots, MapOf, o)
            - (IF MapOf[s] = o THEN 1 ELSE 0) + (IF MapOf'[s] = o THEN 1 ELSE 0)
    BY <1>2, SlotsFinite, Recounted
  <2>3. Count(ShmSlots, FdOf, o) = fds[o] /\ Count(ShmSlots, MapOf, o) = maps[o]
    BY DEF ShmInv, Counted
  <2>4. QED
    BY <1>2, <2>1, <2>2, <2>3 DEF Balanced
<1>4. Counted'
  BY <1>3 DEF Counted
<1>5. QED
  BY <1>1, <1>4

\* The table after closing the entry of an object, or of none.
LEMMA ClosedTable ==
    ASSUME NEW T \in [ShmObjects -> Int], NEW c \in ShmObjects \cup {0}
    PROVE  /\ Closed(T, c) \in [ShmObjects -> Int]
           /\ \A o \in ShmObjects : Closed(T, c)[o] = T[o] - (IF c = o THEN 1 ELSE 0)
<1>1. CASE c = 0
  <2>1. \A o \in ShmObjects : o # 0 /\ T[o] \in Int
    BY ShmAssumption
  <2>2. QED
    BY <1>1, <2>1 DEF Closed
<1>2. CASE c # 0
  BY <1>2 DEF Closed
<1>3. QED
  BY <1>1, <1>2

\* What the cases below start from.
LEMMA ShmFacts ==
    ASSUME ShmInv, NEW s \in ShmSlots
    PROVE  /\ seg[s] \in Segment /\ Phased(seg[s])
           /\ seg[s].fd \in ShmObjects \cup {0} /\ seg[s].map \in ShmObjects \cup {0}
           /\ seg[s].size \in Int /\ seg[s].wish \in Int
BY DEF ShmInv, ShmTypes, Phases, Segment

\* A failed call.
LEMMA GiveUpInv ==
    ASSUME ShmInv, NEW s \in ShmSlots, seg[s].pc # "none", GiveUp(s)
    PROVE  ShmInv'
<1>1. /\ fds' = Closed(fds, seg[s].fd) /\ seg' = [seg EXCEPT ![s] = ShmBlank]
      /\ UNCHANGED <<sdir, ssize, maps, clash, again>>
  BY DEF GiveUp
<1>2. /\ seg \in [ShmSlots -> Segment] /\ fds \in [ShmObjects -> Int]
      /\ maps \in [ShmObjects -> Int]
  BY DEF ShmInv, ShmTypes
<1>3. /\ seg' \in [ShmSlots -> Segment] /\ seg'[s] = ShmBlank
      /\ \A x \in ShmSlots \ {s} : seg'[x] = seg[x]
  BY <1>1, <1>2, BlankSegment
<1>4. /\ fds' \in [ShmObjects -> Int]
      /\ \A o \in ShmObjects : fds'[o] = fds[o] - (IF seg[s].fd = o THEN 1 ELSE 0)
  BY <1>1, <1>2, ShmFacts, ClosedTable
<1>5. seg[s].map = 0
  BY ShmFacts DEF Phased
<1>6. \A o \in ShmObjects : o # 0 /\ maps[o] \in Int /\ fds[o] \in Int
  BY <1>2, ShmAssumption
<1>7. Balanced(s)
  BY <1>1, <1>3, <1>4, <1>5, <1>6, BlankSegment DEF Balanced
<1>8. Phases' /\ Counted'
  BY <1>3, <1>7, BlankSegment, SegmentStep
<1>9. ShmTypes'
  BY <1>1, <1>3, <1>4 DEF ShmInv, ShmTypes
<1>10. NameOwned'
  BY <1>1, <1>3, BlankSegment DEF ShmInv, NameOwned, SizeKnown
<1>11. QED
  BY <1>8, <1>9, <1>10 DEF ShmInv

\* shm_open: one descriptor more, for a blank segment.
LEMMA OpenFdFacts ==
    ASSUME ShmInv, NEW s \in ShmSlots, seg[s] = ShmBlank, NEW o \in ShmObjects,
           NEW pc \in {"truncate", "stat"}, NEW wish \in Nat,
           (pc = "truncate") <=> (wish > 0),
           OpenFd(s, o, pc, wish), UNCHANGED maps
    PROVE  /\ seg' \in [ShmSlots -> Segment] /\ fds' \in [ShmObjects -> Int]
           /\ \A x \in ShmSlots \ {s} : seg'[x] = seg[x]
           /\ seg'[s].pc = pc /\ seg'[s].fd = o /\ seg'[s].size = 0 /\ seg'[s].wish = wish
           /\ seg'[s].state = "Invalid"
           /\ Phases' /\ Counted'
<1> DEFINE g == [ShmBlank EXCEPT !.pc = pc, !.fd = o, !.wish = wish]
<1>1. fds' = [fds EXCEPT ![o] = @ + 1] /\ seg' = [seg EXCEPT ![s] = g]
  BY DEF OpenFd
<1>2. /\ g \in Segment /\ g.pc = pc /\ g.fd = o /\ g.map = 0 /\ g.size = 0 /\ g.wish = wish
      /\ ~g.creator /\ ~g.named /\ g.state = "Invalid"
  <2> DEFINE b == ShmBlank
  <2> HIDE DEF b
  <2>1. b \in Segment /\ b = ShmBlank
    BY BlankSegment DEF b
  <2>2. g = [b EXCEPT !.pc = pc, !.fd = o, !.wish = wish]
    BY <2>1
  <2>3. /\ g.pc = pc /\ g.fd = o /\ g.wish = wish /\ g.map = b.map /\ g.size = b.size
        /\ g.creator = b.creator /\ g.named = b.named /\ g.state = b.state
    BY <2>1, <2>2 DEF Segment
  <2>4. g \in Segment
    <3>1. /\ pc \in {"none", "truncate", "map", "stat"} /\ o \in ShmObjects \cup {0}
          /\ wish \in Int
      OBVIOUS
    <3> HIDE DEF g
    <3>2. [b EXCEPT !.pc = pc] \in Segment
      BY <2>1, <3>1 DEF Segment
    <3>3. [[b EXCEPT !.pc = pc] EXCEPT !.fd = o] \in Segment
      BY <3>1, <3>2 DEF Segment
    <3>4. [[[b EXCEPT !.pc = pc] EXCEPT !.fd = o] EXCEPT !.wish = wish] \in Segment
      BY <3>1, <3>3 DEF Segment
    <3>5. QED
      BY <2>2, <3>4
  <2>5. QED
    BY <2>1, <2>3, <2>4, BlankSegment
<1> HIDE DEF g
<1>3. /\ seg \in [ShmSlots -> Segment] /\ fds \in [ShmObjects -> Int]
      /\ maps \in [ShmObjects -> Int]
  BY DEF ShmInv, ShmTypes
<1>4. /\ seg' \in [ShmSlots -> Segment] /\ seg'[s] = g
      /\ \A x \in ShmSlots \ {s} : seg'[x] = seg[x]
  BY <1>1, <1>2, <1>3
<1>5. fds' \in [ShmObjects -> Int]
      /\ \A p \in ShmObjects : fds'[p] = fds[p] + (IF p = o THEN 1 ELSE 0)
  BY <1>1, <1>3
<1>6. \A p \in ShmObjects : p # 0 /\ maps[p] \in Int /\ fds[p] \in Int
  BY <1>3, ShmAssumption
<1>7. Balanced(s)
  BY <1>2, <1>4, <1>5, <1>6, BlankSegment DEF Balanced
<1>8. Phased(g)
  BY <1>2, ShmAssumption DEF Phased
<1>9. Phases' /\ Counted'
  BY <1>4, <1>7, <1>8, SegmentStep
<1>10. QED
  BY <1>2, <1>4, <1>5, <1>9

\* Create of a name that is free makes its caller the one creator.
LEMMA CreateInv ==
    ASSUME ShmInv, NEW s \in ShmSlots, ShmCreate(s)
    PROVE  ShmInv'
<1>1. PICK n \in ShmSizes :
        IF sdir # 0
        THEN OpenFd(s, sdir, "truncate", n) /\ (clash') = TRUE /\ UNCHANGED <<sdir, ssize>>
        ELSE \E o \in ShmObjects :
               /\ ssize[o] = -1 /\ sdir' = o /\ ssize' = [ssize EXCEPT ![o] = 0]
               /\ OpenFd(s, o, "truncate", n) /\ UNCHANGED clash
  BY DEF ShmCreate
<1>2. seg[s] = ShmBlank /\ UNCHANGED <<maps, again>>
  BY DEF ShmCreate
<1>3. n \in Nat /\ n > 0
  BY ShmAssumption
<1>4. sdir \in ShmObjects \cup {0} /\ ssize \in [ShmObjects -> Int]
      /\ clash \in BOOLEAN /\ again \in BOOLEAN /\ maps \in [ShmObjects -> Int]
  BY DEF ShmInv, ShmTypes
<1>5. CASE sdir # 0
  <2>1. /\ OpenFd(s, sdir, "truncate", n) /\ (clash') = TRUE /\ UNCHANGED <<sdir, ssize>>
        /\ sdir \in ShmObjects
    BY <1>1, <1>4, <1>5
  <2>2. PICK o \in ShmObjects : o = sdir
    BY <2>1
  <2>3. OpenFd(s, o, "truncate", n)
    BY <2>1, <2>2
  <2>4. /\ seg' \in [ShmSlots -> Segment] /\ fds' \in [ShmObjects -> Int]
        /\ Phases' /\ Counted'
    BY <1>2, <1>3, <2>3, OpenFdFacts
  <2>5. clash' \in BOOLEAN
    BY <2>1
  <2>6. ShmTypes'
    BY <1>2, <1>4, <2>1, <2>4, <2>5 DEF ShmTypes
  <2>7. NameOwned'
    BY <2>1 DEF NameOwned
  <2>8. QED
    BY <2>4, <2>6, <2>7 DEF ShmInv
<1>6. CASE sdir = 0
  <2>1. PICK o \in ShmObjects :
               /\ ssize[o] = -1 /\ sdir' = o /\ ssize' = [ssize EXCEPT ![o] = 0]
               /\ OpenFd(s, o, "truncate", n) /\ UNCHANGED clash
    BY <1>1, <1>6
  <2>2. /\ seg' \in [ShmSlots -> Segment] /\ fds' \in [ShmObjects -> Int]
        /\ Phases' /\ Counted'
        /\ \A x \in ShmSlots \ {s} : seg'[x] = seg[x]
        /\ seg'[s].pc = "truncate" /\ seg'[s].fd = o /\ seg'[s].size = 0
        /\ seg'[s].wish = n
    BY <1>2, <1>3, <2>1, OpenFdFacts
  <2>3. /\ ssize' \in [ShmObjects -> Int] /\ ssize'[o] = 0
        /\ \A p \in ShmObjects \ {o} : ssize'[p] = ssize[p]
    BY <1>4, <2>1
  <2>4. ShmTypes'
    BY <1>2, <1>4, <2>1, <2>2, <2>3 DEF ShmTypes
  <2>5. ASSUME ~clash', ~again'
        PROVE  /\ 0 <= ssize'[sdir']
               /\ \A x \in ShmSlots : SizeKnown(seg[x])'
               /\ \A x \in ShmSlots : Creating(seg'[x]) => sdir' = seg'[x].fd
               /\ \A x, y \in ShmSlots : Creating(seg'[x]) /\ Creating(seg'[y]) => x = y
    <3>1. ~clash /\ ~again
      BY <1>2, <2>1, <2>5
    <3>2. ASSUME NEW x \in ShmSlots, Creating(seg[x]) PROVE FALSE
      <4>1. sdir = seg[x].fd
        BY <3>1, <3>2 DEF ShmInv, NameOwned
      <4>2. seg[x].fd # 0
        BY <3>2, ShmFacts, CreatorOpen
      <4>3. QED
        BY <1>6, <4>1, <4>2
    <3>3. \A x \in ShmSlots \ {s} : ~Creating(seg'[x])
      BY <2>2, <3>2
    <3>4. ASSUME NEW x \in ShmSlots \ {s} PROVE SizeKnown(seg[x])'
      <4>1. SizeKnown(seg[x]) /\ seg'[x] = seg[x]
        BY <2>2, <3>1 DEF ShmInv, NameOwned
      <4>2. seg[x].fd \in ShmObjects \cup {0}
        BY ShmFacts
      <4>3. seg[x].fd # 0 => seg[x].fd # o /\ ssize'[seg[x].fd] = ssize[seg[x].fd]
        BY <2>1, <2>3, <4>1, <4>2 DEF SizeKnown
      <4>4. QED
        BY <4>1, <4>3 DEF SizeKnown
    <3>5. SizeKnown(seg[s])'
      BY <2>2, <2>3 DEF SizeKnown
    <3>6. QED
      BY <2>1, <2>2, <2>3, <3>3, <3>4, <3>5
  <2>6. NameOwned'
    BY <2>5 DEF NameOwned
  <2>7. QED
    BY <2>2, <2>4, <2>6 DEF ShmInv
<1>7. QED
  BY <1>5, <1>6

\* Open finds the object of the name.
LEMMA OpenInv ==
    ASSUME ShmInv, NEW s \in ShmSlots, ShmOpen(s)
    PROVE  ShmInv'
<1>1. /\ seg[s] = ShmBlank /\ sdir # 0 /\ OpenFd(s, sdir, "stat", 0)
      /\ UNCHANGED <<sdir, ssize, maps, clash, again>>
  BY DEF ShmOpen
<1>2. sdir \in ShmObjects
  BY <1>1 DEF ShmInv, ShmTypes
<1>3. PICK o \in ShmObjects : o = sdir
  BY <1>2
<1>4. OpenFd(s, o, "stat", 0)
  BY <1>1, <1>3
<1>5. /\ seg' \in [ShmSlots -> Segment] /\ fds' \in [ShmObjects -> Int]
      /\ Phases' /\ Counted'
      /\ \A x \in ShmSlots \ {s} : seg'[x] = seg[x]
      /\ seg'[s].pc = "stat" /\ seg'[s].fd = o /\ seg'[s].size = 0
      /\ seg'[s].state = "Invalid"
  BY <1>1, <1>4, OpenFdFacts
<1>6. ShmTypes'
  BY <1>1, <1>5 DEF ShmInv, ShmTypes
<1>7. ~Creating(seg'[s])
  BY <1>5 DEF Creating
<1>8. ASSUME ~clash, ~again PROVE SizeKnown(seg[s])'
  <2>1. 0 <= ssize[sdir]
    BY <1>1, <1>8 DEF ShmInv, NameOwned
  <2>2. QED
    BY <1>1, <1>3, <1>5, <2>1 DEF SizeKnown
<1>9. \A x \in ShmSlots \ {s} : SizeKnown(seg[x]) => SizeKnown(seg[x])'
  BY <1>1, <1>5 DEF SizeKnown
<1>10. NameOwned'
  BY <1>1, <1>5, <1>7, <1>8, <1>9 DEF ShmInv, NameOwned
<1>11. QED
  BY <1>5, <1>6, <1>10 DEF ShmInv

\* A step of a Create or Open that is under way and does not end it.
LEMMA CallGoesOn ==
    ASSUME ShmInv, NEW s \in ShmSlots, NEW g \in Segment, Phased(g),
           seg' = [seg EXCEPT ![s] = g], g.fd = seg[s].fd, g.map = seg[s].map,
           UNCHANGED <<fds, maps>>
    PROVE  /\ seg' \in [ShmSlots -> Segment] /\ seg'[s] = g
           /\ \A x \in ShmSlots \ {s} : seg'[x] = seg[x]
           /\ Phases' /\ Counted'
<1>1. /\ seg \in [ShmSlots -> Segment] /\ fds \in [ShmObjects -> Int]
      /\ maps \in [ShmObjects -> Int]
  BY DEF ShmInv, ShmTypes
<1>2. /\ seg' \in [ShmSlots -> Segment] /\ seg'[s] = g
      /\ \A x \in ShmSlots \ {s} : seg'[x] = seg[x]
  BY <1>1
<1>3. \A o \in ShmObjects : fds[o] \in Int /\ maps[o] \in Int
  BY <1>1
<1>4. Balanced(s)
  BY <1>2, <1>3 DEF Balanced
<1>5. Phases' /\ Counted'
  BY <1>2, <1>4, SegmentStep
<1>6. QED
  BY <1>2, <1>5

\* ftruncate: only the one creator does it, and once.
LEMMA TruncateInv ==
    ASSUME ShmInv, NEW s \in ShmSlots, ShmTruncate(s)
    PROVE  ShmInv'
<1>1. CASE GiveUp(s)
  BY <1>1, GiveUpInv DEF ShmTruncate
<1>2. CASE /\ ssize' = [ssize EXCEPT ![seg[s].fd] = seg[s].wish]
           /\ seg' = [seg EXCEPT ![s].pc = "map"]
           /\ UNCHANGED <<sdir, fds, maps, clash, again>>
  <2> DEFINE g == [seg[s] EXCEPT !.pc = "map"]
  <2>1. seg[s].pc = "truncate" /\ seg[s] \in Segment /\ Phased(seg[s])
    BY ShmFacts DEF ShmTruncate
  <2>2. /\ g \in Segment /\ g.pc = "map" /\ g.fd = seg[s].fd /\ g.map = seg[s].map
        /\ g.size = seg[s].size /\ g.wish = seg[s].wish /\ g.state = seg[s].state
        /\ g.creator = seg[s].creator /\ g.named = seg[s].named
    BY <2>1 DEF Segment
  <2>3. seg' = [seg EXCEPT ![s] = g]
    BY <1>2
  <2> HIDE DEF g
  <2>4. Phased(g)
    BY <2>1, <2>2 DEF Phased
  <2>5. /\ seg' \in [ShmSlots -> Segment] /\ seg'[s] = g
        /\ \A x \in ShmSlots \ {s} : seg'[x] = seg[x]
        /\ Phases' /\ Counted'
    BY <1>2, <2>2, <2>3, <2>4, CallGoesOn
  <2>6. PICK o \in ShmObjects : o = seg[s].fd
    BY <2>1, ShmFacts DEF Phased
  <2>7. PICK n \in Int : n = seg[s].wish /\ n > 0
    BY <2>1, ShmFacts DEF Phased
  <2>8. ssize \in [ShmObjects -> Int] /\ ssize' = [ssize EXCEPT ![o] = n]
    BY <1>2, <2>6, <2>7 DEF ShmInv, ShmTypes
  <2>9. /\ ssize' \in [ShmObjects -> Int] /\ ssize'[o] = n
        /\ \A p \in ShmObjects \ {o} : ssize'[p] = ssize[p]
    BY <2>8
  <2>10. ShmTypes'
    BY <1>2, <2>5, <2>9 DEF ShmInv, ShmTypes
  <2>11. ASSUME ~clash, ~again
         PROVE  /\ sdir # 0 => 0 <= ssize'[sdir]
                /\ \A x \in ShmSlots : SizeKnown(seg[x])'
                /\ \A x \in ShmSlots : Creating(seg'[x]) => sdir = seg'[x].fd
                /\ \A x, y \in ShmSlots : Creating(seg'[x]) /\ Creating(seg'[y]) => x = y
    <3>1. Creating(seg[s])
      BY <2>1 DEF Creating
    <3>2. \A x \in ShmSlots \ {s} : ~Creating(seg[x])
      BY <2>11, <3>1 DEF ShmInv, NameOwned
    <3>3. ssize[o] = 0 /\ sdir = o
      BY <2>1, <2>6, <2>11, <3>1, ShmFacts DEF ShmInv, NameOwned, SizeKnown, Phased
    <3>4. ASSUME NEW x \in ShmSlots \ {s} PROVE SizeKnown(seg[x])'
      <4>1. SizeKnown(seg[x]) /\ seg'[x] = seg[x] /\ ~Creating(seg[x])
        BY <2>5, <2>11, <3>2 DEF ShmInv, NameOwned
      <4>2. seg[x].fd \in ShmObjects \cup {0} /\ seg[x].size \in Int
        BY ShmFacts
      <4>3. CASE seg[x].fd = o
        BY <2>7, <2>9, <3>3, <4>1, <4>2, <4>3 DEF SizeKnown, Creating
      <4>4. CASE seg[x].fd # o
        <5>1. seg[x].fd # 0 => ssize'[seg[x].fd] = ssize[seg[x].fd]
          BY <2>9, <4>2, <4>4
        <5>2. QED
          BY <4>1, <5>1 DEF SizeKnown
      <4>5. QED
        BY <4>3, <4>4
    <3>5. SizeKnown(seg[s])'
      <4>1. seg[s].size <= 0 /\ seg[s].size \in Int
        BY <2>1, <2>6, <2>11, <3>3, ShmFacts DEF ShmInv, NameOwned, SizeKnown, Phased
      <4>2. QED
        BY <2>2, <2>5, <2>6, <2>7, <2>9, <4>1 DEF SizeKnown
    <3>6. \A x \in ShmSlots \ {s} : ~Creating(seg'[x])
      BY <2>5, <3>2
    <3>7. seg'[s].fd = o
      BY <2>2, <2>5, <2>6
    <3>8. 0 <= ssize'[sdir]
      BY <2>7, <2>9, <3>3
    <3>9. QED
      BY <3>3, <3>4, <3>5, <3>6, <3>7, <3>8
  <2>12. NameOwned'
    BY <1>2, <2>11 DEF NameOwned
  <2>13. QED
    BY <2>5, <2>10, <2>12 DEF ShmInv
<1>3. QED
  BY <1>1, <1>2 DEF ShmTruncate

\* fstat: the size found is one the object keeps or exceeds.
LEMMA StatInv ==
    ASSUME ShmInv, NEW s \in ShmSlots, ShmStat(s)
    PROVE  ShmInv'
<1>1. CASE GiveUp(s)
  BY <1>1, GiveUpInv DEF ShmStat
<1>2. CASE /\ seg' = [seg EXCEPT ![s].pc = "map", ![s].size = ssize[seg[s].fd]]
           /\ UNCHANGED <<sdir, ssize, fds, maps, clash, again>>
  <2>1. seg[s].pc = "stat" /\ seg[s] \in Segment /\ Phased(seg[s])
    BY ShmFacts DEF ShmStat
  <2>2. PICK o \in ShmObjects : o = seg[s].fd
    BY <2>1, ShmFacts DEF Phased
  <2>3. PICK n \in Int : n = ssize[o]
    BY DEF ShmInv, ShmTypes
  <2> DEFINE g == [[seg[s] EXCEPT !.pc = "map"] EXCEPT !.size = n]
  <2>4. /\ g \in Segment /\ g.pc = "map" /\ g.fd = seg[s].fd /\ g.map = seg[s].map
        /\ g.size = n /\ g.wish = seg[s].wish /\ g.state = seg[s].state
        /\ g.creator = seg[s].creator /\ g.named = seg[s].named
    <3> DEFINE e == [seg[s] EXCEPT !.pc = "map"]
    <3>1. /\ e \in Segment /\ e.pc = "map" /\ e.fd = seg[s].fd /\ e.map = seg[s].map
          /\ e.wish = seg[s].wish /\ e.state = seg[s].state
          /\ e.creator = seg[s].creator /\ e.named = seg[s].named
      BY <2>1 DEF Segment
    <3>2. g = [e EXCEPT !.size = n]
      OBVIOUS
    <3> HIDE DEF e, g
    <3>3. QED
      BY <3>1, <3>2 DEF Segment
  <2>5. seg' = [seg EXCEPT ![s] = g]
    BY <1>2, <2>2, <2>3 DEF ShmInv, ShmTypes
  <2> HIDE DEF g
  <2>6. Phased(g)
    BY <2>1, <2>4, <2>2, ShmAssumption DEF Phased
  <2>7. /\ seg' \in [ShmSlots -> Segment] /\ seg'[s] = g
        /\ \A x \in ShmSlots \ {s} : seg'[x] = seg[x]
        /\ Phases' /\ Counted'
    BY <1>2, <2>4, <2>5, <2>6, CallGoesOn
  <2>8. ShmTypes'
    BY <1>2, <2>7 DEF ShmInv, ShmTypes
  <2>9. ~Creating(g)
    BY <2>1, <2>4 DEF Creating, Phased
  <2>10. SizeKnown(seg[s]) => SizeKnown(seg[s])'
    BY <1>2, <2>1, <2>2, <2>3, <2>4, <2>7, ShmAssumption DEF SizeKnown, Phased
  <2>11. \A x \in ShmSlots \ {s} : SizeKnown(seg[x]) => SizeKnown(seg[x])'
    BY <1>2, <2>7 DEF SizeKnown
  <2>12. NameOwned'
    BY <1>2, <2>7, <2>9, <2>10, <2>11 DEF ShmInv, NameOwned
  <2>13. QED
    BY <2>7, <2>8, <2>12 DEF ShmInv
<1>3. QED
  BY <1>1, <1>2 DEF ShmStat

\* mmap ends the Create or Open.
LEMMA MapInv ==
    ASSUME ShmInv, NEW s \in ShmSlots, ShmMap(s)
    PROVE  ShmInv'
<1> DEFINE wished == IF seg[s].wish > 0 THEN seg[s].wish ELSE seg[s].size
<1>1. CASE GiveUp(s)
  BY <1>1, GiveUpInv DEF ShmMap
<1>2. CASE ~GiveUp(s)
  <2>1. seg[s].pc = "map" /\ seg[s] \in Segment /\ Phased(seg[s])
    BY ShmFacts DEF ShmMap
  <2>2. PICK o \in ShmObjects : o = seg[s].fd
    BY <2>1, ShmFacts DEF Phased
  <2>3. PICK n \in Int : n = wished
    BY ShmFacts
  <2>4. PICK c \in BOOLEAN : c = (seg[s].wish > 0)
    <3>1. CASE seg[s].wish > 0
      <4>1. TRUE = (seg[s].wish > 0)
        BY <3>1
      <4>2. QED
        BY <4>1, Zenon
    <3>2. CASE ~(seg[s].wish > 0)
      <4>1. FALSE = (seg[s].wish > 0)
        BY <3>2
      <4>2. QED
        BY <4>1, Zenon
    <3>3. QED
      BY <3>1, <3>2
  <2>5. PICK st \in {"Created", "Opened"} :
             st = IF seg[s].wish > 0 THEN "Created" ELSE "Opened"
    OBVIOUS
  <2> DEFINE g == [seg[s] EXCEPT !.pc = "none", !.map = o, !.size = n, !.wish = 0,
                                 !.named = TRUE, !.creator = c, !.state = st]
  <2>6. /\ maps' = [maps EXCEPT ![o] = @ + 1] /\ seg' = [seg EXCEPT ![s] = g]
        /\ n > 0 /\ UNCHANGED <<sdir, ssize, fds, clash, again>>
    BY <1>2, <2>1, <2>2, <2>3, <2>4, <2>5 DEF ShmMap, ShmInv, ShmTypes
  <2>7. /\ g.pc = "none" /\ g.fd = o /\ g.map = o /\ g.size = n /\ g.wish = 0
        /\ g.named /\ g.creator = c /\ g.state = st
    BY <2>1, <2>2 DEF Segment
  <2>8. g \in Segment
    <3> DEFINE e1 == [seg[s] EXCEPT !.pc = "none"]
               e2 == [e1 EXCEPT !.map = o]
               e3 == [e2 EXCEPT !.size = n]
               e4 == [e3 EXCEPT !.wish = 0]
               e5 == [e4 EXCEPT !.named = TRUE]
               e6 == [e5 EXCEPT !.creator = c]
               e7 == [e6 EXCEPT !.state = st]
    <3>0. g = e7
      OBVIOUS
    <3> HIDE DEF g, e7
    <3>1. e1 \in Segment
      BY <2>1 DEF Segment
    <3> HIDE DEF e1
    <3>2. e2 \in Segment
      BY <3>1 DEF Segment
    <3> HIDE DEF e2
    <3>3. e3 \in Segment
      BY <3>2 DEF Segment
    <3> HIDE DEF e3
    <3>4. e4 \in Segment
      BY <3>3 DEF Segment
    <3> HIDE DEF e4
    <3>5. e5 \in Segment
      BY <3>4 DEF Segment
    <3> HIDE DEF e5
    <3>6. e6 \in Segment
      BY <3>5 DEF Segment
    <3> HIDE DEF e6
    <3>7. e7 \in Segment
      BY <3>6 DEF Segment, e7
    <3>8. QED
      BY <3>0, <3>7
  <2> HIDE DEF g
  <2>9. Phased(g)
    BY <2>2, <2>4, <2>5, <2>7, ShmAssumption DEF Phased
  <2>10. /\ seg' \in [ShmSlots -> Segment] /\ seg'[s] = g
         /\ \A x \in ShmSlots \ {s} : seg'[x] = seg[x]
    BY <2>6, <2>8 DEF ShmInv, ShmTypes
  <2>11. /\ maps' \in [ShmObjects -> Int]
         /\ \A p \in ShmObjects : maps'[p] = maps[p] + (IF p = o THEN 1 ELSE 0)
    BY <2>6 DEF ShmInv, ShmTypes
  <2>12. seg[s].map = 0 /\ \A p \in ShmObjects : p # 0 /\ maps[p] \in Int /\ fds[p] \in Int
    BY <2>1, ShmAssumption DEF ShmInv, ShmTypes, Phased
  <2>13. Balanced(s)
    BY <2>2, <2>6, <2>7, <2>10, <2>11, <2>12 DEF Balanced
  <2>14. Phases' /\ Counted'
    BY <2>9, <2>10, <2>13, SegmentStep
  <2>15. ShmTypes'
    BY <2>6, <2>10, <2>11 DEF ShmInv, ShmTypes
  <2>16. Creating(g) => Creating(seg[s])
    BY <2>1, <2>5, <2>7 DEF Creating
  <2>17. SizeKnown(seg[s]) => SizeKnown(seg[s])'
    BY <2>1, <2>2, <2>3, <2>6, <2>7, <2>10, ShmFacts DEF SizeKnown
  <2>18. \A x \in ShmSlots \ {s} : SizeKnown(seg[x]) => SizeKnown(seg[x])'
    BY <2>6, <2>10 DEF SizeKnown
  <2>19. NameOwned'
    BY <2>2, <2>6, <2>7, <2>10, <2>16, <2>17, <2>18 DEF ShmInv, NameOwned
  <2>20. QED
    BY <2>14, <2>15, <2>19 DEF ShmInv
<1>3. QED
  BY <1>1, <1>2

\* What Destroy takes from the system; the name of another creator stays, unless
\* a segment unlinks it a second time.
LEMMA TornFacts ==
    ASSUME ShmInv, NEW s \in ShmSlots, ShmIdle(s), Torn(s)
    PROVE  /\ sdir' \in {0, sdir} /\ ssize' = ssize /\ clash' = clash
           /\ again' \in BOOLEAN /\ (again => again')
           /\ fds' \in [ShmObjects -> Int] /\ maps' \in [ShmObjects -> Int]
           /\ \A o \in ShmObjects :
                 /\ fds'[o] = fds[o] - (IF seg[s].fd = o THEN 1 ELSE 0)
                 /\ maps'[o] = maps[o] - (IF seg[s].map = o THEN 1 ELSE 0)
           /\ ~clash /\ ~again' =>
                 \A x \in ShmSlots \ {s} : Creating(seg[x]) => sdir' = seg[x].fd
<1> DEFINE unlinks == seg[s].creator /\ seg[s].named
<1>1. /\ maps' = Closed(maps, seg[s].map) /\ fds' = Closed(fds, seg[s].fd)
      /\ sdir' = (IF unlinks THEN 0 ELSE sdir) /\ ssize' = ssize /\ clash' = clash
      /\ again' = (again \/ (unlinks /\ seg[s].state = "Invalid" /\ sdir # 0))
  BY DEF Torn
<1>2. /\ fds \in [ShmObjects -> Int] /\ maps \in [ShmObjects -> Int] /\ again \in BOOLEAN
  BY DEF ShmInv, ShmTypes
<1>3. /\ fds' \in [ShmObjects -> Int] /\ maps' \in [ShmObjects -> Int]
      /\ \A o \in ShmObjects :
           /\ fds'[o] = fds[o] - (IF seg[s].fd = o THEN 1 ELSE 0)
           /\ maps'[o] = maps[o] - (IF seg[s].map = o THEN 1 ELSE 0)
  BY <1>1, <1>2, ShmFacts, ClosedTable
<1>4. again' \in BOOLEAN /\ (again => again')
  BY <1>1, <1>2
<1>5. ASSUME ~clash, ~again', NEW x \in ShmSlots \ {s}, Creating(seg[x])
      PROVE  sdir' = seg[x].fd
  <2>1. ~again
    BY <1>4, <1>5
  <2>2. sdir = seg[x].fd /\ ~Creating(seg[s])
    BY <1>5, <2>1 DEF ShmInv, NameOwned
  <2>3. sdir # 0
    BY <1>5, <2>2, ShmFacts, CreatorOpen
  <2>4. ~unlinks
    <3>1. SUFFICES ASSUME unlinks PROVE FALSE
      OBVIOUS
    <3>2. seg[s].state # "Invalid"
      BY <1>1, <1>5, <2>3, <3>1
    <3>3. seg[s].state # "Opened"
      BY <3>1, ShmFacts DEF Phased
    <3>4. seg[s].state # "Created"
      BY <2>2 DEF Creating
    <3>5. seg[s].state \in {"Invalid", "Created", "Opened"}
      BY ShmFacts DEF Segment
    <3>6. QED
      BY <3>2, <3>3, <3>4, <3>5
  <2>5. QED
    BY <1>1, <2>2, <2>4
<1>6. QED
  BY <1>1, <1>3, <1>4, <1>5

\* A segment that is destroyed lets go of everything, once.
LEMMA DestroyInv ==
    ASSUME ShmInv, NEW s \in ShmSlots, ShmDestroy(s) \/ ShmDestruct(s)
    PROVE  ShmInv'
<1>1. ShmIdle(s) /\ Torn(s) /\ seg[s].pc = "none"
  BY DEF ShmDestroy, ShmDestruct, ShmIdle
<1>2. seg[s] \in Segment /\ Phased(seg[s])
  BY ShmFacts
<1>3. PICK g \in Segment : /\ seg' = [seg EXCEPT ![s] = g]
                           /\ g.pc = "none" /\ g.fd = 0 /\ g.map = 0 /\ g.size = 0
                           /\ g.state = "Invalid"
  <2>1. CASE ShmDestruct(s)
    <3>1. ShmBlank.pc = "none"
      BY DEF ShmBlank
    <3>2. QED
      BY <2>1, <3>1, BlankSegment DEF ShmDestruct
  <2>2. CASE ShmDestroy(s)
    <3> DEFINE e1 == [seg[s] EXCEPT !.fd = 0]
               e2 == [e1 EXCEPT !.map = 0]
               e3 == [e2 EXCEPT !.size = 0]
               e4 == [e3 EXCEPT !.state = "Invalid"]
    <3>0. seg' = [seg EXCEPT ![s] = e4]
      BY <2>2 DEF ShmDestroy, ShmInv, ShmTypes
    <3>1. e1 \in Segment /\ e1.pc = "none" /\ e1.fd = 0
      BY <1>1, <1>2 DEF Segment
    <3> HIDE DEF e1
    <3>2. e2 \in Segment /\ e2.pc = "none" /\ e2.fd = 0 /\ e2.map = 0
      BY <3>1 DEF Segment
    <3> HIDE DEF e2
    <3>3. e3 \in Segment /\ e3.pc = "none" /\ e3.fd = 0 /\ e3.map = 0 /\ e3.size = 0
      BY <3>2 DEF Segment
    <3> HIDE DEF e3
    <3>4. /\ e4 \in Segment /\ e4.pc = "none" /\ e4.fd = 0 /\ e4.map = 0 /\ e4.size = 0
          /\ e4.state = "Invalid"
      BY <3>3 DEF Segment
    <3>5. QED
      BY <3>0, <3>4
  <2>3. QED
    BY <2>1, <2>2
<1>4. /\ seg' \in [ShmSlots -> Segment] /\ seg'[s] = g
      /\ \A x \in ShmSlots \ {s} : seg'[x] = seg[x]
  BY <1>3 DEF ShmInv, ShmTypes
<1>5. Phased(g) /\ ~Creating(g)
  BY <1>3 DEF Phased, Creating
<1>6. /\ sdir' \in {0, sdir} /\ ssize' = ssize /\ clash' = clash
      /\ again' \in BOOLEAN /\ (again => again')
      /\ fds' \in [ShmObjects -> Int] /\ maps' \in [ShmObjects -> Int]
      /\ \A o \in ShmObjects :
            /\ fds'[o] = fds[o] - (IF seg[s].fd = o THEN 1 ELSE 0)
            /\ maps'[o] = maps[o] - (IF seg[s].map = o THEN 1 ELSE 0)
      /\ ~clash /\ ~again' =>
            \A x \in ShmSlots \ {s} : Creating(seg[x]) => sdir' = seg[x].fd
  BY <1>1, TornFacts
<1>7. \A o \in ShmObjects : o # 0 /\ fds[o] \in Int /\ maps[o] \in Int
  BY ShmAssumption DEF ShmInv, ShmTypes
<1>8. Balanced(s)
  BY <1>3, <1>4, <1>6, <1>7 DEF Balanced
<1>9. Phases' /\ Counted'
  BY <1>4, <1>5, <1>8, SegmentStep
<1>10. ShmTypes'
  BY <1>4, <1>6 DEF ShmInv, ShmTypes
<1>11. SizeKnown(seg[s])'
  BY <1>3, <1>4 DEF SizeKnown
<1>12. \A x \in ShmSlots \ {s} : SizeKnown(seg[x]) => SizeKnown(seg[x])'
  BY <1>4, <1>6 DEF SizeKnown
<1>13. NameOwned'
  BY <1>4, <1>5, <1>6, <1>11, <1>12 DEF ShmInv, NameOwned
<1>14. QED
  BY <1>9, <1>10, <1>13 DEF ShmInv

\* The value at t goes to s, and t gets one that does not count.
LEMMA MovedCount ==
    ASSUME NEW S, IsFiniteSet(S), NEW s \in S, NEW t \in S, s # t, NEW f, NEW g, NEW o,
           \A x \in S \ {s, t} : g[x] = f[x], g[s] = f[t], g[t] # o
    PROVE  Count(S, g, o) = Count(S, f, o) - (IF f[s] = o THEN 1 ELSE 0)
<1> DEFINE m == [x \in S |-> IF x = s THEN g[s] ELSE f[x]]
<1>1. /\ DiffersAt(S, f, m, s) /\ DiffersAt(S, m, g, t)
      /\ m[s] = f[t] /\ m[t] = f[t]
  BY DEF DiffersAt
<1> HIDE DEF m
<1>2. /\ Count(S, f, o) \in Nat
      /\ Count(S, m, o) = Count(S, f, o) - (IF f[s] = o THEN 1 ELSE 0)
                                         + (IF m[s] = o THEN 1 ELSE 0)
  BY <1>1, Recounted
<1>3. /\ Count(S, m, o) \in Nat
      /\ Count(S, g, o) = Count(S, m, o) - (IF m[t] = o THEN 1 ELSE 0)
                                         + (IF g[t] = o THEN 1 ELSE 0)
  BY <1>1, Recounted
<1>4. QED
  BY <1>1, <1>2, <1>3

\* What a move leaves holds nothing.
LEMMA MovedFacts ==
    ASSUME NEW g \in Segment, g.pc = "none"
    PROVE  /\ MovedSegment(g) \in Segment /\ MovedSegment(g).pc = "none"
           /\ MovedSegment(g).fd = 0 /\ MovedSegment(g).map = 0 /\ MovedSegment(g).size = 0
           /\ MovedSegment(g).state = "Invalid"
<1> DEFINE e1 == [g EXCEPT !.fd = 0]
           e2 == [e1 EXCEPT !.map = 0]
           e3 == [e2 EXCEPT !.size = 0]
           e4 == [e3 EXCEPT !.named = FALSE]
           e5 == [e4 EXCEPT !.state = "Invalid"]
<1>0. MovedSegment(g) = e5
  BY DEF MovedSegment
<1>1. e1 \in Segment /\ e1.pc = "none" /\ e1.fd = 0
  BY DEF Segment
<1> HIDE DEF e1
<1>2. e2 \in Segment /\ e2.pc = "none" /\ e2.fd = 0 /\ e2.map = 0
  BY <1>1 DEF Segment
<1> HIDE DEF e2
<1>3. e3 \in Segment /\ e3.pc = "none" /\ e3.fd = 0 /\ e3.map = 0 /\ e3.size = 0
  BY <1>2 DEF Segment
<1> HIDE DEF e3
<1>4. e4 \in Segment /\ e4.pc = "none" /\ e4.fd = 0 /\ e4.map = 0 /\ e4.size = 0
  BY <1>3 DEF Segment
<1> HIDE DEF e4
<1>5. /\ e5 \in Segment /\ e5.pc = "none" /\ e5.fd = 0 /\ e5.map = 0 /\ e5.size = 0
      /\ e5.state = "Invalid"
  BY <1>4 DEF Segment
<1>6. QED
  BY <1>0, <1>5

\* A move: what s held is closed, what t held is now held by s.
LEMMA MoveInv ==
    ASSUME ShmInv, NEW s \in ShmSlots, NEW t \in ShmSlots, ShmMove(s, t)
    PROVE  ShmInv'
<1>1. /\ s # t /\ ShmIdle(s) /\ Torn(s) /\ seg[t].pc = "none"
      /\ seg' = [seg EXCEPT ![s] = seg[t], ![t] = MovedSegment(seg[t])]
  BY DEF ShmMove, ShmIdle
<1>2. seg \in [ShmSlots -> Segment] /\ seg[t] \in Segment /\ Phased(seg[t])
  BY ShmFacts DEF ShmInv, ShmTypes
<1>3. PICK g \in Segment : /\ g = MovedSegment(seg[t])
                           /\ g.pc = "none" /\ g.fd = 0 /\ g.map = 0 /\ g.size = 0
                           /\ g.state = "Invalid"
  BY <1>1, <1>2, MovedFacts
<1>4. /\ seg' \in [ShmSlots -> Segment] /\ seg'[s] = seg[t] /\ seg'[t] = g
      /\ \A x \in ShmSlots \ {s, t} : seg'[x] = seg[x]
  BY <1>1, <1>2, <1>3
<1>5. Phased(g) /\ ~Creating(g)
  BY <1>3 DEF Phased, Creating
<1>6. /\ sdir' \in {0, sdir} /\ ssize' = ssize /\ clash' = clash
      /\ again' \in BOOLEAN /\ (again => again')
      /\ fds' \in [ShmObjects -> Int] /\ maps' \in [ShmObjects -> Int]
      /\ \A o \in ShmObjects :
            /\ fds'[o] = fds[o] - (IF seg[s].fd = o THEN 1 ELSE 0)
            /\ maps'[o] = maps[o] - (IF seg[s].map = o THEN 1 ELSE 0)
      /\ ~clash /\ ~again' =>
            \A x \in ShmSlots \ {s} : Creating(seg[x]) => sdir' = seg[x].fd
  BY <1>1, TornFacts
<1>7. Phases'
  BY <1>2, <1>4, <1>5 DEF ShmInv, Phases
<1>8. Counted'
  <2>1. /\ \A x \in ShmSlots \ {s, t} : FdOf'[x] = FdOf[x] /\ MapOf'[x] = MapOf[x]
        /\ FdOf'[s] = FdOf[t] /\ MapOf'[s] = MapOf[t] /\ FdOf'[t] = 0 /\ MapOf'[t] = 0
        /\ FdOf[s] = seg[s].fd /\ MapOf[s] = seg[s].map
    BY <1>1, <1>3, <1>4 DEF FdOf, MapOf
  <2>2. ASSUME NEW o \in ShmObjects
        PROVE  /\ Count(ShmSlots, FdOf', o) = fds'[o]
               /\ Count(ShmSlots, MapOf', o) = maps'[o]
    <3>1. o # 0
      BY ShmAssumption
    <3>2. Count(ShmSlots, FdOf', o) = Count(ShmSlots, FdOf, o) - (IF FdOf[s] = o THEN 1 ELSE 0)
      BY <1>1, <2>1, <3>1, SlotsFinite, MovedCount
    <3>3. Count(ShmSlots, MapOf', o) = Count(ShmSlots, MapOf, o) - (IF MapOf[s] = o THEN 1 ELSE 0)
      BY <1>1, <2>1, <3>1, SlotsFinite, MovedCount
    <3>4. Count(ShmSlots, FdOf, o) = fds[o] /\ Count(ShmSlots, MapOf, o) = maps[o]
      BY DEF ShmInv, Counted
    <3>5. QED
      BY <1>6, <2>1, <3>2, <3>3, <3>4
  <2>3. QED
    BY <2>2 DEF Counted
<1>9. ShmTypes'
  BY <1>4, <1>6 DEF ShmInv, ShmTypes
<1>10. SizeKnown(seg[t])' /\ (SizeKnown(seg[t]) => SizeKnown(seg[s])')
  BY <1>3, <1>4, <1>6 DEF SizeKnown
<1>11. \A x \in ShmSlots \ {s, t} : SizeKnown(seg[x]) => SizeKnown(seg[x])'
  BY <1>4, <1>6 DEF SizeKnown
<1>12. ASSUME ~clash', ~again'
       PROVE  /\ sdir' # 0 => 0 <= ssize'[sdir']
              /\ \A x \in ShmSlots : SizeKnown(seg[x])'
              /\ \A x \in ShmSlots : Creating(seg'[x]) => sdir' = seg'[x].fd
              /\ \A x, y \in ShmSlots : Creating(seg'[x]) /\ Creating(seg'[y]) => x = y
  <2>1. ~clash /\ ~again
    BY <1>6, <1>12
  <2>2. /\ sdir # 0 => 0 <= ssize[sdir]
        /\ \A x \in ShmSlots : SizeKnown(seg[x])
        /\ \A x, y \in ShmSlots : Creating(seg[x]) /\ Creating(seg[y]) => x = y
    BY <2>1 DEF ShmInv, NameOwned
  <2>3. \A x \in ShmSlots : SizeKnown(seg[x])'
    BY <1>10, <1>11, <2>2
  <2>4. \A x \in ShmSlots \ {s} : Creating(seg[x]) => sdir' = seg[x].fd
    BY <1>6, <1>12
  <2>5. \A x \in ShmSlots : Creating(seg'[x]) => sdir' = seg'[x].fd
    BY <1>1, <1>4, <1>5, <2>4
  <2>6. \A x, y \in ShmSlots : Creating(seg'[x]) /\ Creating(seg'[y]) => x = y
    BY <1>1, <1>4, <1>5, <2>2
  <2>7. sdir' # 0 => 0 <= ssize'[sdir']
    BY <1>6, <2>2
  <2>8. QED
    BY <2>3, <2>5, <2>6, <2>7
<1>13. NameOwned'
  BY <1>12 DEF NameOwned
<1>14. QED
  BY <1>7, <1>8, <1>9, <1>13 DEF ShmInv

DropsOn(S, P, f, g, o) == /\ P \subseteq S
                          /\ \A x \in S \ P : g[x] = f[x]
                          /\ \A x \in P : g[x] # o

\* The values on P no longer count.
LEMMA CrashedCount ==
    ASSUME NEW S, IsFiniteSet(S), NEW P, NEW f, NEW g, NEW o, DropsOn(S, P, f, g, o)
    PROVE  Count(S, g, o) = Count(S, f, o) - Count(P, f, o)
<1> DEFINE gone == At(P, f, o)
<1>1. IsFiniteSet(At(S, f, o))
  <2>1. At(S, f, o) \subseteq S
    BY DEF At
  <2>2. QED
    BY <2>1, FS_Subset
<1>2. At(S, g, o) = At(S, f, o) \ gone /\ At(S, f, o) \cap gone = gone
  BY DEF At, DropsOn
<1>3. Cardinality(At(S, f, o) \ gone)
        = Cardinality(At(S, f, o)) - Cardinality(At(S, f, o) \cap gone)
  BY <1>1, FS_Difference
<1>4. QED
  BY <1>2, <1>3 DEF Count

\* A process dies: what its segments held is closed, the name stays.
LEMMA CrashInv ==
    ASSUME ShmInv, NEW proc \in SUBSET ShmSlots, ShmCrash(proc)
    PROVE  ShmInv'
<1>1. /\ fds' = [o \in ShmObjects |-> fds[o] - Cardinality({s \in proc : seg[s].fd = o})]
      /\ maps' = [o \in ShmObjects |-> maps[o] - Cardinality({s \in proc : seg[s].map = o})]
      /\ seg' = [s \in ShmSlots |-> IF s \in proc THEN ShmBlank ELSE seg[s]]
      /\ UNCHANGED <<sdir, ssize, clash, again>>
  BY DEF ShmCrash
<1>2. /\ seg \in [ShmSlots -> Segment] /\ fds \in [ShmObjects -> Int]
      /\ maps \in [ShmObjects -> Int]
  BY DEF ShmInv, ShmTypes
<1>3. /\ seg' \in [ShmSlots -> Segment] /\ \A x \in proc : seg'[x] = ShmBlank
      /\ \A x \in ShmSlots \ proc : seg'[x] = seg[x]
  BY <1>1, <1>2, BlankSegment
<1>4. Phases'
  BY <1>3, BlankSegment DEF ShmInv, Phases
<1>5. /\ \A x \in ShmSlots \ proc : FdOf'[x] = FdOf[x] /\ MapOf'[x] = MapOf[x]
      /\ \A x \in proc : FdOf'[x] = 0 /\ MapOf'[x] = 0
      /\ \A o : At(proc, FdOf, o) = {x \in proc : seg[x].fd = o}
      /\ \A o : At(proc, MapOf, o) = {x \in proc : seg[x].map = o}
  BY <1>3, BlankSegment DEF FdOf, MapOf, At
<1>6. ASSUME NEW o \in ShmObjects
      PROVE  /\ Count(ShmSlots, FdOf', o) = fds'[o]
             /\ Count(ShmSlots, MapOf', o) = maps'[o]
  <2>1. DropsOn(ShmSlots, proc, FdOf, FdOf', o) /\ DropsOn(ShmSlots, proc, MapOf, MapOf', o)
    BY <1>5, ShmAssumption DEF DropsOn
  <2>2. Count(ShmSlots, FdOf', o) = Count(ShmSlots, FdOf, o) - Count(proc, FdOf, o)
    BY <2>1, SlotsFinite, CrashedCount
  <2>3. Count(ShmSlots, MapOf', o) = Count(ShmSlots, MapOf, o) - Count(proc, MapOf, o)
    BY <2>1, SlotsFinite, CrashedCount
  <2>4. Count(ShmSlots, FdOf, o) = fds[o] /\ Count(ShmSlots, MapOf, o) = maps[o]
    BY DEF ShmInv, Counted
  <2>5. QED
    BY <1>1, <1>5, <2>2, <2>3, <2>4 DEF Count
<1>7. Counted'
  BY <1>6 DEF Counted
<1>8. fds' \in [ShmObjects -> Int] /\ maps' \in [ShmObjects -> Int]
  <2>1. IsFiniteSet(proc)
    BY SlotsFinite, FS_Subset
  <2> DEFINE F(o) == Cardinality({s \in proc : seg[s].fd = o})
             M(o) == Cardinality({s \in proc : seg[s].map = o})
  <2>2. ASSUME NEW o \in ShmObjects PROVE F(o) \in Int /\ M(o) \in Int
    <3>1. /\ IsFiniteSet({s \in proc : seg[s].fd = o})
          /\ IsFiniteSet({s \in proc : seg[s].map = o})
      BY <2>1, FS_Subset
    <3>2. QED
      BY <3>1, FS_CardinalityType
  <2>3. /\ fds' = [o \in ShmObjects |-> fds[o] - F(o)]
        /\ maps' = [o \in ShmObjects |-> maps[o] - M(o)]
    BY <1>1
  <2> HIDE DEF F, M
  <2>4. QED
    BY <1>2, <2>2, <2>3
<1>9. ShmTypes'
  BY <1>1, <1>3, <1>8 DEF ShmInv, ShmTypes
<1>10. ASSUME ~clash, ~again, NEW x \in ShmSlots PROVE SizeKnown(seg[x])'
  <2>1. CASE x \in proc
    BY <1>3, <2>1, BlankSegment DEF SizeKnown
  <2>2. CASE x \notin proc
    BY <1>1, <1>3, <1>10, <2>2 DEF SizeKnown, ShmInv, NameOwned
  <2>3. QED
    BY <2>1, <2>2
<1>11. \A x \in ShmSlots : Creating(seg'[x]) => seg'[x] = seg[x]
  BY <1>3, BlankSegment
<1>12. NameOwned'
  BY <1>1, <1>10, <1>11 DEF ShmInv, NameOwned
<1>13. QED
  BY <1>4, <1>7, <1>9, <1>12 DEF ShmInv

\* Every step of the two processes.
LEMMA ShmInvStep ==
    ASSUME part = "shm" => ShmInv, [Next]_vars
    PROVE  (part = "shm" => ShmInv)'
<1>1. part' = part
  BY DEF Next, RestOf, vars
<1>2. SUFFICES ASSUME part = "shm" PROVE ShmInv'
  BY <1>1
<1>3. ShmNext \/ UNCHANGED shmVars
  BY <1>2 DEF Next, RestOf, vars
<1>4. CASE UNCHANGED shmVars
  BY <1>2, <1>4 DEF shmVars, ShmInv, ShmTypes, Phases, Counted, NameOwned, FdOf, MapOf, SizeKnown
<1>5. CASE ShmCrash(ProcA) \/ ShmCrash(ProcB)
  <2>1. ProcA \in SUBSET ShmSlots /\ ProcB \in SUBSET ShmSlots
    BY DEF ShmSlots
  <2>2. QED
    BY <1>2, <1>5, <2>1, CrashInv
<1>6. ASSUME NEW s \in ShmSlots,
             \/ ShmCreate(s) \/ ShmTruncate(s) \/ ShmMap(s) \/ ShmOpen(s) \/ ShmStat(s)
             \/ ShmDestroy(s) \/ ShmDestruct(s)
             \/ \E t \in ShmSlots : ShmMove(s, t)
      PROVE  ShmInv'
  BY <1>2, <1>6, CreateInv, TruncateInv, MapInv, OpenInv, StatInv, DestroyInv, MoveInv
<1>7. QED
  BY <1>3, <1>4, <1>5, <1>6 DEF ShmNext

\* SharedMemorySegment: every descriptor and every mapping the system holds is the
\* one of exactly one segment variable, through failed calls, moves, repeated
\* Destroy and crashes, for any number of segments and objects.
THEOREM SharedDescriptorsKept == Spec => []DescriptorsKept
<1>1. Init => (part = "shm" => ShmInv)
  BY ShmInvInit DEF Init
<1>2. (part = "shm" => ShmInv) => DescriptorsKept
  BY ShmInvSound DEF DescriptorsKept
<1>3. QED
  BY <1>1, <1>2, ShmInvStep, PTL DEF Spec

\* SharedMemorySegment: until a Create meets an existing object or a segment
\* unlinks the name again, the name leads to the memory of the live creator and no
\* mapping is longer than its object.
THEOREM SharedNameKept == Spec => []NameKept
<1>1. Init => (part = "shm" => ShmInv)
  BY ShmInvInit DEF Init
<1>2. (part = "shm" => ShmInv) => NameKept
  BY ShmInvSound DEF NameKept
<1>3. QED
  BY <1>1, <1>2, ShmInvStep, PTL DEF Spec

-----------------------------------------------------------------------------
(* Handles and the memory they free.  A heap on A, the handles H of the    *)
(* slots S and the addresses L that the client must free: every block has  *)
(* one owner, and a handle frees its block on the block's device.          *)
Owning(A, S, heap, H, L) ==
    /\ L \subseteq A
    /\ \A s \in S : H[s].data \in A \cup {Null}
    /\ \A s, t \in S : Claims(H[s]) /\ Claims(H[t]) /\ H[s].data = H[t].data => s = t
    /\ \A s \in S : Claims(H[s]) => H[s].data \notin L /\ heap[H[s].data].dev = H[s].fn
    /\ \A a \in A : heap[a].dev # Null
                      <=> (a \in L \/ \E s \in S : Claims(H[s]) /\ H[s].data = a)

\* Exactly one owner, or none.
LEMMA OneOwnerCounted ==
    ASSUME NEW A, NEW S, NEW heap, NEW H, NEW L, Owning(A, S, heap, H, L), NEW a \in A
    PROVE  Cardinality({s \in S : Claims(H[s]) /\ H[s].data = a}) + (IF a \in L THEN 1 ELSE 0)
             = (IF heap[a].dev = Null THEN 0 ELSE 1)
<1> DEFINE O == {s \in S : Claims(H[s]) /\ H[s].data = a}
<1>1. CASE O = {}
  <2>1. Cardinality(O) = 0
    BY <1>1, FS_EmptySet
  <2>2. heap[a].dev # Null <=> a \in L
    BY <1>1 DEF Owning
  <2> HIDE DEF O
  <2>3. QED
    BY <2>1, <2>2 DEF O
<1>2. CASE O # {}
  <2>1. PICK s \in O : TRUE
    BY <1>2
  <2>2. O = {s}
    BY <2>1 DEF Owning
  <2>3. Cardinality(O) = 1
    BY <2>2, FS_Singleton
  <2>4. heap[a].dev # Null /\ a \notin L
    BY <2>1 DEF Owning
  <2> HIDE DEF O
  <2>5. QED
    BY <2>3, <2>4 DEF O
<1>3. QED
  BY <1>1, <1>2

AgreeOff(S, s, H, G) == \A x \in S : x # s => G[x] = H[x]

\* Handle s frees its block, if it has one, and owns nothing afterwards.
LEMMA OwnFreed ==
    ASSUME NEW A, NEW S, NEW heap, NEW H, NEW L, Owning(A, S, heap, H, L),
           NEW s \in S, NEW h2, NEW G,
           AgreeOff(S, s, H, G), G[s].data \in A \cup {Null}, ~Claims(G[s]),
           \A a \in A : ~(Claims(H[s]) /\ a = H[s].data) => h2[a].dev = heap[a].dev,
           Claims(H[s]) => h2[H[s].data].dev = Null
    PROVE  Owning(A, S, h2, G, L)
BY DEF Owning, AgreeOff, Claims

\* Handle s, which owned nothing, is given block a.
LEMMA OwnGiven ==
    ASSUME NEW A, NEW S, NEW heap, NEW H, NEW L, Owning(A, S, heap, H, L),
           NEW s \in S, NEW h2, NEW G, NEW a \in A,
           AgreeOff(S, s, H, G), ~Claims(H[s]), heap[a].dev = Null,
           G[s].data = a, Claims(G[s]),
           AgreeOff(A, a, heap, h2), h2[a].dev = G[s].fn
    PROVE  Owning(A, S, h2, G, L)
BY DEF Owning, AgreeOff, Claims

\* The client is given block a, and frees it.
LEMMA OwnLent ==
    ASSUME NEW A, NEW S, NEW heap, NEW H, NEW L, Owning(A, S, heap, H, L),
           NEW h2, NEW a \in A, AgreeOff(A, a, heap, h2)
    PROVE  /\ heap[a].dev = Null /\ h2[a].dev # Null => Owning(A, S, h2, H, L \cup {a})
           /\ a \in L /\ h2[a].dev = Null => Owning(A, S, h2, H, L \ {a})
<1>1. ASSUME heap[a].dev = Null, h2[a].dev # Null
      PROVE  Owning(A, S, h2, H, L \cup {a})
  BY <1>1 DEF Owning, AgreeOff, Claims
<1>2. ASSUME a \in L, h2[a].dev = Null
      PROVE  Owning(A, S, h2, H, L \ {a})
  BY <1>2 DEF Owning, AgreeOff, Claims
<1>3. QED
  BY <1>1, <1>2

\* Handle s lets go of its block, and takes over a block of the client's.
LEMMA OwnPassed ==
    ASSUME NEW A, NEW S, NEW heap, NEW H, NEW L, Owning(A, S, heap, H, L),
           NEW s \in S, NEW G, AgreeOff(S, s, H, G), G[s].data \in A \cup {Null}
    PROVE  /\ Claims(H[s]) /\ ~Claims(G[s]) => Owning(A, S, heap, G, L \cup {H[s].data})
           /\ ~Claims(H[s]) /\ ~Claims(G[s]) => Owning(A, S, heap, G, L)
           /\ ~Claims(H[s]) /\ Claims(G[s]) /\ G[s].data \in L /\ G[s].fn = heap[G[s].data].dev
                => Owning(A, S, heap, G, L \ {G[s].data})
<1>1. ASSUME Claims(H[s]), ~Claims(G[s])
      PROVE  Owning(A, S, heap, G, L \cup {H[s].data})
  BY <1>1 DEF Owning, AgreeOff, Claims
<1>2. ASSUME ~Claims(H[s]), ~Claims(G[s])
      PROVE  Owning(A, S, heap, G, L)
  BY <1>2 DEF Owning, AgreeOff, Claims
<1>3. ASSUME ~Claims(H[s]), Claims(G[s]), G[s].data \in L, G[s].fn = heap[G[s].data].dev
      PROVE  Owning(A, S, heap, G, L \ {G[s].data})
  BY <1>3 DEF Owning, AgreeOff, Claims
<1>4. QED
  BY <1>1, <1>2, <1>3

\* Handle s, which owned nothing, takes over what t has.
LEMMA OwnMoved ==
    ASSUME NEW A, NEW S, NEW heap, NEW H, NEW L, Owning(A, S, heap, H, L),
           NEW s \in S, NEW t \in S, s # t, NEW G,
           \A x \in S \ {s, t} : G[x] = H[x],
           ~Claims(H[s]), G[s] = H[t], ~Claims(G[t]), G[t].data \in A \cup {Null}
    PROVE  Owning(A, S, heap, G, L)
BY DEF Owning, Claims

\* The address a device answers with is free, or null.
LEMMA AllocatedFree ==
    ASSUME NEW heap, NEW d, NEW a \in DeviceAllocate(heap, d)
    PROVE  a = Null \/ (a \in DOMAIN heap /\ heap[a].dev = Null)
BY DEF DeviceAllocate

-----------------------------------------------------------------------------
(* Buffers: besides, a handle knows how large its block is.                *)
BufBlock == [dev : BufDevices \cup {Null}, bytes : Nat]

BufHandle ==
    [data : BufAddrs \cup {Null}, bytes : Nat, ptr : BufDevices \cup {Null},
     fn : BufDevices \cup {Null}, num : Nat]

BufOK(heap, H, L) ==
    /\ heap \in [BufAddrs -> BufBlock] /\ H \in [BufSlots -> BufHandle]
    /\ Owning(BufAddrs, BufSlots, heap, H, L)
    /\ \A a \in BufAddrs : heap[a].dev = Null => heap[a] = Free
    /\ \A s \in BufSlots : Claims(H[s]) => /\ heap[H[s].data].bytes = H[s].bytes
                                           /\ H[s].num <= H[s].bytes

BufInv == BufOK(bheap, buf, loose)

\* No memory at all.
LEMMA NoBufHandle ==
    /\ NoHandle \in BufHandle /\ ~Claims(NoHandle) /\ NoHandle.num = 0
    /\ NoHandle.data = Null
    /\ Free \in BufBlock /\ Free.dev = Null
BY BufAssumption DEF NoHandle, BufHandle, Claims, Free, BufBlock

\* The invariant says what the property says.
LEMMA BufInvSound ==
    ASSUME BufInv
    PROVE  BuffersOwned
<1>1. \A a \in BufAddrs : bheap[a] = Free <=> bheap[a].dev = Null
  BY NoBufHandle DEF BufInv, BufOK
<1>2. Owning(BufAddrs, BufSlots, bheap, buf, loose)
  BY DEF BufInv, BufOK
<1>3. ASSUME NEW a \in BufAddrs
      PROVE  Cardinality({s \in BufSlots : Claims(buf[s]) /\ buf[s].data = a})
               + (IF a \in loose THEN 1 ELSE 0) = (IF bheap[a] = Free THEN 0 ELSE 1)
  BY <1>1, <1>2, OneOwnerCounted
<1>4. ASSUME NEW s \in BufSlots, Claims(buf[s])
      PROVE  bheap[buf[s].data].dev = buf[s].fn /\ bheap[buf[s].data].bytes >= buf[s].num
  <2>1. bheap[buf[s].data].dev = buf[s].fn
    BY <1>2, <1>4 DEF Owning
  <2>2. /\ bheap[buf[s].data].bytes = buf[s].bytes /\ buf[s].num <= buf[s].bytes
        /\ buf[s].bytes \in Nat /\ buf[s].num \in Nat
    BY <1>4 DEF BufInv, BufOK, BufHandle
  <2>3. QED
    BY <2>1, <2>2
<1>5. QED
  BY <1>3, <1>4 DEF BuffersOwned

\* Nothing is allocated at first.
LEMMA BufInvInit ==
    ASSUME BufInit
    PROVE  BufInv
<1>1. /\ bheap = [a \in BufAddrs |-> Free] /\ buf = [s \in BufSlots |-> NoHandle]
      /\ loose = {}
  BY DEF BufInit
<1>2. /\ \A a \in BufAddrs : bheap[a] = Free
      /\ \A s \in BufSlots : buf[s] = NoHandle
      /\ bheap \in [BufAddrs -> BufBlock] /\ buf \in [BufSlots -> BufHandle]
  BY <1>1, NoBufHandle
<1>3. Owning(BufAddrs, BufSlots, bheap, buf, loose)
  BY <1>1, <1>2, NoBufHandle DEF Owning
<1>4. QED
  BY <1>2, <1>3, NoBufHandle DEF BufInv, BufOK

\* An object frees its memory and owns nothing.
LEMMA BufFreed ==
    ASSUME NEW heap, NEW H, NEW L, BufOK(heap, H, L), NEW s \in BufSlots,
           NEW e \in BufHandle, ~Claims(e)
    PROVE  BufOK(Dealloc(heap, H[s], Free), [H EXCEPT ![s] = e], L)
<1> DEFINE h2 == Dealloc(heap, H[s], Free)
           G == [H EXCEPT ![s] = e]
<1>1. /\ heap \in [BufAddrs -> BufBlock] /\ H \in [BufSlots -> BufHandle]
      /\ Owning(BufAddrs, BufSlots, heap, H, L)
  BY DEF BufOK
<1>2. h2 \in [BufAddrs -> BufBlock] /\ G \in [BufSlots -> BufHandle]
  BY <1>1, NoBufHandle DEF Dealloc
<1>3. Claims(H[s]) => H[s].data \in BufAddrs
  BY <1>1 DEF Owning, Claims
<1>4. /\ \A a \in BufAddrs : ~(Claims(H[s]) /\ a = H[s].data) => h2[a] = heap[a]
      /\ Claims(H[s]) => h2[H[s].data] = Free
  BY <1>1, <1>3 DEF Dealloc
<1>5. AgreeOff(BufSlots, s, H, G) /\ G[s] = e /\ e.data \in BufAddrs \cup {Null}
  BY <1>1 DEF AgreeOff, BufHandle
<1> HIDE DEF h2, G
<1>6. Owning(BufAddrs, BufSlots, h2, G, L)
  <2>1. /\ \A a \in BufAddrs : ~(Claims(H[s]) /\ a = H[s].data) => h2[a].dev = heap[a].dev
        /\ Claims(H[s]) => h2[H[s].data].dev = Null
    BY <1>4, NoBufHandle
  <2>2. QED
    BY <1>1, <1>5, <2>1, OwnFreed
<1>7. \A a \in BufAddrs : h2[a].dev = Null => h2[a] = Free
  BY <1>4 DEF BufOK
<1>8. ASSUME NEW x \in BufSlots, Claims(G[x])
      PROVE  h2[G[x].data].bytes = G[x].bytes /\ G[x].num <= G[x].bytes
  <2>1. x # s /\ G[x] = H[x] /\ Claims(H[x])
    BY <1>5, <1>8 DEF AgreeOff
  <2>2. H[x].data \in BufAddrs /\ ~(Claims(H[s]) /\ H[x].data = H[s].data)
    BY <1>1, <2>1 DEF Owning, Claims
  <2>3. h2[H[x].data] = heap[H[x].data]
    BY <1>4, <2>2
  <2>4. QED
    BY <2>1, <2>3 DEF BufOK
<1>9. QED
  BY <1>2, <1>6, <1>7, <1>8 DEF BufOK, h2, G

\* An object that owns nothing is given a block.
LEMMA BufGiven ==
    ASSUME NEW heap, NEW H, NEW L, BufOK(heap, H, L), NEW s \in BufSlots, ~Claims(H[s]),
           NEW a \in BufAddrs, heap[a].dev = Null, NEW d \in BufDevices, NEW n \in Nat,
           NEW e \in BufHandle, e.data = a, e.fn = d, e.bytes = n, e.num <= n
    PROVE  BufOK([heap EXCEPT ![a] = [dev |-> d, bytes |-> n]], [H EXCEPT ![s] = e], L)
<1> DEFINE b == [dev |-> d, bytes |-> n]
           h2 == [heap EXCEPT ![a] = b]
           G == [H EXCEPT ![s] = e]
<1>1. /\ heap \in [BufAddrs -> BufBlock] /\ H \in [BufSlots -> BufHandle]
      /\ Owning(BufAddrs, BufSlots, heap, H, L)
  BY DEF BufOK
<1>2. b \in BufBlock /\ b.dev = d /\ b.bytes = n /\ d # Null
  BY BufAssumption DEF BufBlock
<1> HIDE DEF b
<1>3. h2 \in [BufAddrs -> BufBlock] /\ G \in [BufSlots -> BufHandle]
  BY <1>1, <1>2
<1>4. AgreeOff(BufAddrs, a, heap, h2) /\ h2[a] = b
  BY <1>1 DEF AgreeOff
<1>5. AgreeOff(BufSlots, s, H, G) /\ G[s] = e /\ Claims(e)
  BY <1>1, <1>2, BufAssumption DEF AgreeOff, Claims
<1> HIDE DEF h2, G
<1>6. Owning(BufAddrs, BufSlots, h2, G, L)
  BY <1>1, <1>2, <1>4, <1>5, OwnGiven
<1>7. \A x \in BufAddrs : h2[x].dev = Null => h2[x] = Free
  BY <1>2, <1>4 DEF BufOK, AgreeOff
<1>8. ASSUME NEW x \in BufSlots, Claims(G[x])
      PROVE  h2[G[x].data].bytes = G[x].bytes /\ G[x].num <= G[x].bytes
  <2>1. CASE x = s
    BY <1>2, <1>4, <1>5, <2>1
  <2>2. CASE x # s
    <3>1. G[x] = H[x] /\ Claims(H[x])
      BY <1>5, <1>8, <2>2 DEF AgreeOff
    <3>2. H[x].data \in BufAddrs /\ heap[H[x].data].dev # Null
      BY <1>1, <3>1 DEF Owning, Claims
    <3>3. h2[H[x].data] = heap[H[x].data]
      BY <1>4, <3>2 DEF AgreeOff
    <3>4. QED
      BY <3>1, <3>3 DEF BufOK
  <2>3. QED
    BY <2>1, <2>2
<1>9. QED
  BY <1>3, <1>6, <1>7, <1>8 DEF BufOK, h2, G, b

\* An object takes over a temporary with the memory it was given, if any, and
\* frees its own.
LEMMA BufAssigned ==
    ASSUME NEW heap, NEW H, NEW L, BufOK(heap, H, L), NEW s \in BufSlots,
           NEW d \in BufDevices, NEW n \in Nat, NEW a \in DeviceAllocate(heap, d),
           NEW e \in BufHandle, e.data = a, e.fn = d, e.bytes = n, e.num <= n
    PROVE  BufOK(Dealloc(Given(heap, a, [dev |-> d, bytes |-> n]), H[s], Free),
                 [H EXCEPT ![s] = e], L)
<1> DEFINE b == [dev |-> d, bytes |-> n]
<1>1. CASE a = Null
  <2>1. ~Claims(e) /\ Given(heap, a, b) = heap
    BY <1>1 DEF Claims, Given
  <2>2. QED
    BY <2>1, BufFreed
<1>2. CASE a # Null
  <2> DEFINE h1 == Dealloc(heap, H[s], Free)
             G1 == [H EXCEPT ![s] = NoHandle]
  <2>1. /\ heap \in [BufAddrs -> BufBlock] /\ H \in [BufSlots -> BufHandle]
        /\ Owning(BufAddrs, BufSlots, heap, H, L)
    BY DEF BufOK
  <2>2. a \in BufAddrs /\ heap[a].dev = Null
    BY <1>2, <2>1, AllocatedFree
  <2>3. BufOK(h1, G1, L)
    BY BufFreed, NoBufHandle
  <2>4. Claims(H[s]) => H[s].data \in BufAddrs /\ H[s].data # a
    BY <2>1, <2>2 DEF Owning, Claims
  <2>5. h1[a].dev = Null /\ G1[s] = NoHandle
    BY <2>1, <2>2, <2>4 DEF Dealloc
  <2> HIDE DEF b
  <2>6. Dealloc(Given(heap, a, b), H[s], Free) = [h1 EXCEPT ![a] = b]
    BY <1>2, <2>1, <2>4 DEF Dealloc, Given
  <2>7. [H EXCEPT ![s] = e] = [G1 EXCEPT ![s] = e]
    BY <2>1
  <2> HIDE DEF h1, G1
  <2>8. BufOK([h1 EXCEPT ![a] = b], [G1 EXCEPT ![s] = e], L)
    BY <2>2, <2>3, <2>5, NoBufHandle, BufGiven DEF b
  <2>9. QED
    BY <2>6, <2>7, <2>8 DEF b
<1>3. QED
  BY <1>1, <1>2

\* A new handle of a device's memory.
LEMMA FreshBuf ==
    ASSUME NEW d \in BufDevices, NEW n \in Nat, NEW a \in BufAddrs \cup {Null}
    PROVE  /\ Fresh(d, n, a) \in BufHandle /\ Fresh(d, n, a).data = a
           /\ Fresh(d, n, a).fn = d /\ Fresh(d, n, a).bytes = n /\ Fresh(d, n, a).num = 0
<1> DEFINE e0 == NoHandle
           e1 == [e0 EXCEPT !.data = a]
           e2 == [e1 EXCEPT !.bytes = n]
           e3 == [e2 EXCEPT !.ptr = d]
           e4 == [e3 EXCEPT !.fn = d]
<1>0. Fresh(d, n, a) = e4
  BY DEF Fresh
<1> HIDE DEF e4
<1>1. e0 \in BufHandle /\ e0.num = 0
  BY NoBufHandle
<1> HIDE DEF e0
<1>2. e1 \in BufHandle /\ e1.data = a /\ e1.num = 0
  BY <1>1 DEF BufHandle
<1> HIDE DEF e1
<1>3. e2 \in BufHandle /\ e2.data = a /\ e2.bytes = n /\ e2.num = 0
  BY <1>2 DEF BufHandle
<1> HIDE DEF e2
<1>4. e3 \in BufHandle /\ e3.data = a /\ e3.bytes = n /\ e3.num = 0
  BY <1>3 DEF BufHandle
<1> HIDE DEF e3
<1>5. e4 \in BufHandle /\ e4.data = a /\ e4.bytes = n /\ e4.num = 0 /\ e4.fn = d
  BY <1>4 DEF BufHandle, e4
<1>6. QED
  BY <1>0, <1>5

\* The same with a shape.
LEMMA NumberedBuf ==
    ASSUME NEW h \in BufHandle, NEW num \in Nat
    PROVE  /\ [h EXCEPT !.num = num] \in BufHandle
           /\ [h EXCEPT !.num = num].data = h.data /\ [h EXCEPT !.num = num].fn = h.fn
           /\ [h EXCEPT !.num = num].bytes = h.bytes /\ [h EXCEPT !.num = num].num = num
BY DEF BufHandle

\* A handle that was moved from or reset.
LEMMA EmptiedBuf ==
    ASSUME NEW h \in BufHandle
    PROVE  /\ Emptied(h) \in BufHandle /\ ~Claims(Emptied(h)) /\ Emptied(h).data = Null
BY DEF Emptied, BufHandle, Claims

\* An object that owns nothing takes over what another one has.
LEMMA BufMoved ==
    ASSUME NEW heap, NEW H, NEW L, BufOK(heap, H, L), NEW s \in BufSlots, NEW t \in BufSlots,
           s # t, ~Claims(H[s]), NEW e \in BufHandle, ~Claims(e)
    PROVE  BufOK(heap, [H EXCEPT ![s] = H[t], ![t] = e], L)
<1> DEFINE G == [H EXCEPT ![s] = H[t], ![t] = e]
<1>1. /\ heap \in [BufAddrs -> BufBlock] /\ H \in [BufSlots -> BufHandle]
      /\ Owning(BufAddrs, BufSlots, heap, H, L)
  BY DEF BufOK
<1>2. /\ G \in [BufSlots -> BufHandle] /\ G[s] = H[t] /\ G[t] = e
      /\ \A x \in BufSlots \ {s, t} : G[x] = H[x]
  BY <1>1
<1>3. e.data \in BufAddrs \cup {Null}
  BY DEF BufHandle
<1> HIDE DEF G
<1>4. Owning(BufAddrs, BufSlots, heap, G, L)
  BY <1>1, <1>2, <1>3, OwnMoved
<1>5. \A x \in BufSlots : Claims(G[x]) => /\ heap[G[x].data].bytes = G[x].bytes
                                          /\ G[x].num <= G[x].bytes
  BY <1>2 DEF BufOK
<1>6. QED
  BY <1>1, <1>2, <1>4, <1>5 DEF BufOK, G

\* Creation, reset and destruction.
LEMMA BufSimpleInv ==
    ASSUME BufInv, NEW s \in BufSlots, BufMake(s) \/ BufReset(s) \/ BufDestroy(s)
    PROVE  BufInv'
<1>1. BufOK(bheap, buf, loose) /\ bheap \in [BufAddrs -> BufBlock]
      /\ buf[s] \in BufHandle
  BY DEF BufInv, BufOK
<1>2. CASE BufMake(s)
  <2>0. PICK d \in BufDevices, n \in Sizes, num \in {0} \cup Sizes :
          \E a \in DeviceAllocate(bheap, d) :
            /\ num \in {0, n}
            /\ TakeOver(s, [Fresh(d, n, a) EXCEPT !.num = num],
                        Given(bheap, a, [dev |-> d, bytes |-> n]))
            /\ loose' = loose
    BY <1>2 DEF BufMake
  <2>1. PICK a \in DeviceAllocate(bheap, d) :
          /\ num \in {0, n}
          /\ TakeOver(s, [Fresh(d, n, a) EXCEPT !.num = num],
                      Given(bheap, a, [dev |-> d, bytes |-> n]))
          /\ loose' = loose
    BY <2>0
  <2>2. n \in Nat /\ num \in Nat /\ num <= n
    BY <2>1, BufAssumption
  <2>3. a \in BufAddrs \cup {Null}
    BY <1>1, AllocatedFree
  <2> DEFINE e == [Fresh(d, n, a) EXCEPT !.num = num]
  <2>4. /\ e \in BufHandle /\ e.data = a /\ e.fn = d /\ e.bytes = n /\ e.num = num
    <3>1. Fresh(d, n, a) \in BufHandle
      BY <2>2, <2>3, FreshBuf
    <3>2. QED
      BY <2>2, <2>3, <3>1, FreshBuf, NumberedBuf
  <2> HIDE DEF e
  <2>5. /\ bheap' = Dealloc(Given(bheap, a, [dev |-> d, bytes |-> n]), buf[s], Free)
        /\ buf' = [buf EXCEPT ![s] = e]
    BY <2>1 DEF TakeOver, e
  <2>6. BufOK(Dealloc(Given(bheap, a, [dev |-> d, bytes |-> n]), buf[s], Free),
              [buf EXCEPT ![s] = e], loose)
    BY <1>1, <2>2, <2>4, BufAssigned
  <2>7. QED
    BY <2>1, <2>5, <2>6 DEF BufInv
<1>3. CASE BufReset(s)
  <2>1. BufOK(Dealloc(bheap, buf[s], Free), [buf EXCEPT ![s] = Emptied(buf[s])], loose)
    BY <1>1, EmptiedBuf, BufFreed
  <2>2. /\ bheap' = Dealloc(bheap, buf[s], Free) /\ buf' = [buf EXCEPT ![s] = Emptied(buf[s])]
        /\ loose' = loose
    BY <1>3 DEF BufReset
  <2>3. QED
    BY <2>1, <2>2 DEF BufInv
<1>4. CASE BufDestroy(s)
  <2>1. BufOK(Dealloc(bheap, buf[s], Free), [buf EXCEPT ![s] = NoHandle], loose)
    BY <1>1, NoBufHandle, BufFreed
  <2>2. /\ bheap' = Dealloc(bheap, buf[s], Free) /\ buf' = [buf EXCEPT ![s] = NoHandle]
        /\ loose' = loose
    BY <1>4 DEF BufDestroy
  <2>3. QED
    BY <2>1, <2>2 DEF BufInv
<1>5. QED
  BY <1>2, <1>3, <1>4

\* Moves and clones.
LEMMA BufPairInv ==
    ASSUME BufInv, NEW s \in BufSlots, NEW t \in BufSlots, BufMove(s, t) \/ BufClone(s, t)
    PROVE  BufInv'
<1>1. BufOK(bheap, buf, loose) /\ bheap \in [BufAddrs -> BufBlock]
      /\ buf \in [BufSlots -> BufHandle] /\ buf[s] \in BufHandle /\ buf[t] \in BufHandle
  BY DEF BufInv, BufOK
<1>2. CASE BufMove(s, t)
  <2>1. /\ s # t /\ bheap' = Dealloc(bheap, buf[s], Free) /\ loose' = loose
        /\ buf' = [buf EXCEPT ![s] = buf[t], ![t] = MovedFrom(buf[t])]
    BY <1>2 DEF BufMove
  <2> DEFINE h1 == Dealloc(bheap, buf[s], Free)
             G1 == [buf EXCEPT ![s] = NoHandle]
             e == Emptied(buf[t])
  <2>2. BufOK(h1, G1, loose)
    BY <1>1, NoBufHandle, BufFreed
  <2>3. G1[s] = NoHandle /\ G1[t] = buf[t]
    BY <1>1, <2>1
  <2>4. e \in BufHandle /\ ~Claims(e)
    BY <1>1, EmptiedBuf
  <2> HIDE DEF e
  <2>5. [G1 EXCEPT ![s] = G1[t], ![t] = e] = [buf EXCEPT ![s] = buf[t], ![t] = e]
    BY <1>1, <2>1, <2>3
  <2> HIDE DEF h1, G1
  <2>6. BufOK(h1, [G1 EXCEPT ![s] = G1[t], ![t] = e], loose)
    BY <2>1, <2>2, <2>3, <2>4, NoBufHandle, BufMoved
  <2>7. QED
    BY <2>1, <2>5, <2>6 DEF BufInv, MovedFrom, h1, e
<1>3. CASE BufClone(s, t)
  <2>1. PICK d : d = buf[s].ptr
    OBVIOUS
  <2>2. PICK n : n = buf[s].bytes
    OBVIOUS
  <2>3. PICK a \in DeviceAllocate(bheap, d) :
          /\ bheap' = Dealloc(Given(bheap, a, [dev |-> d, bytes |-> n]), buf[t], Free)
          /\ buf' = [buf EXCEPT ![t] = Fresh(d, n, a)]
    BY <1>3, <2>1, <2>2 DEF BufClone
  <2>4. d \in BufDevices /\ n \in Nat /\ loose' = loose
    BY <1>1, <1>3, <2>1, <2>2 DEF BufClone, BufHandle
  <2>5. a \in BufAddrs \cup {Null}
    BY <1>1, AllocatedFree
  <2>6. BufOK(Dealloc(Given(bheap, a, [dev |-> d, bytes |-> n]), buf[t], Free),
              [buf EXCEPT ![t] = Fresh(d, n, a)], loose)
    <3> DEFINE e == Fresh(d, n, a)
    <3>1. e \in BufHandle /\ e.data = a /\ e.fn = d /\ e.bytes = n /\ e.num <= n
      BY <2>4, <2>5, FreshBuf
    <3> HIDE DEF e
    <3>2. BufOK(Dealloc(Given(bheap, a, [dev |-> d, bytes |-> n]), buf[t], Free),
                [buf EXCEPT ![t] = e], loose)
      BY <1>1, <2>4, <3>1, BufAssigned
    <3>3. QED
      BY <3>2 DEF e
  <2>7. QED
    BY <2>3, <2>4, <2>6 DEF BufInv
<1>4. QED
  BY <1>2, <1>3

\* resize: in place, or new memory after the old was freed.
LEMMA BufResizeInv ==
    ASSUME BufInv, NEW s \in BufSlots, BufResize(s)
    PROVE  BufInv'
<1>1. BufOK(bheap, buf, loose) /\ bheap \in [BufAddrs -> BufBlock]
      /\ buf \in [BufSlots -> BufHandle] /\ buf[s] \in BufHandle
      /\ Owning(BufAddrs, BufSlots, bheap, buf, loose)
  BY DEF BufInv, BufOK
<1> DEFINE kept == Dealloc(bheap, buf[s], Free)
<1>2. PICK d \in BufDevices, n \in Sizes :
         /\ IF n > buf[s].bytes
            THEN \E a \in DeviceAllocate(kept, d) :
                   /\ bheap' = Given(kept, a, [dev |-> d, bytes |-> n])
                   /\ buf' = [buf EXCEPT ![s] = [Fresh(d, n, a) EXCEPT !.num = n]]
            ELSE buf' = [buf EXCEPT ![s].num = n] /\ UNCHANGED bheap
         /\ loose' = loose
  BY DEF BufResize
<1>3. n \in Nat /\ buf[s].bytes \in Nat
  BY <1>1, BufAssumption DEF BufHandle
<1>4. CASE n > buf[s].bytes
  <2>1. PICK a \in DeviceAllocate(kept, d) :
          /\ bheap' = Given(kept, a, [dev |-> d, bytes |-> n])
          /\ buf' = [buf EXCEPT ![s] = [Fresh(d, n, a) EXCEPT !.num = n]]
    BY <1>2, <1>4
  <2> DEFINE G1 == [buf EXCEPT ![s] = NoHandle]
             e == [Fresh(d, n, a) EXCEPT !.num = n]
  <2>2. BufOK(kept, G1, loose)
    BY <1>1, NoBufHandle, BufFreed
  <2>3. G1[s] = NoHandle /\ \A f : [G1 EXCEPT ![s] = f] = [buf EXCEPT ![s] = f]
    BY <1>1
  <2> HIDE DEF kept, G1
  <2>4. kept \in [BufAddrs -> BufBlock]
    BY <2>2 DEF BufOK
  <2>5. a = Null \/ (a \in BufAddrs /\ kept[a].dev = Null)
    BY <2>4, AllocatedFree
  <2>6. /\ e \in BufHandle /\ e.data = a /\ e.fn = d /\ e.bytes = n /\ e.num = n
    <3>1. Fresh(d, n, a) \in BufHandle
      BY <1>3, <2>5, FreshBuf
    <3>2. QED
      BY <1>3, <2>5, <3>1, FreshBuf, NumberedBuf
  <2> HIDE DEF e
  <2>7. CASE a = Null
    <3>1. ~Claims(e) /\ bheap' = kept
      BY <2>1, <2>6, <2>7 DEF Claims, Given
    <3>2. BufOK(bheap, buf, loose)
      BY <1>1
    <3>3. BufOK(Dealloc(bheap, buf[s], Free), [buf EXCEPT ![s] = e], loose)
      BY <2>6, <3>1, <3>2, BufFreed
    <3>4. QED
      BY <1>2, <2>1, <3>1, <3>3 DEF BufInv, kept, e
  <2>8. CASE a # Null
    <3>0. ~Claims(G1[s]) /\ a \in BufAddrs /\ kept[a].dev = Null /\ e.num <= n
      BY <1>3, <2>3, <2>5, <2>6, <2>8, NoBufHandle
    <3>1. BufOK([kept EXCEPT ![a] = [dev |-> d, bytes |-> n]], [G1 EXCEPT ![s] = e], loose)
      BY <1>3, <2>2, <2>6, <3>0, BufGiven
    <3>2. bheap' = [kept EXCEPT ![a] = [dev |-> d, bytes |-> n]]
      BY <2>1, <2>8 DEF Given
    <3>3. QED
      BY <1>2, <2>1, <2>3, <3>1, <3>2 DEF BufInv, e
  <2>9. QED
    BY <2>7, <2>8
<1>5. CASE ~(n > buf[s].bytes)
  <2> DEFINE e == [buf[s] EXCEPT !.num = n]
             G == [buf EXCEPT ![s] = e]
  <2>1. buf' = G /\ bheap' = bheap /\ loose' = loose
    BY <1>2, <1>5
  <2>2. /\ e \in BufHandle /\ e.data = buf[s].data /\ e.fn = buf[s].fn
        /\ e.bytes = buf[s].bytes /\ e.num = n
    BY <1>1, <1>3, NumberedBuf
  <2> HIDE DEF e
  <2>3. G \in [BufSlots -> BufHandle] /\ G[s] = e /\ \A x \in BufSlots : x # s => G[x] = buf[x]
    BY <1>1, <2>2
  <2> HIDE DEF G
  <2>4. \A x \in BufSlots : G[x].data = buf[x].data /\ G[x].fn = buf[x].fn
    BY <2>2, <2>3
  <2>5. Owning(BufAddrs, BufSlots, bheap, G, loose)
    BY <1>1, <2>4 DEF Owning, Claims
  <2>6. ASSUME NEW x \in BufSlots, Claims(G[x])
        PROVE  bheap[G[x].data].bytes = G[x].bytes /\ G[x].num <= G[x].bytes
    <3>1. Claims(buf[x])
      BY <2>4, <2>6 DEF Claims
    <3>2. bheap[buf[x].data].bytes = buf[x].bytes /\ buf[x].num <= buf[x].bytes
      BY <1>1, <3>1 DEF BufOK
    <3>3. QED
      BY <1>3, <1>5, <2>2, <2>3, <2>4, <3>2
  <2>7. BufOK(bheap, G, loose)
    BY <1>1, <2>3, <2>5, <2>6 DEF BufOK
  <2>8. QED
    BY <2>1, <2>7 DEF BufInv
<1>6. QED
  BY <1>4, <1>5

\* An object comes to own, or to borrow, what it did not allocate; or lets go.
LEMMA BufPassed ==
    ASSUME NEW heap, NEW H, NEW L, BufOK(heap, H, L), NEW s \in BufSlots,
           NEW e \in BufHandle
    PROVE  /\ Claims(H[s]) /\ ~Claims(e)
                => BufOK(heap, [H EXCEPT ![s] = e], L \cup {H[s].data})
           /\ ~Claims(H[s]) /\ ~Claims(e) => BufOK(heap, [H EXCEPT ![s] = e], L)
           /\ ~Claims(H[s]) /\ Claims(e) /\ e.data \in L /\ e.fn = heap[e.data].dev
              /\ heap[e.data].bytes = e.bytes /\ e.num <= e.bytes
                => BufOK(heap, [H EXCEPT ![s] = e], L \ {e.data})
<1> DEFINE G == [H EXCEPT ![s] = e]
<1>1. /\ heap \in [BufAddrs -> BufBlock] /\ H \in [BufSlots -> BufHandle]
      /\ Owning(BufAddrs, BufSlots, heap, H, L)
      /\ \A a \in BufAddrs : heap[a].dev = Null => heap[a] = Free
      /\ \A x \in BufSlots : Claims(H[x]) => /\ heap[H[x].data].bytes = H[x].bytes
                                             /\ H[x].num <= H[x].bytes
  BY DEF BufOK
<1>2. /\ G \in [BufSlots -> BufHandle] /\ AgreeOff(BufSlots, s, H, G) /\ G[s] = e
      /\ e.data \in BufAddrs \cup {Null}
  BY <1>1 DEF AgreeOff, BufHandle
<1> HIDE DEF G
<1>3. ASSUME Claims(H[s]), ~Claims(e) PROVE BufOK(heap, G, L \cup {H[s].data})
  <2>1. Owning(BufAddrs, BufSlots, heap, G, L \cup {H[s].data})
    BY <1>1, <1>2, <1>3, OwnPassed
  <2>2. QED
    BY <1>1, <1>2, <1>3, <2>1 DEF BufOK, AgreeOff
<1>4. ASSUME ~Claims(H[s]), ~Claims(e) PROVE BufOK(heap, G, L)
  <2>1. Owning(BufAddrs, BufSlots, heap, G, L)
    BY <1>1, <1>2, <1>4, OwnPassed
  <2>2. QED
    BY <1>1, <1>2, <1>4, <2>1 DEF BufOK, AgreeOff
<1>5. ASSUME ~Claims(H[s]), Claims(e), e.data \in L, e.fn = heap[e.data].dev,
             heap[e.data].bytes = e.bytes, e.num <= e.bytes
      PROVE  BufOK(heap, G, L \ {e.data})
  <2>1. Owning(BufAddrs, BufSlots, heap, G, L \ {e.data})
    BY <1>1, <1>2, <1>5, OwnPassed
  <2>2. QED
    BY <1>1, <1>2, <1>5, <2>1 DEF BufOK, AgreeOff
<1>6. QED
  BY <1>3, <1>4, <1>5 DEF G

\* What Adopted leaves of a handle.
LEMMA AdoptedFacts ==
    ASSUME NEW h \in BufHandle, NEW a \in BufAddrs, NEW fn \in BufDevices \cup {Null},
           bheap[a].bytes \in Nat
    PROVE  /\ Adopted(h, a, fn) \in BufHandle /\ Adopted(h, a, fn).data = a
           /\ Adopted(h, a, fn).fn = fn /\ Adopted(h, a, fn).bytes = bheap[a].bytes
           /\ Adopted(h, a, fn).num = h.num
<1> DEFINE n == bheap[a].bytes
           e1 == [h EXCEPT !.data = a]
           e2 == [e1 EXCEPT !.bytes = n]
           e3 == [e2 EXCEPT !.fn = fn]
<1>0. Adopted(h, a, fn) = e3 /\ n = bheap[a].bytes /\ n \in Nat
  BY DEF Adopted
<1> HIDE DEF n, e3
<1>1. e1 \in BufHandle /\ e1.data = a /\ e1.num = h.num
  BY DEF BufHandle
<1> HIDE DEF e1
<1>2. e2 \in BufHandle /\ e2.data = a /\ e2.bytes = n /\ e2.num = h.num
  BY <1>0, <1>1 DEF BufHandle
<1> HIDE DEF e2
<1>3. e3 \in BufHandle /\ e3.data = a /\ e3.bytes = n /\ e3.num = h.num /\ e3.fn = fn
  BY <1>2 DEF BufHandle, e3
<1>4. QED
  BY <1>0, <1>3

\* Adoption frees the old block first; the adopted one is the client's until then.
LEMMA BufAdoptInv ==
    ASSUME BufInv, NEW s \in BufSlots, BufAdopt(s)
    PROVE  BufInv'
<1>1. BufOK(bheap, buf, loose) /\ bheap \in [BufAddrs -> BufBlock]
      /\ buf \in [BufSlots -> BufHandle] /\ buf[s] \in BufHandle
      /\ Owning(BufAddrs, BufSlots, bheap, buf, loose)
  BY DEF BufInv, BufOK
<1>2. PICK a \in loose, owned \in BOOLEAN, constructed \in BOOLEAN :
        LET h == IF constructed THEN NoHandle ELSE buf[s] IN
        /\ bheap[a].bytes >= h.num
        /\ bheap' = Dealloc(bheap, buf[s], Free)
        /\ buf' = [buf EXCEPT ![s] = Adopted(h, a, IF owned THEN bheap[a].dev ELSE Null)]
        /\ loose' = IF owned THEN loose \ {a} ELSE loose
  BY DEF BufAdopt
<1>3. PICK h \in BufHandle : h = IF constructed THEN NoHandle ELSE buf[s]
  BY <1>1, NoBufHandle
<1>4. PICK fn : fn = IF owned THEN bheap[a].dev ELSE Null
  OBVIOUS
<1> DEFINE e == Adopted(h, a, fn)
<1>5. /\ bheap[a].bytes >= h.num /\ bheap' = Dealloc(bheap, buf[s], Free)
      /\ buf' = [buf EXCEPT ![s] = e]
      /\ loose' = IF owned THEN loose \ {a} ELSE loose
  BY <1>2, <1>3, <1>4
<1>6. /\ a \in BufAddrs /\ bheap[a].bytes \in Nat /\ bheap[a].dev # Null
      /\ bheap[a].dev \in BufDevices \cup {Null}
      /\ Claims(buf[s]) => buf[s].data # a /\ buf[s].data \in BufAddrs
  BY <1>1 DEF Owning, BufBlock, Claims
<1>7. fn \in BufDevices \cup {Null} /\ h.num \in Nat /\ (fn = Null \/ fn = bheap[a].dev)
  BY <1>4, <1>6 DEF BufHandle
<1>8. /\ e \in BufHandle /\ e.data = a /\ e.fn = fn /\ e.bytes = bheap[a].bytes
      /\ e.num <= e.bytes
  BY <1>5, <1>6, <1>7, AdoptedFacts
<1> HIDE DEF e
<1> DEFINE h1 == Dealloc(bheap, buf[s], Free)
           G1 == [buf EXCEPT ![s] = NoHandle]
<1>9. BufOK(h1, G1, loose)
  BY <1>1, NoBufHandle, BufFreed
<1>10. G1[s] = NoHandle /\ h1[a] = bheap[a] /\ [G1 EXCEPT ![s] = e] = [buf EXCEPT ![s] = e]
  BY <1>1, <1>6 DEF Dealloc
<1> HIDE DEF h1, G1
<1>11. CASE owned
  <2>1. fn = bheap[a].dev /\ loose' = loose \ {a}
    BY <1>4, <1>5, <1>11
  <2>2. Claims(e) /\ ~Claims(G1[s])
    BY <1>6, <1>8, <1>10, <2>1, NoBufHandle, BufAssumption DEF Claims
  <2>3. BufOK(h1, [G1 EXCEPT ![s] = e], loose \ {e.data})
    BY <1>8, <1>9, <1>10, <2>1, <2>2, BufPassed
  <2>4. QED
    BY <1>5, <1>8, <1>10, <2>1, <2>3 DEF BufInv, h1
<1>12. CASE ~owned
  <2>1. fn = Null /\ loose' = loose
    BY <1>4, <1>5, <1>12
  <2>2. ~Claims(e) /\ ~Claims(G1[s])
    BY <1>8, <1>10, <2>1, NoBufHandle DEF Claims
  <2>3. BufOK(h1, [G1 EXCEPT ![s] = e], loose)
    BY <1>8, <1>9, <2>2, BufPassed
  <2>4. QED
    BY <1>5, <1>10, <2>1, <2>3 DEF BufInv, h1
<1>13. QED
  BY <1>11, <1>12

\* detach makes the client the owner.
LEMMA BufDetachInv ==
    ASSUME BufInv, NEW s \in BufSlots, BufDetach(s)
    PROVE  BufInv'
<1>1. BufOK(bheap, buf, loose) /\ buf \in [BufSlots -> BufHandle] /\ buf[s] \in BufHandle
  BY DEF BufInv, BufOK
<1> DEFINE e == [buf[s] EXCEPT !.fn = Null]
<1>2. /\ buf' = [buf EXCEPT ![s] = e] /\ bheap' = bheap
      /\ loose' = IF Claims(buf[s]) THEN loose \cup {buf[s].data} ELSE loose
  BY DEF BufDetach
<1>3. e \in BufHandle /\ ~Claims(e)
  BY <1>1 DEF BufHandle, Claims
<1> HIDE DEF e
<1>4. CASE Claims(buf[s])
  <2>1. BufOK(bheap, [buf EXCEPT ![s] = e], loose \cup {buf[s].data})
    BY <1>1, <1>3, <1>4, BufPassed
  <2>2. QED
    BY <1>2, <1>4, <2>1 DEF BufInv
<1>5. CASE ~Claims(buf[s])
  <2>1. BufOK(bheap, [buf EXCEPT ![s] = e], loose)
    BY <1>1, <1>3, <1>5, BufPassed
  <2>2. QED
    BY <1>2, <1>5, <2>1 DEF BufInv
<1>6. QED
  BY <1>4, <1>5

\* The client's own memory.
LEMMA BufClientInv ==
    ASSUME BufInv, BufClient
    PROVE  BufInv'
<1>1. /\ bheap \in [BufAddrs -> BufBlock] /\ buf \in [BufSlots -> BufHandle]
      /\ Owning(BufAddrs, BufSlots, bheap, buf, loose)
      /\ \A a \in BufAddrs : bheap[a].dev = Null => bheap[a] = Free
      /\ \A x \in BufSlots : Claims(buf[x]) => /\ bheap[buf[x].data].bytes = buf[x].bytes
                                               /\ buf[x].num <= buf[x].bytes
  BY DEF BufInv, BufOK
<1>2. PICK a \in BufAddrs, b \in BufBlock :
        /\ bheap' = [bheap EXCEPT ![a] = b] /\ buf' = buf
        /\ \/ b.dev # Null /\ bheap[a].dev = Null /\ loose' = loose \cup {a}
           \/ b = Free /\ a \in loose /\ loose' = loose \ {a}
  <2>1. CASE \E d \in BufDevices, n \in Sizes : \E a \in DeviceAllocate(bheap, d) \ {Null} :
               /\ bheap' = [bheap EXCEPT ![a] = [dev |-> d, bytes |-> n]]
               /\ loose' = loose \cup {a}
               /\ UNCHANGED buf
    <3>1. PICK d \in BufDevices, n \in Sizes : \E a \in DeviceAllocate(bheap, d) \ {Null} :
               /\ bheap' = [bheap EXCEPT ![a] = [dev |-> d, bytes |-> n]]
               /\ loose' = loose \cup {a}
               /\ UNCHANGED buf
      BY <2>1
    <3>2. PICK a \in DeviceAllocate(bheap, d) \ {Null} :
               /\ bheap' = [bheap EXCEPT ![a] = [dev |-> d, bytes |-> n]]
               /\ loose' = loose \cup {a}
               /\ UNCHANGED buf
      BY <3>1
    <3>3. a \in BufAddrs /\ bheap[a].dev = Null
      BY <1>1, AllocatedFree
    <3>4. [dev |-> d, bytes |-> n] \in BufBlock /\ [dev |-> d, bytes |-> n].dev # Null
      BY BufAssumption DEF BufBlock
    <3>5. QED
      BY <3>2, <3>3, <3>4
  <2>2. CASE \E a \in loose :
               /\ \A s \in BufSlots : buf[s].data # a
               /\ bheap' = [bheap EXCEPT ![a] = Free]
               /\ loose' = loose \ {a}
               /\ UNCHANGED buf
    <3>1. loose \subseteq BufAddrs
      BY <1>1 DEF Owning
    <3>2. QED
      BY <2>2, <3>1, NoBufHandle
  <2>3. QED
    BY <2>1, <2>2 DEF BufClient
<1>3. /\ bheap' \in [BufAddrs -> BufBlock] /\ AgreeOff(BufAddrs, a, bheap, bheap')
      /\ bheap'[a] = b
  BY <1>1, <1>2 DEF AgreeOff
<1>4. Owning(BufAddrs, BufSlots, bheap', buf, loose')
  <2>1. CASE b.dev # Null /\ bheap[a].dev = Null /\ loose' = loose \cup {a}
    <3>1. Owning(BufAddrs, BufSlots, bheap', buf, loose \cup {a})
      BY <1>1, <1>3, <2>1, OwnLent
    <3>2. QED
      BY <2>1, <3>1
  <2>2. CASE b = Free /\ a \in loose /\ loose' = loose \ {a}
    <3>1. bheap'[a].dev = Null
      BY <1>3, <2>2, NoBufHandle
    <3>2. Owning(BufAddrs, BufSlots, bheap', buf, loose \ {a})
      BY <1>1, <1>3, <2>2, <3>1, OwnLent
    <3>3. QED
      BY <2>2, <3>2
  <2>3. QED
    BY <1>2, <2>1, <2>2
<1>5. \A x \in BufAddrs : bheap'[x].dev = Null => bheap'[x] = Free
  BY <1>1, <1>2, <1>3 DEF AgreeOff
<1>6. ASSUME NEW x \in BufSlots, Claims(buf[x])
      PROVE  bheap'[buf[x].data].bytes = buf[x].bytes /\ buf[x].num <= buf[x].bytes
  <2>1. buf[x].data \in BufAddrs /\ buf[x].data \notin loose /\ bheap[buf[x].data].dev # Null
    BY <1>1, <1>6 DEF Owning, Claims
  <2>2. bheap'[buf[x].data] = bheap[buf[x].data]
    BY <1>2, <1>3, <2>1 DEF AgreeOff
  <2>3. QED
    BY <1>1, <1>6, <2>2
<1>7. QED
  BY <1>1, <1>2, <1>3, <1>4, <1>5, <1>6 DEF BufInv, BufOK

\* Every step of a client of buffers.
LEMMA BufInvStep ==
    ASSUME part = "buffers" => BufInv, [Next]_vars
    PROVE  (part = "buffers" => BufInv)'
<1>1. part' = part
  BY DEF Next, RestOf, vars
<1>2. SUFFICES ASSUME part = "buffers" PROVE BufInv'
  BY <1>1
<1>3. BufNext \/ UNCHANGED bufVars
  BY <1>2 DEF Next, RestOf, vars
<1>4. CASE UNCHANGED bufVars
  BY <1>2, <1>4 DEF bufVars, BufInv
<1>5. CASE BufNext
  BY <1>2, <1>5, BufClientInv, BufSimpleInv, BufAdoptInv, BufDetachInv, BufResizeInv, BufPairInv
     DEF BufNext
<1>6. QED
  BY <1>3, <1>4, <1>5

-----------------------------------------------------------------------------
(* Tensors: besides, a tensor is where its memory is, a borrower borrows   *)
(* from the client, no two tensors are at the same memory, and what a      *)
(* tensor should hold is there.                                            *)
Content == {Undef, "zero", "a", "aT"}

TenBlock == [dev : Devices \cup {Null}, val : Content]

TenHandle ==
    [data : Addrs \cup {Null}, bytes : Nat, ptr : Devices \cup {Null},
     fn : Devices \cup {Null}, num : Nat]

TensorOf == [dev : Devices \cup {Null}, h : TenHandle]

Clean(c) == c \in TenBlock

DueRecord == [v : Content, by : SUBSET {"copy", "view"}]

\* What p says is due and unspoilt is val.
Met(val, p) == p.v # Undef /\ p.by = {} => val = p.v

\* It is in the memory of tensor x.
Held(heap, x, p) == p.v # Undef /\ p.by = {} => x.h.data # Null /\ heap[x.h.data].val = p.v

\* No two tensors are at one address, and each holds what is due.
Faithful(heap, T, D) ==
    /\ D \in [TenSlots -> DueRecord]
    /\ \A x, y \in TenSlots : x # y /\ T[x].h.data # Null => T[y].h.data # T[x].h.data
    /\ \A x \in TenSlots : Held(heap, T[x], D[x])

HandlesOf(T) == [s \in TenSlots |-> T[s].h]

\* Tensor x in heap and L.
InPlace(heap, x, L) ==
    x.h.data # Null => /\ heap[x.h.data].dev = x.dev
                       /\ IF Claims(x.h) THEN x.h.fn = x.dev ELSE x.h.data \in L

TenOK(heap, T, L) ==
    /\ heap \in [Addrs -> TenBlock] /\ T \in [TenSlots -> TensorOf]
    /\ Owning(Addrs, TenSlots, heap, HandlesOf(T), L)
    /\ \A a \in Addrs : Clean(heap[a]) /\ (heap[a].dev = Null => heap[a] = NoBlock)
    /\ \A s \in TenSlots : InPlace(heap, T[s], L)

TenInv == TenOK(theap, ten, lent) /\ Faithful(theap, ten, due)

\* A tensor without memory.
EmptyTensor(x) == x \in TensorOf /\ x.h.data = Null

\* No memory at all.
LEMMA NoTenHandle ==
    /\ NoHandle \in TenHandle /\ NoHandle.data = Null /\ NoHandle.num = 0
    /\ Clean(NoBlock) /\ NoBlock.dev = Null
    /\ \A d \in Devices \cup {Null} : EmptyTensor([dev |-> d, h |-> NoHandle])
BY TenAssumption
   DEF NoHandle, TenHandle, Clean, NoBlock, TenBlock, Content, EmptyTensor, TensorOf

\* The invariant says what the two properties say.
LEMMA TenInvSound ==
    ASSUME TenInv
    PROVE  TensorsOwned /\ CopiesFaithful
<1>1. /\ Owning(Addrs, TenSlots, theap, HandlesOf(ten), lent)
      /\ \A a \in Addrs : Clean(theap[a]) /\ (theap[a].dev = Null => theap[a] = NoBlock)
      /\ \A s \in TenSlots : InPlace(theap, ten[s], lent)
  BY DEF TenInv, TenOK
<1>2. \A a \in Addrs : theap[a] = NoBlock <=> theap[a].dev = Null
  BY <1>1, NoTenHandle
<1>3. ASSUME NEW a \in Addrs
      PROVE  Cardinality({s \in TenSlots : Claims(ten[s].h) /\ ten[s].h.data = a})
               + (IF a \in lent THEN 1 ELSE 0) = (IF theap[a] = NoBlock THEN 0 ELSE 1)
  <2>1. {s \in TenSlots : Claims(ten[s].h) /\ ten[s].h.data = a}
          = {s \in TenSlots : Claims(HandlesOf(ten)[s]) /\ HandlesOf(ten)[s].data = a}
    BY DEF HandlesOf
  <2>2. QED
    BY <1>1, <1>2, <2>1, OneOwnerCounted
<1>4. TensorsOwned
  BY <1>1, <1>3 DEF TensorsOwned, InPlace
<1>5. CopiesFaithful
  <2>1. \A x \in TenSlots : Held(theap, ten[x], due[x]) /\ due[x] \in DueRecord
    BY DEF TenInv, Faithful
  <2>2. QED
    BY <2>1 DEF CopiesFaithful, Held
<1>6. QED
  BY <1>4, <1>5

\* Nothing is due.
LEMMA NothingDue ==
    /\ \A w \in Content : Due(w) \in DueRecord /\ Due(w).v = w /\ Due(w).by = {}
    /\ Due(Undef) \in DueRecord /\ Due(Undef).v = Undef
BY DEF Due, DueRecord, Content

\* Nothing is allocated at first.
LEMMA TenInvInit ==
    ASSUME TenInit
    PROVE  TenInv
<1> DEFINE x0 == [dev |-> Null, h |-> NoHandle]
<1>0. EmptyTensor(x0) /\ x0.h = NoHandle
  BY NoTenHandle
<1>1. /\ theap = [a \in Addrs |-> NoBlock] /\ ten = [s \in TenSlots |-> x0]
      /\ lent = {}
  BY DEF TenInit
<1> HIDE DEF x0
<1>2. /\ \A a \in Addrs : theap[a] = NoBlock
      /\ \A s \in TenSlots : ten[s] = x0
      /\ theap \in [Addrs -> TenBlock] /\ ten \in [TenSlots -> TensorOf]
  BY <1>0, <1>1, NoTenHandle DEF Clean, EmptyTensor
<1>3. \A s \in TenSlots : HandlesOf(ten)[s] = NoHandle
  BY <1>0, <1>2 DEF HandlesOf
<1>4. Owning(Addrs, TenSlots, theap, HandlesOf(ten), lent)
  BY <1>1, <1>2, <1>3, NoTenHandle DEF Owning, Claims
<1>5. Faithful(theap, ten, due)
  <2>1. due = [x \in TenSlots |-> Due(Undef)]
    BY DEF TenInit
  <2>2. \A x \in TenSlots : ten[x].h.data = Null /\ due[x] = Due(Undef)
    BY <1>0, <1>2, <2>1, NoTenHandle
  <2>3. \A x \in TenSlots : Held(theap, ten[x], due[x])
    BY <2>2, NothingDue DEF Held
  <2>4. due \in [TenSlots -> DueRecord]
    BY <2>1, NothingDue
  <2>5. QED
    BY <2>2, <2>3, <2>4 DEF Faithful
<1>6. QED
  BY <1>0, <1>2, <1>4, <1>5, NoTenHandle DEF TenInv, TenOK, InPlace

\* The handles follow the tensors.
LEMMA HandleAgree ==
    ASSUME NEW T, NEW G, NEW s \in TenSlots
    PROVE  /\ AgreeOff(TenSlots, s, T, G) => AgreeOff(TenSlots, s, HandlesOf(T), HandlesOf(G))
           /\ \A x \in TenSlots : HandlesOf(T)[x] = T[x].h /\ HandlesOf(G)[x] = G[x].h
BY DEF AgreeOff, HandlesOf

\* A tensor frees its memory.
LEMMA TenFreed ==
    ASSUME NEW heap, NEW T, NEW L, TenOK(heap, T, L), NEW s \in TenSlots,
           NEW e, EmptyTensor(e)
    PROVE  TenOK(Dealloc(heap, T[s].h, NoBlock), [T EXCEPT ![s] = e], L)
<1> DEFINE h == T[s].h
           h2 == Dealloc(heap, h, NoBlock)
           G == [T EXCEPT ![s] = e]
<1>1. /\ heap \in [Addrs -> TenBlock] /\ T \in [TenSlots -> TensorOf]
      /\ Owning(Addrs, TenSlots, heap, HandlesOf(T), L)
      /\ \A a \in Addrs : Clean(heap[a]) /\ (heap[a].dev = Null => heap[a] = NoBlock)
      /\ \A x \in TenSlots : InPlace(heap, T[x], L)
  BY DEF TenOK
<1>2. /\ G \in [TenSlots -> TensorOf] /\ G[s] = e
      /\ \A x \in TenSlots : x # s => G[x] = T[x]
      /\ AgreeOff(TenSlots, s, HandlesOf(T), HandlesOf(G))
      /\ HandlesOf(G)[s] = e.h /\ HandlesOf(T)[s] = h
      /\ \A x \in TenSlots : HandlesOf(T)[x] = T[x].h
  <2>1. /\ G \in [TenSlots -> TensorOf] /\ G[s] = e
        /\ \A x \in TenSlots : x # s => G[x] = T[x]
    BY <1>1 DEF EmptyTensor
  <2>2. AgreeOff(TenSlots, s, T, G)
    BY <2>1 DEF AgreeOff
  <2> HIDE DEF G
  <2>3. QED
    BY <2>1, <2>2, HandleAgree
<1> HIDE DEF G, h
<1>3. Claims(h) => h.data \in Addrs
  BY <1>1, <1>2 DEF Owning, Claims
<1>4. /\ h2 \in [Addrs -> TenBlock]
      /\ \A a \in Addrs : ~(Claims(h) /\ a = h.data) => h2[a] = heap[a]
      /\ Claims(h) => h2[h.data] = NoBlock
  BY <1>1, <1>3, NoTenHandle DEF Dealloc, Clean
<1> HIDE DEF h2
<1>5. Owning(Addrs, TenSlots, h2, HandlesOf(G), L)
  <2>1. /\ \A a \in Addrs : ~(Claims(h) /\ a = h.data) => h2[a].dev = heap[a].dev
        /\ Claims(h) => h2[h.data].dev = Null
    BY <1>4, NoTenHandle
  <2>2. ~Claims(HandlesOf(G)[s]) /\ HandlesOf(G)[s].data \in Addrs \cup {Null}
    BY <1>2 DEF EmptyTensor, Claims
  <2>3. QED
    BY <1>1, <1>2, <2>1, <2>2, OwnFreed
<1>6. \A a \in Addrs : Clean(h2[a]) /\ (h2[a].dev = Null => h2[a] = NoBlock)
  BY <1>1, <1>4, NoTenHandle
<1>7. ASSUME NEW x \in TenSlots PROVE InPlace(h2, G[x], L)
  <2>1. CASE x = s
    BY <1>2, <2>1 DEF InPlace, EmptyTensor
  <2>2. CASE x # s /\ T[x].h.data # Null
    <3>1. G[x] = T[x] /\ InPlace(heap, T[x], L)
      BY <1>1, <1>2, <2>2
    <3>2. T[x].h.data \in Addrs /\ ~(Claims(h) /\ T[x].h.data = h.data)
      BY <1>1, <1>2, <2>2, <3>1 DEF Owning, InPlace
    <3>3. QED
      BY <1>4, <3>1, <3>2 DEF InPlace
  <2>3. CASE x # s /\ T[x].h.data = Null
    BY <1>2, <2>3 DEF InPlace
  <2>4. QED
    BY <2>1, <2>2, <2>3
<1>8. QED
  BY <1>2, <1>4, <1>5, <1>6, <1>7 DEF TenOK, h2, G, h

\* A tensor without memory is given a block.
LEMMA TenGiven ==
    ASSUME NEW heap, NEW T, NEW L, TenOK(heap, T, L), NEW s \in TenSlots, T[s].h.data = Null,
           NEW a \in Addrs, heap[a].dev = Null, NEW d \in Devices,
           NEW c, Clean(c), c.dev = d,
           NEW e \in TensorOf, e.dev = d, e.h.data = a, e.h.fn = d
    PROVE  TenOK([heap EXCEPT ![a] = c], [T EXCEPT ![s] = e], L)
<1> DEFINE h2 == [heap EXCEPT ![a] = c]
           G == [T EXCEPT ![s] = e]
<1>1. /\ heap \in [Addrs -> TenBlock] /\ T \in [TenSlots -> TensorOf]
      /\ Owning(Addrs, TenSlots, heap, HandlesOf(T), L)
      /\ \A x \in Addrs : Clean(heap[x]) /\ (heap[x].dev = Null => heap[x] = NoBlock)
      /\ \A x \in TenSlots : InPlace(heap, T[x], L)
  BY DEF TenOK
<1>2. /\ G \in [TenSlots -> TensorOf] /\ G[s] = e
      /\ \A x \in TenSlots : x # s => G[x] = T[x]
      /\ AgreeOff(TenSlots, s, HandlesOf(T), HandlesOf(G))
      /\ HandlesOf(G)[s] = e.h /\ HandlesOf(T)[s] = T[s].h
      /\ \A x \in TenSlots : HandlesOf(T)[x] = T[x].h
  <2>1. /\ G \in [TenSlots -> TensorOf] /\ G[s] = e
        /\ \A x \in TenSlots : x # s => G[x] = T[x]
    BY <1>1
  <2>2. AgreeOff(TenSlots, s, T, G)
    BY <2>1 DEF AgreeOff
  <2> HIDE DEF G
  <2>3. QED
    BY <2>1, <2>2, HandleAgree
<1> HIDE DEF G
<1>3. d # Null /\ a # Null /\ Claims(e.h) /\ ~Claims(T[s].h)
  BY TenAssumption DEF Claims
<1>4. h2 \in [Addrs -> TenBlock] /\ AgreeOff(Addrs, a, heap, h2) /\ h2[a] = c
  BY <1>1 DEF AgreeOff, Clean
<1> HIDE DEF h2
<1>5. Owning(Addrs, TenSlots, h2, HandlesOf(G), L)
  BY <1>1, <1>2, <1>3, <1>4, OwnGiven
<1>6. \A x \in Addrs : Clean(h2[x]) /\ (h2[x].dev = Null => h2[x] = NoBlock)
  BY <1>1, <1>3, <1>4 DEF AgreeOff
<1>7. ASSUME NEW x \in TenSlots PROVE InPlace(h2, G[x], L)
  <2>1. CASE x = s
    BY <1>2, <1>3, <1>4, <2>1 DEF InPlace
  <2>2. CASE x # s /\ T[x].h.data # Null
    <3>1. G[x] = T[x] /\ InPlace(heap, T[x], L)
      BY <1>1, <1>2, <2>2
    <3>2. T[x].h.data \in Addrs /\ heap[T[x].h.data].dev # Null
      BY <1>1, <1>2, <2>2, <3>1 DEF Owning, InPlace
    <3>3. h2[T[x].h.data] = heap[T[x].h.data]
      BY <1>4, <3>2 DEF AgreeOff
    <3>4. QED
      BY <3>1, <3>3 DEF InPlace
  <2>3. CASE x # s /\ T[x].h.data = Null
    BY <1>2, <2>3 DEF InPlace
  <2>4. QED
    BY <2>1, <2>2, <2>3
<1>8. QED
  BY <1>2, <1>4, <1>5, <1>6, <1>7 DEF TenOK, h2, G

\* A tensor takes over a temporary with the memory it was given, if any.
LEMMA TenAssigned ==
    ASSUME NEW heap, NEW T, NEW L, TenOK(heap, T, L), NEW s \in TenSlots,
           NEW d \in Devices, NEW a \in DeviceAllocate(heap, d), NEW c, Clean(c), c.dev = d,
           NEW e \in TensorOf, e.dev = d, e.h.data = a, e.h.fn = d
    PROVE  TenOK(Dealloc(Given(heap, a, c), T[s].h, NoBlock), [T EXCEPT ![s] = e], L)
<1>1. CASE a = Null
  <2>1. EmptyTensor(e) /\ Given(heap, a, c) = heap
    BY <1>1 DEF EmptyTensor, Given
  <2>2. QED
    BY <2>1, TenFreed
<1>2. CASE a # Null
  <2> DEFINE x0 == [dev |-> Null, h |-> NoHandle]
  <2>0. EmptyTensor(x0)
    BY NoTenHandle
  <2> HIDE DEF x0
  <2> DEFINE h == T[s].h
             h1 == Dealloc(heap, h, NoBlock)
             T1 == [T EXCEPT ![s] = x0]
  <2>1. /\ heap \in [Addrs -> TenBlock] /\ T \in [TenSlots -> TensorOf]
        /\ Owning(Addrs, TenSlots, heap, HandlesOf(T), L)
    BY DEF TenOK
  <2>2. a \in Addrs /\ heap[a].dev = Null
    BY <1>2, <2>1, AllocatedFree
  <2>3. TenOK(h1, T1, L)
    BY <2>0, TenFreed
  <2>4. HandlesOf(T)[s] = h
    BY DEF HandlesOf
  <2>5. T1[s] = x0 /\ [T EXCEPT ![s] = e] = [T1 EXCEPT ![s] = e]
    BY <2>1
  <2> HIDE DEF h, T1
  <2>6. Claims(h) => h.data \in Addrs /\ h.data # a
    BY <2>1, <2>2, <2>4 DEF Owning, Claims
  <2>7. h1[a].dev = Null
    BY <2>1, <2>2, <2>6 DEF Dealloc
  <2>8. Dealloc(Given(heap, a, c), h, NoBlock) = [h1 EXCEPT ![a] = c]
    BY <1>2, <2>1, <2>6 DEF Dealloc, Given
  <2> HIDE DEF h1
  <2>9. T1[s].h.data = Null
    BY <2>0, <2>5 DEF EmptyTensor
  <2>10. TenOK([h1 EXCEPT ![a] = c], [T1 EXCEPT ![s] = e], L)
    BY <2>2, <2>3, <2>7, <2>9, TenGiven
  <2>11. QED
    BY <2>5, <2>8, <2>10 DEF h
<1>3. QED
  BY <1>1, <1>2

\* A tensor without memory takes over what another one has.
LEMMA TenMoved ==
    ASSUME NEW heap, NEW T, NEW L, TenOK(heap, T, L), NEW s \in TenSlots, NEW t \in TenSlots,
           s # t, T[s].h.data = Null, NEW e, EmptyTensor(e)
    PROVE  TenOK(heap, [T EXCEPT ![s] = T[t], ![t] = e], L)
<1> DEFINE G == [T EXCEPT ![s] = T[t], ![t] = e]
<1>1. /\ heap \in [Addrs -> TenBlock] /\ T \in [TenSlots -> TensorOf]
      /\ Owning(Addrs, TenSlots, heap, HandlesOf(T), L)
      /\ \A x \in Addrs : Clean(heap[x]) /\ (heap[x].dev = Null => heap[x] = NoBlock)
      /\ \A x \in TenSlots : InPlace(heap, T[x], L)
  BY DEF TenOK
<1>2. /\ G \in [TenSlots -> TensorOf] /\ G[s] = T[t] /\ G[t] = e
      /\ \A x \in TenSlots \ {s, t} : G[x] = T[x]
  BY <1>1 DEF EmptyTensor
<1> HIDE DEF G
<1>3. \A x \in TenSlots : HandlesOf(T)[x] = T[x].h /\ HandlesOf(G)[x] = G[x].h
  BY DEF HandlesOf
<1>4. /\ \A x \in TenSlots \ {s, t} : HandlesOf(G)[x] = HandlesOf(T)[x]
      /\ ~Claims(HandlesOf(T)[s]) /\ HandlesOf(G)[s] = HandlesOf(T)[t]
      /\ ~Claims(HandlesOf(G)[t]) /\ HandlesOf(G)[t].data \in Addrs \cup {Null}
  BY <1>2, <1>3 DEF EmptyTensor, Claims
<1>5. Owning(Addrs, TenSlots, heap, HandlesOf(G), L)
  BY <1>1, <1>4, OwnMoved
<1>6. \A x \in TenSlots : InPlace(heap, G[x], L)
  BY <1>1, <1>2 DEF InPlace, EmptyTensor
<1>7. QED
  BY <1>1, <1>2, <1>5, <1>6 DEF TenOK, G

\* A block is overwritten in place.
LEMMA TenWritten ==
    ASSUME NEW heap, NEW T, NEW L, TenOK(heap, T, L), NEW a \in Addrs, heap[a].dev # Null,
           NEW c, Clean(c), c.dev = heap[a].dev
    PROVE  TenOK([heap EXCEPT ![a] = c], T, L)
<1> DEFINE h2 == [heap EXCEPT ![a] = c]
<1>1. /\ heap \in [Addrs -> TenBlock] /\ T \in [TenSlots -> TensorOf]
      /\ Owning(Addrs, TenSlots, heap, HandlesOf(T), L)
      /\ \A x \in Addrs : Clean(heap[x]) /\ (heap[x].dev = Null => heap[x] = NoBlock)
      /\ \A x \in TenSlots : InPlace(heap, T[x], L)
  BY DEF TenOK
<1>2. /\ h2 \in [Addrs -> TenBlock] /\ h2[a] = c /\ \A x \in Addrs : x # a => h2[x] = heap[x]
  BY <1>1 DEF Clean
<1> HIDE DEF h2
<1>3. \A x \in Addrs : h2[x].dev = heap[x].dev
  BY <1>2
<1>4. \A x \in TenSlots : HandlesOf(T)[x] = T[x].h
  BY DEF HandlesOf
<1>5. Owning(Addrs, TenSlots, h2, HandlesOf(T), L)
  BY <1>1, <1>3 DEF Owning, Claims
<1>6. \A x \in Addrs : Clean(h2[x]) /\ (h2[x].dev = Null => h2[x] = NoBlock)
  BY <1>1, <1>2
<1>7. ASSUME NEW x \in TenSlots PROVE InPlace(h2, T[x], L)
  <2>1. T[x].h.data # Null => T[x].h.data \in Addrs
    BY <1>1, <1>4 DEF Owning
  <2>2. QED
    BY <1>1, <1>3, <2>1 DEF InPlace
<1>8. QED
  BY <1>1, <1>2, <1>5, <1>6, <1>7 DEF TenOK, h2

\* A copy stays on the target's device and brings the source's content.
LEMMA WithClean ==
    ASSUME NEW dst, Clean(dst), NEW src, Clean(src)
    PROVE  /\ Clean(With(dst, src)) /\ With(dst, src).dev = dst.dev
           /\ With(dst, src).val = src.val
BY DEF With, Clean, TenBlock

LEMMA HoldingClean ==
    ASSUME NEW d \in Devices \cup {Null}, NEW v \in Content
    PROVE  Clean(Holding(d, v)) /\ Holding(d, v).dev = d /\ Holding(d, v).val = v
BY DEF Clean, Holding, TenBlock

\* But for copy_to_device of a CUDA device from another one, copies are exact,
\* staging through the host included.
LEMMA CopyClean ==
    ASSUME NEW dst, Clean(dst), NEW src, Clean(src)
    PROVE  /\ \A d : /\ Clean(CopyToDevice(d, dst, src))
                     /\ CopyToDevice(d, dst, src).dev = dst.dev
                     /\ d = CPU \/ src.dev = CPU => CopyToDevice(d, dst, src).val = src.val
           /\ Clean(CopyFrom(dst, src)) /\ CopyFrom(dst, src).dev = dst.dev
           /\ CopyFrom(dst, src).val = src.val
<1>1. ASSUME NEW d, NEW f, Clean(f)
      PROVE  /\ Clean(CopyToDevice(d, dst, f)) /\ CopyToDevice(d, dst, f).dev = dst.dev
             /\ d = CPU \/ f.dev = CPU => CopyToDevice(d, dst, f).val = f.val
  <2>1. /\ Clean(With(dst, f)) /\ With(dst, f).dev = dst.dev
        /\ With(dst, f).val = f.val
    BY <1>1, WithClean
  <2>2. Clean(With(dst, NoBlock)) /\ With(dst, NoBlock).dev = dst.dev
    BY NoTenHandle, WithClean
  <2>3. QED
    BY <2>1, <2>2 DEF CopyToDevice
<1>2. /\ Clean(With(dst, src)) /\ With(dst, src).dev = dst.dev
      /\ With(dst, src).val = src.val
  BY WithClean
<1>3. PICK staged : staged = CopyToHost(Holding(CPU, "zero"), src)
  OBVIOUS
<1>4. Clean(staged) /\ staged.dev = CPU /\ staged.val = src.val
  <2>1. Clean(Holding(CPU, "zero")) /\ Holding(CPU, "zero").dev = CPU
    BY HoldingClean, TenAssumption DEF Content
  <2>2. QED
    BY <1>3, <2>1, WithClean DEF CopyToHost
<1>5. ASSUME dst.dev # src.dev
      PROVE  /\ Clean(CopyAcrossDevices(dst, src)) /\ CopyAcrossDevices(dst, src).dev = dst.dev
             /\ CopyAcrossDevices(dst, src).val = src.val
  <2>1. CASE src.dev = CPU
    <3>1. CopyAcrossDevices(dst, src) = CopyToDevice(dst.dev, dst, src)
      BY <1>5, <2>1 DEF CopyAcrossDevices
    <3>2. QED
      BY <1>1, <2>1, <3>1
  <2>2. CASE dst.dev = CPU
    <3>1. CopyAcrossDevices(dst, src) = With(dst, src)
      BY <1>5, <2>2 DEF CopyAcrossDevices, CopyToHost
    <3>2. QED
      BY <1>2, <3>1
  <2>3. CASE src.dev # CPU /\ dst.dev # CPU
    <3>1. CopyAcrossDevices(dst, src) = CopyToDevice(dst.dev, dst, staged)
      BY <1>3, <2>3 DEF CopyAcrossDevices
    <3>2. QED
      BY <1>1, <1>4, <3>1
  <2>4. QED
    BY <2>1, <2>2, <2>3
<1>6. /\ Clean(CopyFrom(dst, src)) /\ CopyFrom(dst, src).dev = dst.dev
      /\ CopyFrom(dst, src).val = src.val
  BY <1>2, <1>5 DEF CopyFrom, CopyWithin
<1>7. QED
  BY <1>1, <1>6

\* A tensor becomes e and other tensors' memory is left alone.
LEMMA FaithPut ==
    ASSUME NEW heap, NEW T \in [TenSlots -> TensorOf], NEW D, Faithful(heap, T, D),
           NEW s \in TenSlots, NEW h2, NEW e, NEW p \in DueRecord,
           \A x \in TenSlots \ {s} :
             T[x].h.data # Null => /\ T[x].h.data # e.h.data
                                   /\ h2[T[x].h.data] = heap[T[x].h.data],
           Held(h2, e, p)
    PROVE  Faithful(h2, [T EXCEPT ![s] = e], [D EXCEPT ![s] = p])
<1> DEFINE G == [T EXCEPT ![s] = e]
           E == [D EXCEPT ![s] = p]
<1>1. /\ D \in [TenSlots -> DueRecord]
      /\ \A x, y \in TenSlots : x # y /\ T[x].h.data # Null => T[y].h.data # T[x].h.data
      /\ \A x \in TenSlots : Held(heap, T[x], D[x])
  BY DEF Faithful
<1>2. /\ G[s] = e /\ E[s] = p /\ E \in [TenSlots -> DueRecord]
      /\ \A x \in TenSlots \ {s} : G[x] = T[x] /\ E[x] = D[x]
  BY <1>1
<1> HIDE DEF G, E
<1>3. \A x, y \in TenSlots : x # y /\ G[x].h.data # Null => G[y].h.data # G[x].h.data
  BY <1>1, <1>2
<1>4. ASSUME NEW x \in TenSlots PROVE Held(h2, G[x], E[x])
  <2>1. CASE x = s
    BY <1>2, <2>1
  <2>2. CASE x # s
    <3>1. Held(heap, T[x], D[x]) /\ G[x] = T[x] /\ E[x] = D[x]
      BY <1>1, <1>2, <2>2
    <3>2. QED
      BY <2>2, <3>1 DEF Held
  <2>3. QED
    BY <2>1, <2>2
<1>5. QED
  BY <1>2, <1>3, <1>4 DEF Faithful, G, E

\* Where tensors are: at blocks that are not free.
LEMMA TenAt ==
    ASSUME NEW heap, NEW T, NEW L, TenOK(heap, T, L), NEW x \in TenSlots, T[x].h.data # Null
    PROVE  T[x].h.data \in Addrs /\ heap[T[x].h.data].dev # Null
<1>1. /\ Owning(Addrs, TenSlots, heap, HandlesOf(T), L) /\ HandlesOf(T)[x] = T[x].h
      /\ InPlace(heap, T[x], L)
  BY DEF TenOK, HandlesOf
<1>2. QED
  BY <1>1 DEF Owning, InPlace

\* A tensor frees its memory and holds nothing.
LEMMA FaithVacated ==
    ASSUME NEW heap, NEW T, NEW L, NEW D, TenOK(heap, T, L), Faithful(heap, T, D),
           NEW s \in TenSlots, NEW e, e.h.data = Null
    PROVE  Faithful(Dealloc(heap, T[s].h, NoBlock), [T EXCEPT ![s] = e],
                    [D EXCEPT ![s] = Due(Undef)])
<1>1. T \in [TenSlots -> TensorOf] /\ heap \in [Addrs -> TenBlock]
  BY DEF TenOK
<1>2. PICK h2 : h2 = Dealloc(heap, T[s].h, NoBlock)
  OBVIOUS
<1>3. ASSUME NEW x \in TenSlots \ {s}, T[x].h.data # Null
      PROVE  T[x].h.data # e.h.data /\ h2[T[x].h.data] = heap[T[x].h.data]
  <2>1. T[x].h.data \in Addrs
    BY <1>3, TenAt
  <2>2. T[s].h.data # T[x].h.data
    BY <1>3 DEF Faithful
  <2>3. QED
    BY <1>1, <1>2, <1>3, <2>1, <2>2 DEF Dealloc
<1>4. Held(h2, e, Due(Undef)) /\ Due(Undef) \in DueRecord
  BY NothingDue DEF Held
<1>5. QED
  BY <1>1, <1>2, <1>3, <1>4, FaithPut

\* A tensor takes over a new block, which holds what is due.
LEMMA FaithAssigned ==
    ASSUME NEW heap, NEW T, NEW L, NEW D, TenOK(heap, T, L), Faithful(heap, T, D),
           NEW s \in TenSlots, NEW d \in Devices, NEW a \in DeviceAllocate(heap, d),
           NEW c, NEW p \in DueRecord, Met(c.val, p), NEW e, e.h.data = a
    PROVE  Faithful(Dealloc(Given(heap, a, c), T[s].h, NoBlock), [T EXCEPT ![s] = e],
                    [D EXCEPT ![s] = IF a = Null \/ p.v = Undef THEN Due(Undef) ELSE p])
<1>1. T \in [TenSlots -> TensorOf] /\ heap \in [Addrs -> TenBlock]
  BY DEF TenOK
<1>2. PICK h2 : h2 = Dealloc(Given(heap, a, c), T[s].h, NoBlock)
  OBVIOUS
<1>3. PICK q : q = IF a = Null \/ p.v = Undef THEN Due(Undef) ELSE p
  OBVIOUS
<1>4. a # Null => a \in Addrs /\ heap[a].dev = Null
  BY <1>1, AllocatedFree
<1>5. ASSUME NEW x \in TenSlots \ {s}, T[x].h.data # Null
      PROVE  T[x].h.data # e.h.data /\ h2[T[x].h.data] = heap[T[x].h.data]
  <2>1. T[x].h.data \in Addrs /\ heap[T[x].h.data].dev # Null
    BY <1>5, TenAt
  <2>2. T[s].h.data # T[x].h.data
    BY <1>5 DEF Faithful
  <2>3. T[x].h.data # a
    BY <1>4, <1>5, <2>1
  <2>4. QED
    BY <1>1, <1>2, <1>4, <1>5, <2>1, <2>2, <2>3 DEF Dealloc, Given
<1>6. Held(h2, e, q)
  <2>1. CASE a = Null \/ p.v = Undef
    BY <1>3, <2>1, NothingDue DEF Held
  <2>2. CASE a # Null /\ p.v # Undef
    <3>1. Claims(T[s].h) => T[s].h.data # a
      BY <1>4, <2>2, TenAt DEF Claims
    <3>2. h2[a] = c
      BY <1>1, <1>2, <1>4, <2>2, <3>1 DEF Dealloc, Given
    <3>3. q = p
      BY <1>3, <2>2
    <3>4. QED
      BY <2>2, <3>2, <3>3 DEF Held, Met
  <2>3. QED
    BY <2>1, <2>2
<1>7. q \in DueRecord
  BY <1>3, NothingDue
<1>8. Faithful(h2, [T EXCEPT ![s] = e], [D EXCEPT ![s] = q])
  BY <1>1, <1>5, <1>6, <1>7, FaithPut
<1>9. QED
  BY <1>2, <1>3, <1>8

\* A tensor's memory is overwritten with what is due.
LEMMA FaithWritten ==
    ASSUME NEW heap, NEW T, NEW L, NEW D, TenOK(heap, T, L), Faithful(heap, T, D),
           NEW s \in TenSlots, T[s].h.data # Null,
           NEW h2, \A x \in Addrs : x # T[s].h.data => h2[x] = heap[x],
           NEW p \in DueRecord, Met(h2[T[s].h.data].val, p)
    PROVE  Faithful(h2, T, [D EXCEPT ![s] = p])
<1>1. T \in [TenSlots -> TensorOf]
  BY DEF TenOK
<1>2. PICK e : e = T[s]
  OBVIOUS
<1>3. ASSUME NEW x \in TenSlots \ {s}, T[x].h.data # Null
      PROVE  T[x].h.data # e.h.data /\ h2[T[x].h.data] = heap[T[x].h.data]
  <2>1. T[x].h.data \in Addrs
    BY <1>3, TenAt
  <2>2. T[s].h.data # T[x].h.data
    BY <1>3 DEF Faithful
  <2>3. QED
    BY <1>2, <2>1, <2>2
<1>4. Held(h2, e, p)
  BY <1>2 DEF Held, Met
<1>5. Faithful(h2, [T EXCEPT ![s] = e], [D EXCEPT ![s] = p])
  BY <1>1, <1>3, <1>4, FaithPut
<1>6. [T EXCEPT ![s] = e] = T
  BY <1>1, <1>2
<1>7. QED
  BY <1>5, <1>6

\* What is due moves with the memory.
LEMMA FaithMoved ==
    ASSUME NEW heap, NEW T \in [TenSlots -> TensorOf], NEW D, Faithful(heap, T, D),
           NEW s \in TenSlots, NEW t \in TenSlots, s # t, T[s].h.data = Null,
           NEW e, EmptyTensor(e)
    PROVE  Faithful(heap, [T EXCEPT ![s] = T[t], ![t] = e],
                    [D EXCEPT ![s] = D[t], ![t] = Due(Undef)])
<1> DEFINE G == [T EXCEPT ![s] = T[t], ![t] = e]
           E == [D EXCEPT ![s] = D[t], ![t] = Due(Undef)]
<1>1. /\ D \in [TenSlots -> DueRecord]
      /\ \A x, y \in TenSlots : x # y /\ T[x].h.data # Null => T[y].h.data # T[x].h.data
      /\ \A x \in TenSlots : Held(heap, T[x], D[x])
  BY DEF Faithful
<1>2. /\ G[s] = T[t] /\ G[t] = e /\ E[s] = D[t] /\ E[t] = Due(Undef)
      /\ \A x \in TenSlots \ {s, t} : G[x] = T[x] /\ E[x] = D[x]
      /\ E \in [TenSlots -> DueRecord]
  BY <1>1, NothingDue DEF EmptyTensor
<1> HIDE DEF G, E
<1>3. \A x, y \in TenSlots : x # y /\ G[x].h.data # Null => G[y].h.data # G[x].h.data
  BY <1>1, <1>2 DEF EmptyTensor
<1>4. ASSUME NEW x \in TenSlots PROVE Held(heap, G[x], E[x])
  <2>1. CASE x = t
    BY <1>2, <2>1, NothingDue DEF Held
  <2>2. CASE x # t
    BY <1>1, <1>2, <2>2
  <2>3. QED
    BY <2>1, <2>2
<1>5. QED
  BY <1>2, <1>3, <1>4 DEF Faithful, G, E

\* The new tensor of Assign.
LEMMA FreshTensor ==
    ASSUME NEW d \in Devices, NEW a \in Addrs \cup {Null}
    PROVE  LET e == [dev |-> d, h |-> Fresh(d, 1, a)] IN
           e \in TensorOf /\ e.dev = d /\ e.h.data = a /\ e.h.fn = d
<1> DEFINE e0 == NoHandle
           e1 == [e0 EXCEPT !.data = a]
           e2 == [e1 EXCEPT !.bytes = 1]
           e3 == [e2 EXCEPT !.ptr = d]
           e4 == [e3 EXCEPT !.fn = d]
<1>0. Fresh(d, 1, a) = e4
  BY DEF Fresh
<1> HIDE DEF e4
<1>1. e0 \in TenHandle
  BY NoTenHandle
<1> HIDE DEF e0
<1>2. e1 \in TenHandle /\ e1.data = a
  BY <1>1 DEF TenHandle
<1> HIDE DEF e1
<1>3. e2 \in TenHandle /\ e2.data = a
  BY <1>2 DEF TenHandle
<1> HIDE DEF e2
<1>4. e3 \in TenHandle /\ e3.data = a
  BY <1>3 DEF TenHandle
<1> HIDE DEF e3
<1>5. e4 \in TenHandle /\ e4.data = a /\ e4.fn = d
  BY <1>4 DEF TenHandle, e4
<1>6. QED
  BY <1>0, <1>5 DEF TensorOf

\* Assign of a block that holds what is due.
LEMMA AssignInv ==
    ASSUME TenInv, NEW s \in TenSlots, NEW d \in Devices, NEW a \in DeviceAllocate(theap, d),
           NEW c, Clean(c), c.dev = d, NEW p \in DueRecord, Met(c.val, p), Assign(s, d, a, c, p)
    PROVE  TenInv'
<1> DEFINE e == [dev |-> d, h |-> Fresh(d, 1, a)]
<1>1. /\ TenOK(theap, ten, lent) /\ theap \in [Addrs -> TenBlock]
      /\ Faithful(theap, ten, due)
  BY DEF TenInv, TenOK
<1>2. a \in Addrs \cup {Null}
  BY <1>1, AllocatedFree
<1>3. e \in TensorOf /\ e.dev = d /\ e.h.data = a /\ e.h.fn = d
  BY <1>2, FreshTensor
<1>4. /\ theap' = Dealloc(Given(theap, a, c), ten[s].h, NoBlock)
      /\ ten' = [ten EXCEPT ![s] = e] /\ lent' = lent
      /\ due' = [due EXCEPT ![s] = IF a = Null \/ p.v = Undef THEN Due(Undef) ELSE p]
  BY DEF Assign
<1> HIDE DEF e
<1>5. TenOK(Dealloc(Given(theap, a, c), ten[s].h, NoBlock), [ten EXCEPT ![s] = e], lent)
  BY <1>1, <1>3, TenAssigned
<1>6. Faithful(Dealloc(Given(theap, a, c), ten[s].h, NoBlock), [ten EXCEPT ![s] = e],
               [due EXCEPT ![s] = IF a = Null \/ p.v = Undef THEN Due(Undef) ELSE p])
  BY <1>1, <1>3, FaithAssigned
<1>7. QED
  BY <1>4, <1>5, <1>6 DEF TenInv

\* A tensor gives up its memory.
LEMMA VacateInv ==
    ASSUME TenInv, NEW s \in TenSlots, NEW e, EmptyTensor(e), Vacate(s, e)
    PROVE  TenInv'
<1>1. TenOK(theap, ten, lent) /\ Faithful(theap, ten, due)
  BY DEF TenInv
<1>2. /\ theap' = Dealloc(theap, ten[s].h, NoBlock) /\ ten' = [ten EXCEPT ![s] = e]
      /\ due' = [due EXCEPT ![s] = Due(Undef)] /\ lent' = lent
  BY DEF Vacate
<1>3. TenOK(Dealloc(theap, ten[s].h, NoBlock), [ten EXCEPT ![s] = e], lent)
  BY <1>1, TenFreed
<1>4. Faithful(Dealloc(theap, ten[s].h, NoBlock), [ten EXCEPT ![s] = e],
               [due EXCEPT ![s] = Due(Undef)])
  BY <1>1, FaithVacated DEF EmptyTensor
<1>5. QED
  BY <1>2, <1>3, <1>4 DEF TenInv

\* Creation, destruction and writing from the host.
LEMMA TenSimpleInv ==
    ASSUME TenInv, NEW s \in TenSlots, TenCreate(s) \/ TenDestroy(s) \/ TenWrite(s)
    PROVE  TenInv'
<1>1. /\ TenOK(theap, ten, lent) /\ theap \in [Addrs -> TenBlock]
      /\ \A a \in Addrs : Clean(theap[a]) /\ (theap[a].dev = Null => theap[a] = NoBlock)
      /\ Owning(Addrs, TenSlots, theap, HandlesOf(ten), lent)
      /\ HandlesOf(ten)[s] = ten[s].h /\ InPlace(theap, ten[s], lent)
  BY DEF TenInv, TenOK, HandlesOf
<1>2. CASE TenCreate(s)
  <2>1. PICK d \in Devices : \E v \in {Blank(d), "zero", "a"}, a \in DeviceAllocate(theap, d) :
          Assign(s, d, a, Holding(d, v), Due(v))
    BY <1>2 DEF TenCreate
  <2>2. PICK v \in {Blank(d), "zero", "a"}, a \in DeviceAllocate(theap, d) :
          Assign(s, d, a, Holding(d, v), Due(v))
    BY <2>1
  <2>3. v \in Content
    BY DEF Content, Blank
  <2>4. PICK c : c = Holding(d, v)
    OBVIOUS
  <2>5. Clean(c) /\ c.dev = d /\ c.val = v
    BY <2>3, <2>4, HoldingClean
  <2>6. Due(v) \in DueRecord /\ Met(c.val, Due(v))
    BY <2>3, <2>5, NothingDue DEF Met
  <2>7. Assign(s, d, a, c, Due(v))
    BY <2>2, <2>4
  <2>8. QED
    BY <2>5, <2>6, <2>7, AssignInv
<1>3. CASE TenDestroy(s)
  <2> DEFINE x0 == [dev |-> Null, h |-> NoHandle]
  <2>1. EmptyTensor(x0)
    BY NoTenHandle
  <2>2. Vacate(s, x0)
    BY <1>3 DEF TenDestroy
  <2> HIDE DEF x0
  <2>3. QED
    BY <2>1, <2>2, VacateInv
<1>4. CASE TenWrite(s)
  <2>1. PICK a : a = ten[s].h.data
    OBVIOUS
  <2>2. PICK v \in {"zero", "a"} :
          /\ ten[s].dev # Null /\ a # Null
          /\ theap' = [theap EXCEPT ![a] = Holding(theap[a].dev, v)]
          /\ ten' = ten /\ lent' = lent /\ due' = [due EXCEPT ![s] = Due(v)]
    BY <1>4, <2>1 DEF TenWrite, Usable
  <2>3. a \in Addrs /\ theap[a].dev = ten[s].dev
    BY <1>1, <2>1, <2>2 DEF Owning, InPlace
  <2>4. PICK d \in Devices \cup {Null} : d = theap[a].dev
    BY <1>1, <2>3 DEF TenBlock
  <2>5. PICK c : c = Holding(d, v)
    OBVIOUS
  <2>6. Clean(c) /\ c.dev = theap[a].dev /\ c.val = v
    BY <2>4, <2>5, HoldingClean DEF Content
  <2>7. TenOK([theap EXCEPT ![a] = c], ten, lent)
    BY <1>1, <2>2, <2>3, <2>6, TenWritten
  <2>8. theap' = [theap EXCEPT ![a] = c]
    BY <2>2, <2>4, <2>5
  <2>9. Due(v) \in DueRecord /\ Met(theap'[a].val, Due(v))
    BY <1>1, <2>3, <2>6, <2>8, NothingDue DEF Content, Met
  <2>10. Faithful(theap', ten, [due EXCEPT ![s] = Due(v)])
    BY <1>1, <2>1, <2>2, <2>8, <2>9, FaithWritten DEF TenInv
  <2>11. QED
    BY <2>2, <2>7, <2>8, <2>10 DEF TenInv
<1>5. QED
  BY <1>2, <1>3, <1>4

\* What two tensors of a client share.
LEMMA PairFacts ==
    ASSUME TenInv, NEW t \in TenSlots
    PROVE  /\ TenOK(theap, ten, lent) /\ theap \in [Addrs -> TenBlock]
           /\ Faithful(theap, ten, due) /\ due[t] \in DueRecord
           /\ (ten[t].h.data # Null => Met(theap[ten[t].h.data].val, due[t]))
           /\ (ten[t].h.data = Null => Met(Undef, due[t]))
           /\ ten \in [TenSlots -> TensorOf] /\ ten[t] \in TensorOf
           /\ ten[t].dev \in Devices \cup {Null} /\ ten[t].h \in TenHandle
           /\ ten[t].h.data \in Addrs \cup {Null}
           /\ (ten[t].h.data # Null => /\ Clean(theap[ten[t].h.data])
                                       /\ theap[ten[t].h.data].dev = ten[t].dev
                                       /\ ten[t].dev \in Devices)
<1>1. /\ TenOK(theap, ten, lent) /\ theap \in [Addrs -> TenBlock]
      /\ ten \in [TenSlots -> TensorOf] /\ ten[t] \in TensorOf
      /\ ten[t].dev \in Devices \cup {Null} /\ ten[t].h \in TenHandle
      /\ ten[t].h.data \in Addrs \cup {Null}
  BY DEF TenInv, TenOK, TensorOf, TenHandle
<1>2. ASSUME ten[t].h.data # Null
      PROVE  /\ Clean(theap[ten[t].h.data]) /\ theap[ten[t].h.data].dev = ten[t].dev
             /\ ten[t].dev \in Devices
  <2>1. /\ Clean(theap[ten[t].h.data]) /\ theap[ten[t].h.data].dev = ten[t].dev
    BY <1>1, <1>2 DEF TenOK, InPlace
  <2>2. HandlesOf(ten)[t] = ten[t].h
    BY DEF HandlesOf
  <2>3. Owning(Addrs, TenSlots, theap, HandlesOf(ten), lent) /\ InPlace(theap, ten[t], lent)
    BY <1>1 DEF TenOK
  <2>4. theap[ten[t].h.data].dev # Null
    BY <1>1, <1>2, <2>2, <2>3 DEF Owning, InPlace
  <2>5. QED
    BY <1>1, <2>1, <2>4
<1>3. /\ Faithful(theap, ten, due) /\ due[t] \in DueRecord
      /\ (ten[t].h.data # Null => Met(theap[ten[t].h.data].val, due[t]))
      /\ (ten[t].h.data = Null => Met(Undef, due[t]))
  <2>1. Faithful(theap, ten, due)
    BY DEF TenInv
  <2>2. due[t] \in DueRecord /\ Held(theap, ten[t], due[t])
    BY <2>1 DEF Faithful
  <2>3. QED
    BY <2>1, <2>2 DEF Held, Met
<1>4. QED
  BY <1>1, <1>2, <1>3

\* Moves.
LEMMA TenMoveInv ==
    ASSUME TenInv, NEW s \in TenSlots, NEW t \in TenSlots, TenMove(s, t)
    PROVE  TenInv'
<1> DEFINE e == [ten[t] EXCEPT !.h = MovedFrom(ten[t].h)]
           x0 == [dev |-> Null, h |-> NoHandle]
<1>1. /\ s # t /\ theap' = Dealloc(theap, ten[s].h, NoBlock) /\ lent' = lent
      /\ ten' = [ten EXCEPT ![s] = ten[t], ![t] = e]
      /\ due' = [due EXCEPT ![s] = due[t], ![t] = Due(Undef)]
  <2>1. /\ s # t /\ theap' = Dealloc(theap, ten[s].h, NoBlock) /\ lent' = lent
        /\ ten' = [ten EXCEPT ![s] = ten[t], ![t].h = MovedFrom(@)]
        /\ due' = [due EXCEPT ![s] = due[t], ![t] = Due(Undef)]
    BY DEF TenMove
  <2>2. ten \in [TenSlots -> TensorOf]
    BY PairFacts
  <2>3. QED
    BY <2>1, <2>2
<1>2. EmptyTensor(e)
  <2>1. PICK h \in TenHandle : h = ten[t].h
    BY PairFacts
  <2>2. Emptied(h) \in TenHandle /\ Emptied(h).data = Null
    BY DEF Emptied, TenHandle
  <2>3. PICK f \in TenHandle : f = MovedFrom(ten[t].h) /\ f.data = Null
    BY <2>1, <2>2 DEF MovedFrom
  <2>4. e = [ten[t] EXCEPT !.h = f]
    BY <2>3
  <2> HIDE DEF e
  <2>5. QED
    BY <2>3, <2>4, PairFacts DEF EmptyTensor, TensorOf
<1>3. EmptyTensor(x0)
  BY NoTenHandle
<1> HIDE DEF e, x0
<1> DEFINE h1 == Dealloc(theap, ten[s].h, NoBlock)
           T1 == [ten EXCEPT ![s] = x0]
           D1 == [due EXCEPT ![s] = Due(Undef)]
<1>4. TenOK(h1, T1, lent) /\ Faithful(h1, T1, D1)
  BY <1>3, PairFacts, TenFreed, FaithVacated DEF EmptyTensor
<1>5. /\ T1[s] = x0 /\ T1[t] = ten[t]
      /\ [T1 EXCEPT ![s] = T1[t], ![t] = e] = [ten EXCEPT ![s] = ten[t], ![t] = e]
  BY <1>1, PairFacts
<1>6. [D1 EXCEPT ![s] = D1[t], ![t] = Due(Undef)] = [due EXCEPT ![s] = due[t], ![t] = Due(Undef)]
  BY <1>1, PairFacts DEF Faithful
<1> HIDE DEF h1, T1, D1
<1>7. T1[s].h.data = Null
  BY <1>3, <1>5 DEF EmptyTensor
<1>8. TenOK(h1, [T1 EXCEPT ![s] = T1[t], ![t] = e], lent)
  BY <1>1, <1>2, <1>4, <1>7, TenMoved
<1>9. Faithful(h1, [T1 EXCEPT ![s] = T1[t], ![t] = e],
               [D1 EXCEPT ![s] = D1[t], ![t] = Due(Undef)])
  <2>1. T1 \in [TenSlots -> TensorOf]
    BY <1>4 DEF TenOK
  <2>2. QED
    BY <1>1, <1>2, <1>4, <1>7, <2>1, FaithMoved
<1>10. QED
  BY <1>1, <1>5, <1>8, <1>9, <1>6 DEF TenInv, h1

\* The copy constructor.
LEMMA TenCopyInv ==
    ASSUME TenInv, NEW s \in TenSlots, NEW t \in TenSlots, TenCopy(s, t)
    PROVE  TenInv'
<1>1. PICK d \in Devices \cup {Null} : d = ten[t].dev
  BY PairFacts
<1>2. CASE ten[t].h.data = Null
  <2> DEFINE x == [dev |-> d, h |-> NoHandle]
  <2>1. EmptyTensor(x)
    BY NoTenHandle
  <2>2. Vacate(s, x)
    BY <1>1, <1>2 DEF TenCopy
  <2> HIDE DEF x
  <2>3. QED
    BY <2>1, <2>2, VacateInv
<1>3. CASE ten[t].h.data # Null
  <2>1. PICK src : src = theap[ten[t].h.data]
    OBVIOUS
  <2>2. /\ Clean(src) /\ d \in Devices /\ src.dev = d
        /\ due[t] \in DueRecord /\ Met(src.val, due[t])
    BY <1>1, <1>3, <2>1, PairFacts
  <2>3. PICK lost \in SUBSET {"copy", "view"} : lost = IF d = CPU THEN {} ELSE {"copy"}
    OBVIOUS
  <2>4. PICK p : p = [due[t] EXCEPT !.by = due[t].by \cup lost]
    OBVIOUS
  <2>5. PICK a \in DeviceAllocate(theap, d) :
          Assign(s, d, a, CopyToDevice(d, Holding(d, Blank(d)), src), p)
    BY <1>1, <1>3, <2>1, <2>3, <2>4 DEF TenCopy
  <2>6. PICK c : c = CopyToDevice(d, Holding(d, Blank(d)), src)
    OBVIOUS
  <2>7. Clean(c) /\ c.dev = d /\ (d = CPU => c.val = src.val)
    <3>1. PICK w \in Content : w = Blank(d)
      BY DEF Blank, Content
    <3>2. PICK new : new = Holding(d, w)
      OBVIOUS
    <3>3. Clean(new) /\ new.dev = d
      BY <3>2, HoldingClean
    <3>4. c = CopyToDevice(d, new, src)
      BY <2>6, <3>1, <3>2
    <3>5. Clean(c) /\ c.dev = new.dev /\ (d = CPU => c.val = src.val)
      BY <2>2, <3>3, <3>4, CopyClean
    <3>6. QED
      BY <3>3, <3>5
  <2>8. p \in DueRecord /\ Met(c.val, p)
    <3>1. p \in DueRecord /\ p.v = due[t].v /\ p.by = due[t].by \cup lost
      BY <2>2, <2>4 DEF DueRecord
    <3>2. p.by = {} => due[t].by = {} /\ d = CPU
      BY <2>3, <3>1
    <3>3. QED
      BY <2>2, <2>7, <3>1, <3>2 DEF Met
  <2>9. Assign(s, d, a, c, p)
    BY <2>5, <2>6
  <2>10. QED
    BY <2>2, <2>7, <2>8, <2>9, AssignInv
<1>4. QED
  BY <1>2, <1>3

\* clone and to.
LEMMA TenToInv ==
    ASSUME TenInv, NEW s \in TenSlots, NEW t \in TenSlots, TenTo(s, t)
    PROVE  TenInv'
<1>1. PICK d \in Devices :
        \E a \in DeviceAllocate(theap, d) : Assign(s, d, a, FilledFrom(d, t), due[t])
  BY DEF TenTo
<1>2. PICK a \in DeviceAllocate(theap, d) : Assign(s, d, a, FilledFrom(d, t), due[t])
  BY <1>1
<1>3. PICK c : c = FilledFrom(d, t)
  OBVIOUS
<1>4. Clean(c) /\ c.dev = d /\ Met(c.val, due[t])
  <2>1. PICK w \in Content : w = Blank(d)
    BY DEF Blank, Content
  <2>2. PICK new : new = Holding(d, w)
    OBVIOUS
  <2>3. Clean(new) /\ new.dev = d
    BY <2>2, HoldingClean
  <2>4. Clean(Holding(d, "zero")) /\ Holding(d, "zero").dev = d
    BY HoldingClean DEF Content
  <2>5. CASE ten[t].h.data # Null
    <3>1. PICK src : src = theap[ten[t].h.data]
      OBVIOUS
    <3>2. Clean(src) /\ Met(src.val, due[t])
      BY <2>5, <3>1, PairFacts
    <3>3. c = CopyFrom(new, src)
      BY <1>3, <2>1, <2>2, <2>5, <3>1 DEF FilledFrom
    <3>4. QED
      BY <2>3, <3>2, <3>3, CopyClean
  <2>6. CASE ten[t].h.data = Null
    <3>1. c = new \/ c = Holding(d, "zero")
      BY <1>3, <2>1, <2>2, <2>6 DEF FilledFrom
    <3>2. Met(c.val, due[t])
      BY <2>6, PairFacts DEF Met
    <3>3. QED
      BY <2>3, <2>4, <3>1, <3>2
  <2>7. QED
    BY <2>5, <2>6
<1>5. Assign(s, d, a, c, due[t])
  BY <1>2, <1>3
<1>6. QED
  BY <1>4, <1>5, PairFacts, AssignInv

\* copy_from another tensor.
LEMMA TenCopyFromInv ==
    ASSUME TenInv, NEW s \in TenSlots, NEW t \in TenSlots, TenCopyFrom(s, t)
    PROVE  TenInv'
<1>1. PICK a : a = ten[s].h.data
  OBVIOUS
<1>2. PICK b : b = ten[t].h.data
  OBVIOUS
<1>3. /\ a # Null /\ ten' = ten /\ lent' = lent
      /\ due' = [due EXCEPT ![s] = due[t]]
      /\ theap' = IF b # Null THEN [theap EXCEPT ![a] = CopyFrom(theap[a], theap[b])]
                  ELSE IF CPU = ten[s].dev \/ ten[s].dev = ten[t].dev THEN theap
                  ELSE [theap EXCEPT ![a] = Holding(ten[s].dev, "zero")]
  BY <1>1, <1>2 DEF TenCopyFrom
<1>4. PICK d \in Devices : d = ten[s].dev
  BY <1>1, <1>3, PairFacts
<1>5. a \in Addrs /\ Clean(theap[a]) /\ theap[a].dev = d /\ d # Null
  BY <1>1, <1>3, <1>4, PairFacts, TenAssumption
<1>6. /\ TenOK(theap, ten, lent) /\ theap \in [Addrs -> TenBlock]
      /\ Faithful(theap, ten, due) /\ due[t] \in DueRecord
  BY PairFacts
<1>7. CASE b # Null
  <2>1. PICK c : c = CopyFrom(theap[a], theap[b])
    OBVIOUS
  <2>2. Clean(theap[b]) /\ Met(theap[b].val, due[t])
    BY <1>2, <1>7, PairFacts
  <2>3. Clean(c) /\ c.dev = theap[a].dev /\ Met(c.val, due[t])
    BY <1>5, <2>1, <2>2, CopyClean
  <2>4. TenOK([theap EXCEPT ![a] = c], ten, lent)
    BY <1>5, <1>6, <2>3, TenWritten
  <2>5. theap' = [theap EXCEPT ![a] = c]
    BY <1>3, <1>7, <2>1
  <2>6. Faithful(theap', ten, [due EXCEPT ![s] = due[t]])
    BY <1>1, <1>3, <1>5, <1>6, <2>3, <2>5, FaithWritten
  <2>7. QED
    BY <1>3, <2>4, <2>5, <2>6 DEF TenInv
<1>8. b = Null => \A v : Met(v, due[t])
  BY <1>2, PairFacts DEF Met
<1>9. CASE b = Null /\ theap' = theap
  <2>1. Faithful(theap, ten, [due EXCEPT ![s] = due[t]])
    BY <1>1, <1>3, <1>6, <1>9, <1>8, FaithWritten
  <2>2. QED
    BY <1>3, <1>6, <1>9, <2>1 DEF TenInv
<1>10. CASE b = Null /\ theap' = [theap EXCEPT ![a] = Holding(ten[s].dev, "zero")]
  <2>1. PICK c : c = Holding(d, "zero")
    OBVIOUS
  <2>2. Clean(c) /\ c.dev = theap[a].dev
    BY <1>5, <2>1, HoldingClean DEF Content
  <2>3. TenOK([theap EXCEPT ![a] = c], ten, lent)
    BY <1>5, <1>6, <2>2, TenWritten
  <2>4. theap' = [theap EXCEPT ![a] = c]
    BY <1>4, <1>10, <2>1
  <2>5. Faithful(theap', ten, [due EXCEPT ![s] = due[t]])
    BY <1>1, <1>3, <1>5, <1>6, <1>10, <1>8, <2>4, FaithWritten
  <2>6. QED
    BY <1>3, <2>3, <2>4, <2>5 DEF TenInv
<1>11. QED
  BY <1>3, <1>7, <1>9, <1>10

\* The clone of a view.
LEMMA TenViewCloneInv ==
    ASSUME TenInv, NEW s \in TenSlots, NEW t \in TenSlots, TenViewClone(s, t)
    PROVE  TenInv'
<1>1. PICK d \in Devices : d = IF ten[t].dev = CPU THEN CPU ELSE Gpu0
  BY TenAssumption
<1>2. PICK src : src = theap[ten[t].h.data]
  OBVIOUS
<1>3. PICK k : k = CopyToDevice(d, Holding(d, Blank(d)), src)
  OBVIOUS
<1>4. PICK strided \in BOOLEAN, a \in DeviceAllocate(theap, d) :
        Assign(s, d, a, k, [v  |-> IF strided THEN Transposed(due[t].v) ELSE due[t].v,
                            by |-> due[t].by \cup (IF strided \/ d # CPU THEN {"view"} ELSE {})])
  BY <1>1, <1>2, <1>3 DEF TenViewClone
<1>5. PICK p : p = [v  |-> IF strided THEN Transposed(due[t].v) ELSE due[t].v,
                    by |-> due[t].by \cup (IF strided \/ d # CPU THEN {"view"} ELSE {})]
  OBVIOUS
<1>6. Clean(k) /\ k.dev = d /\ (d = CPU => k.val = src.val)
  <2>1. PICK w \in Content : w = Blank(d)
    BY DEF Blank, Content
  <2>2. PICK new : new = Holding(d, w)
    OBVIOUS
  <2>3. Clean(new) /\ new.dev = d
    BY <2>2, HoldingClean
  <2>4. Clean(src)
    BY <1>2, PairFacts DEF TenViewClone
  <2>5. QED
    BY <1>3, <2>1, <2>2, <2>3, <2>4, CopyClean
<1>7. p \in DueRecord /\ Met(k.val, p)
  <2>1. due[t] \in DueRecord /\ Met(src.val, due[t])
    BY <1>2, PairFacts DEF TenViewClone
  <2>2. /\ due[t].v \in Content /\ Transposed(due[t].v) \in Content
        /\ due[t].by \in SUBSET {"copy", "view"}
    BY <2>1 DEF DueRecord, Transposed, Content
  <2>3. p \in DueRecord
    BY <1>5, <2>2 DEF DueRecord
  <2>4. p.by = {} => p.v = due[t].v /\ due[t].by = {} /\ d = CPU
    BY <1>5
  <2>5. QED
    BY <1>6, <2>1, <2>3, <2>4 DEF Met
<1>8. Assign(s, d, a, k, p)
  BY <1>4, <1>5
<1>9. QED
  BY <1>6, <1>7, <1>8, AssignInv

\* A tensor without memory borrows a new block of the client's.
LEMMA TenBorrowed ==
    ASSUME NEW heap, NEW T, NEW L, TenOK(heap, T, L), NEW s \in TenSlots, T[s].h.data = Null,
           NEW a \in Addrs, heap[a].dev = Null, NEW d \in Devices,
           NEW c, Clean(c), c.dev = d,
           NEW e \in TensorOf, e.dev = d, e.h.data = a, e.h.fn = Null
    PROVE  TenOK([heap EXCEPT ![a] = c], [T EXCEPT ![s] = e], L \cup {a})
<1> DEFINE h2 == [heap EXCEPT ![a] = c]
           G == [T EXCEPT ![s] = e]
<1>1. /\ heap \in [Addrs -> TenBlock] /\ T \in [TenSlots -> TensorOf]
      /\ Owning(Addrs, TenSlots, heap, HandlesOf(T), L)
      /\ \A x \in Addrs : Clean(heap[x]) /\ (heap[x].dev = Null => heap[x] = NoBlock)
      /\ \A x \in TenSlots : InPlace(heap, T[x], L)
  BY DEF TenOK
<1>2. /\ G \in [TenSlots -> TensorOf] /\ G[s] = e
      /\ \A x \in TenSlots : x # s => G[x] = T[x]
      /\ AgreeOff(TenSlots, s, HandlesOf(T), HandlesOf(G))
      /\ HandlesOf(G)[s] = e.h /\ HandlesOf(T)[s] = T[s].h
      /\ \A x \in TenSlots : HandlesOf(T)[x] = T[x].h
  <2>1. /\ G \in [TenSlots -> TensorOf] /\ G[s] = e
        /\ \A x \in TenSlots : x # s => G[x] = T[x]
    BY <1>1
  <2>2. AgreeOff(TenSlots, s, T, G)
    BY <2>1 DEF AgreeOff
  <2> HIDE DEF G
  <2>3. QED
    BY <2>1, <2>2, HandleAgree
<1> HIDE DEF G
<1>3. d # Null /\ a # Null /\ ~Claims(e.h) /\ ~Claims(T[s].h)
  BY TenAssumption DEF Claims
<1>4. h2 \in [Addrs -> TenBlock] /\ AgreeOff(Addrs, a, heap, h2) /\ h2[a] = c
  BY <1>1 DEF AgreeOff, Clean
<1> HIDE DEF h2
<1>5. Owning(Addrs, TenSlots, h2, HandlesOf(T), L \cup {a})
  BY <1>1, <1>3, <1>4, OwnLent
<1>6. Owning(Addrs, TenSlots, h2, HandlesOf(G), L \cup {a})
  <2>1. /\ HandlesOf(G)[s].data \in Addrs \cup {Null}
        /\ ~Claims(HandlesOf(G)[s]) /\ ~Claims(HandlesOf(T)[s])
        /\ AgreeOff(TenSlots, s, HandlesOf(T), HandlesOf(G))
    BY <1>2, <1>3
  <2>2. QED
    BY <1>5, <2>1, OwnPassed
<1>7. \A x \in Addrs : Clean(h2[x]) /\ (h2[x].dev = Null => h2[x] = NoBlock)
  BY <1>1, <1>3, <1>4 DEF AgreeOff
<1>8. ASSUME NEW x \in TenSlots PROVE InPlace(h2, G[x], L \cup {a})
  <2>1. CASE x = s
    BY <1>2, <1>3, <1>4, <2>1 DEF InPlace
  <2>2. CASE x # s /\ T[x].h.data # Null
    <3>1. G[x] = T[x] /\ InPlace(heap, T[x], L)
      BY <1>1, <1>2, <2>2
    <3>2. T[x].h.data \in Addrs /\ heap[T[x].h.data].dev # Null
      BY <1>1, <1>2, <2>2, <3>1 DEF Owning, InPlace
    <3>3. h2[T[x].h.data] = heap[T[x].h.data]
      BY <1>4, <3>2 DEF AgreeOff
    <3>4. QED
      BY <3>1, <3>3 DEF InPlace
  <2>3. CASE x # s /\ T[x].h.data = Null
    BY <1>2, <2>3 DEF InPlace
  <2>4. QED
    BY <2>1, <2>2, <2>3
<1>9. QED
  BY <1>2, <1>4, <1>6, <1>7, <1>8 DEF TenOK, h2, G

\* External memory, handed over or lent.
LEMMA TenExternalInv ==
    ASSUME TenInv, NEW s \in TenSlots, NEW owns \in BOOLEAN, TenExternal(s, owns)
    PROVE  TenInv'
<1>1. PICK d \in Devices : \E a \in DeviceAllocate(theap, d) \ {Null} :
        /\ theap' = Dealloc([theap EXCEPT ![a] = Holding(d, "a")], ten[s].h, NoBlock)
        /\ ten' = [ten EXCEPT ![s] = [dev |-> d, h |-> [NoHandle EXCEPT !.data = a, !.bytes = 1,
                                                           !.fn = IF owns THEN d ELSE Null]]]
        /\ lent' = IF owns THEN lent ELSE lent \cup {a}
        /\ due' = [due EXCEPT ![s] = Due("a")]
  BY DEF TenExternal
<1>2. PICK a \in DeviceAllocate(theap, d) \ {Null} :
        /\ theap' = Dealloc([theap EXCEPT ![a] = Holding(d, "a")], ten[s].h, NoBlock)
        /\ ten' = [ten EXCEPT ![s] = [dev |-> d, h |-> [NoHandle EXCEPT !.data = a, !.bytes = 1,
                                                           !.fn = IF owns THEN d ELSE Null]]]
        /\ lent' = IF owns THEN lent ELSE lent \cup {a}
        /\ due' = [due EXCEPT ![s] = Due("a")]
  BY <1>1
<1>3. PICK c : c = Holding(d, "a") /\ Clean(c) /\ c.dev = d /\ c.val = "a"
  BY HoldingClean DEF Content
<1>4. PICK fn \in Devices \cup {Null} : fn = IF owns THEN d ELSE Null
  OBVIOUS
<1>5. a \in Addrs /\ theap[a].dev = Null
  BY PairFacts, AllocatedFree
<1> DEFINE e == [dev |-> d, h |-> [NoHandle EXCEPT !.data = a, !.bytes = 1, !.fn = fn]]
<1>6. e \in TensorOf /\ e.dev = d /\ e.h.data = a /\ e.h.fn = fn
  <2> DEFINE e0 == NoHandle
             e1 == [e0 EXCEPT !.data = a]
             e2 == [e1 EXCEPT !.bytes = 1]
             e3 == [e2 EXCEPT !.fn = fn]
  <2>0. e = [dev |-> d, h |-> e3]
    OBVIOUS
  <2> HIDE DEF e, e3
  <2>1. e0 \in TenHandle
    BY NoTenHandle
  <2> HIDE DEF e0
  <2>2. e1 \in TenHandle /\ e1.data = a
    BY <1>5, <2>1 DEF TenHandle
  <2> HIDE DEF e1
  <2>3. e2 \in TenHandle /\ e2.data = a
    BY <2>2 DEF TenHandle
  <2> HIDE DEF e2
  <2>4. e3 \in TenHandle /\ e3.data = a /\ e3.fn = fn
    BY <2>3 DEF TenHandle, e3
  <2>5. QED
    BY <2>0, <2>4 DEF TensorOf
<1>7. /\ theap' = Dealloc([theap EXCEPT ![a] = c], ten[s].h, NoBlock)
      /\ ten' = [ten EXCEPT ![s] = e]
      /\ lent' = IF owns THEN lent ELSE lent \cup {a}
  BY <1>2, <1>3, <1>4
<1> HIDE DEF e
<1>8. TenOK(theap, ten, lent) /\ Faithful(theap, ten, due)
  BY DEF TenInv
<1>9. Faithful(theap', ten', due')
  <2>1. PICK p \in DueRecord : p = Due("a") /\ Met(c.val, p) /\ p.v # Undef
    BY <1>3, NothingDue DEF Met, Content, Undef
  <2>2. Faithful(Dealloc(Given(theap, a, c), ten[s].h, NoBlock), [ten EXCEPT ![s] = e],
                 [due EXCEPT ![s] = IF a = Null \/ p.v = Undef THEN Due(Undef) ELSE p])
    BY <1>6, <1>8, <2>1, FaithAssigned
  <2>3. theap' = Dealloc(Given(theap, a, c), ten[s].h, NoBlock)
    BY <1>7 DEF Given
  <2>4. due' = [due EXCEPT ![s] = IF a = Null \/ p.v = Undef THEN Due(Undef) ELSE p]
    BY <1>2, <2>1
  <2>5. QED
    BY <1>7, <2>2, <2>3, <2>4
<1>10. CASE owns
  <2>1. TenOK(Dealloc(Given(theap, a, c), ten[s].h, NoBlock), [ten EXCEPT ![s] = e], lent)
    BY <1>3, <1>4, <1>6, <1>8, <1>10, TenAssigned
  <2>2. theap' = Dealloc(Given(theap, a, c), ten[s].h, NoBlock)
    BY <1>7 DEF Given
  <2>3. QED
    BY <1>7, <1>10, <1>9, <2>1, <2>2 DEF TenInv
<1>11. CASE ~owns
  <2> DEFINE x0 == [dev |-> Null, h |-> NoHandle]
  <2>1. EmptyTensor(x0)
    BY NoTenHandle
  <2> HIDE DEF x0
  <2> DEFINE h == ten[s].h
             h1 == Dealloc(theap, h, NoBlock)
             T1 == [ten EXCEPT ![s] = x0]
  <2>2. /\ theap \in [Addrs -> TenBlock] /\ ten \in [TenSlots -> TensorOf]
        /\ Owning(Addrs, TenSlots, theap, HandlesOf(ten), lent)
    BY <1>8 DEF TenOK
  <2>3. TenOK(h1, T1, lent)
    BY <1>8, <2>1, TenFreed
  <2>4. HandlesOf(ten)[s] = h
    BY DEF HandlesOf
  <2>5. T1[s] = x0 /\ [ten EXCEPT ![s] = e] = [T1 EXCEPT ![s] = e]
    BY <2>2
  <2> HIDE DEF h, T1
  <2>6. Claims(h) => h.data \in Addrs /\ h.data # a
    BY <1>5, <2>2, <2>4 DEF Owning, Claims
  <2>7. h1[a].dev = Null
    BY <1>5, <2>2, <2>6 DEF Dealloc
  <2>8. Dealloc([theap EXCEPT ![a] = c], h, NoBlock) = [h1 EXCEPT ![a] = c]
    BY <1>5, <2>2, <2>6 DEF Dealloc
  <2> HIDE DEF h1
  <2>9. T1[s].h.data = Null
    BY <2>1, <2>5 DEF EmptyTensor
  <2>10. fn = Null
    BY <1>4, <1>11
  <2>11. TenOK([h1 EXCEPT ![a] = c], [T1 EXCEPT ![s] = e], lent \cup {a})
    BY <1>3, <1>5, <1>6, <2>3, <2>7, <2>9, <2>10, TenBorrowed
  <2>12. QED
    BY <1>7, <1>11, <1>9, <2>5, <2>8, <2>11 DEF TenInv, h
<1>12. QED
  BY <1>10, <1>11

\* The client frees what it lent.
LEMMA TenReturnInv ==
    ASSUME TenInv, TenReturn
    PROVE  TenInv'
<1>1. PICK a \in lent : /\ \A s \in TenSlots : ten[s].h.data # a
                        /\ theap' = [theap EXCEPT ![a] = NoBlock]
                        /\ lent' = lent \ {a} /\ ten' = ten /\ due' = due
  BY DEF TenReturn
<1>2. /\ theap \in [Addrs -> TenBlock] /\ ten \in [TenSlots -> TensorOf]
      /\ Owning(Addrs, TenSlots, theap, HandlesOf(ten), lent)
      /\ \A x \in Addrs : Clean(theap[x]) /\ (theap[x].dev = Null => theap[x] = NoBlock)
      /\ \A x \in TenSlots : InPlace(theap, ten[x], lent)
  BY DEF TenInv, TenOK
<1>3. a \in Addrs
  BY <1>2 DEF Owning
<1>4. /\ theap' \in [Addrs -> TenBlock] /\ AgreeOff(Addrs, a, theap, theap')
      /\ theap'[a] = NoBlock
  BY <1>1, <1>2, <1>3, NoTenHandle DEF AgreeOff, Clean
<1>5. Owning(Addrs, TenSlots, theap', HandlesOf(ten), lent \ {a})
  BY <1>2, <1>3, <1>4, NoTenHandle, OwnLent
<1>6. \A x \in Addrs : Clean(theap'[x]) /\ (theap'[x].dev = Null => theap'[x] = NoBlock)
  BY <1>2, <1>4, NoTenHandle DEF AgreeOff
<1>7. ASSUME NEW x \in TenSlots PROVE InPlace(theap', ten[x], lent \ {a})
  <2>1. ten[x].h.data # a /\ InPlace(theap, ten[x], lent)
    BY <1>1, <1>2
  <2>2. ten[x].h.data # Null => ten[x].h.data \in Addrs
    BY PairFacts
  <2>3. QED
    BY <1>4, <2>1, <2>2 DEF InPlace, AgreeOff
<1>8. TenOK(theap', ten, lent \ {a})
  BY <1>2, <1>4, <1>5, <1>6, <1>7 DEF TenOK
<1>9. Faithful(theap', ten, due)
  <2>1. Faithful(theap, ten, due)
    BY DEF TenInv
  <2>2. \A x \in TenSlots : ten[x].h.data # a /\ (ten[x].h.data # Null => ten[x].h.data \in Addrs)
    BY <1>1, PairFacts
  <2>3. \A x \in TenSlots : Held(theap, ten[x], due[x]) => Held(theap', ten[x], due[x])
    BY <1>4, <2>2 DEF Held, AgreeOff
  <2>4. QED
    BY <2>1, <2>3 DEF Faithful
<1>10. QED
  BY <1>1, <1>8, <1>9 DEF TenInv

\* Every step of a client of tensors.
LEMMA TenInvStep ==
    ASSUME part = "tensors" => TenInv, [Next]_vars
    PROVE  (part = "tensors" => TenInv)'
<1>1. part' = part
  BY DEF Next, RestOf, vars
<1>2. SUFFICES ASSUME part = "tensors" PROVE TenInv'
  BY <1>1
<1>3. TenNext \/ UNCHANGED tenVars
  BY <1>2 DEF Next, RestOf, vars
<1>4. CASE UNCHANGED tenVars
  BY <1>2, <1>4 DEF tenVars, TenInv
<1>5. CASE TenNext
  <2>1. TenInv
    BY <1>2
  <2>2. CASE TenReturn
    BY <2>1, <2>2, TenReturnInv
  <2>3. ASSUME NEW s \in TenSlots,
               TenCreate(s) \/ TenDestroy(s) \/ TenWrite(s)
                 \/ \E owns \in BOOLEAN : TenExternal(s, owns)
        PROVE  TenInv'
    BY <2>1, <2>3, TenSimpleInv, TenExternalInv
  <2>4. ASSUME NEW s \in TenSlots, NEW t \in TenSlots,
               TenMove(s, t) \/ TenCopy(s, t) \/ TenTo(s, t) \/ TenCopyFrom(s, t)
                 \/ TenViewClone(s, t)
        PROVE  TenInv'
    BY <2>1, <2>4, TenMoveInv, TenCopyInv, TenToInv, TenCopyFromInv, TenViewCloneInv
  <2>5. QED
    BY <1>5, <2>2, <2>3, <2>4 DEF TenNext
<1>6. QED
  BY <1>3, <1>4, <1>5

\* Tensor: after any chain of writes, clones, moves and copies between devices,
\* with staging through the host between two CUDA devices, what a tensor should
\* hold is in the memory it refers to, whatever was done since to the tensors it
\* was copied from; for any number of tensors, devices and addresses.
THEOREM TensorValuesKept == Spec => []ValuesKept
<1>1. Init => (part = "tensors" => TenInv)
  BY TenInvInit DEF Init
<1>2. (part = "tensors" => TenInv) => ValuesKept
  BY TenInvSound DEF ValuesKept
<1>3. QED
  BY <1>1, <1>2, TenInvStep, PTL DEF Spec

-----------------------------------------------------------------------------
(* GpuTensor: an address is managed exactly when one owner has it.         *)
GEntry == [kind : {"none", "managed", "device", "pinned"}, bytes : Nat]

GMem == [map : [GAddrs -> GEntry], cur : Int]

GTensor == [data : GAddrs \cup {0}, n : Nat, owns : BOOLEAN]

Holds(g, a) == g.owns /\ g.data = a

Managed(m, a) == m.map[a].kind = "managed"

OwnsNothing(g) == g \in GTensor /\ \A a \in GAddrs : ~Holds(g, a)

GpuOK(m, g) ==
    /\ m \in GMem /\ g \in [GSlots -> GTensor]
    /\ \A a \in GAddrs : Managed(m, a) <=> \E s \in GSlots : Holds(g[s], a)
    /\ \A a \in GAddrs : \A s, t \in GSlots : Holds(g[s], a) /\ Holds(g[t], a) => s = t

GpuInv == GpuOK(gmem, gt)

\* A tensor without memory, and a map without entries.
LEMMA NoGpu0 ==
    /\ OwnsNothing(GEmpty) /\ ~GEmpty.owns /\ GEmpty.data = 0
    /\ GNone \in GEntry /\ GNone.kind = "none"
BY GpuAssumption DEF OwnsNothing, GEmpty, GTensor, Holds, GNone, GEntry

\* The invariant says what the property says.
LEMMA GpuInvSound ==
    ASSUME GpuInv
    PROVE  GpuOwned
<1> SUFFICES ASSUME NEW a \in GAddrs
             PROVE  Cardinality({s \in GSlots : gt[s].owns /\ gt[s].data = a})
                      = (IF gmem.map[a].kind = "managed" THEN 1 ELSE 0)
  BY DEF GpuOwned
<1> DEFINE O == {s \in GSlots : gt[s].owns /\ gt[s].data = a}
<1>1. CASE O = {}
  <2>1. Cardinality(O) = 0
    BY <1>1, FS_EmptySet
  <2>2. ~(gmem.map[a].kind = "managed")
    BY <1>1 DEF GpuInv, GpuOK, Holds, Managed
  <2> HIDE DEF O
  <2>3. QED
    BY <2>1, <2>2 DEF O
<1>2. CASE O # {}
  <2>1. PICK s \in O : TRUE
    BY <1>2
  <2>2. O = {s}
    BY <2>1 DEF GpuInv, GpuOK, Holds
  <2>3. Cardinality(O) = 1
    BY <2>2, FS_Singleton
  <2>4. gmem.map[a].kind = "managed"
    BY <2>1 DEF GpuInv, GpuOK, Holds, Managed
  <2> HIDE DEF O
  <2>5. QED
    BY <2>3, <2>4 DEF O
<1>3. QED
  BY <1>1, <1>2

\* Nothing is allocated at first.
LEMMA GpuInvInit ==
    ASSUME GpuInit
    PROVE  GpuInv
<1> DEFINE none == [a \in GAddrs |-> GNone]
<1>1. gmem = [map |-> none, cur |-> 0] /\ gt = [s \in GSlots |-> GEmpty]
  BY DEF GpuInit
<1>2. none \in [GAddrs -> GEntry] /\ \A a \in GAddrs : none[a].kind = "none"
  BY NoGpu0
<1> HIDE DEF none
<1>3. gmem \in GMem /\ gmem.map = none
  BY <1>1, <1>2 DEF GMem
<1>4. gt \in [GSlots -> GTensor] /\ \A s \in GSlots : gt[s] = GEmpty
  BY <1>1, NoGpu0 DEF OwnsNothing
<1>5. QED
  BY <1>2, <1>3, <1>4, NoGpu0 DEF GpuInv, GpuOK, Managed, OwnsNothing

\* What the destructor leaves managed.
LEMMA DropFacts ==
    ASSUME NEW m \in GMem, NEW h \in GTensor
    PROVE  /\ Drop(m, h) \in GMem
           /\ \A a \in GAddrs : Managed(Drop(m, h), a) <=> Managed(m, a) /\ ~Holds(h, a)
           /\ \A a \in GAddrs : m.map[a] = GNone => Drop(m, h).map[a] = GNone
<1>1. m.map \in [GAddrs -> GEntry] /\ m.cur \in Int /\ h.data \in GAddrs \cup {0}
  BY DEF GMem, GTensor
<1>2. CASE h.owns /\ h.data # 0 /\ Managed(m, h.data)
  <2> DEFINE f == [m.map EXCEPT ![h.data] = GNone]
             c == m.cur - m.map[h.data].bytes
  <2>1. Drop(m, h) = [map |-> f, cur |-> c]
    BY <1>2 DEF Drop, DeallocateKind, Managed
  <2>2. /\ f \in [GAddrs -> GEntry] /\ f[h.data] = GNone
        /\ \A a \in GAddrs : a # h.data => f[a] = m.map[a]
    BY <1>1, <1>2, NoGpu0
  <2>3. m.map[h.data].bytes \in Int
    BY <1>1, <1>2 DEF GEntry
  <2>4. c \in Int
    BY <1>1, <2>3
  <2> HIDE DEF f, c
  <2>5. Drop(m, h) \in GMem /\ Drop(m, h).map = f
    BY <2>1, <2>2, <2>4 DEF GMem
  <2>6. QED
    BY <1>2, <2>2, <2>5, NoGpu0 DEF Managed, Holds
<1>3. CASE ~(h.owns /\ h.data # 0 /\ Managed(m, h.data))
  <2>1. Drop(m, h) = m
    BY <1>3 DEF Drop, DeallocateKind, Managed
  <2>2. QED
    BY <1>3, <2>1, GpuAssumption DEF Holds
<1>4. QED
  BY <1>2, <1>3

\* What an allocation leaves managed.
LEMMA AllocateFacts ==
    ASSUME NEW mem \in GMem, NEW k \in {"managed", "device", "pinned"}, NEW a \in GAddrs,
           NEW n \in Nat
    PROVE  /\ AllocateKind(mem, k, a, n) \in GMem
           /\ AllocateKind(mem, k, a, n).map[a].kind = k
           /\ \A b \in GAddrs : b # a => AllocateKind(mem, k, a, n).map[b] = mem.map[b]
<1> DEFINE b0 == [kind |-> k, bytes |-> n]
           f == [mem.map EXCEPT ![a] = b0]
<1>1. mem.map \in [GAddrs -> GEntry] /\ mem.cur \in Int
  BY DEF GMem
<1>2. b0 \in GEntry /\ b0.kind = k
  BY DEF GEntry
<1>3. AllocateKind(mem, k, a, n) = [map |-> f, cur |-> mem.cur + n]
  BY GpuAssumption DEF AllocateKind
<1> HIDE DEF b0
<1>4. f \in [GAddrs -> GEntry] /\ f[a] = b0 /\ \A b \in GAddrs : b # a => f[b] = mem.map[b]
  BY <1>1, <1>2
<1> HIDE DEF f
<1>5. AllocateKind(mem, k, a, n) \in GMem /\ AllocateKind(mem, k, a, n).map = f
  BY <1>1, <1>3, <1>4 DEF GMem
<1>6. QED
  BY <1>2, <1>4, <1>5

\* A tensor frees its memory.
LEMMA GpuFreed ==
    ASSUME NEW m, NEW g, GpuOK(m, g), NEW s \in GSlots, NEW e, OwnsNothing(e)
    PROVE  GpuOK(Drop(m, g[s]), [g EXCEPT ![s] = e])
<1> DEFINE G == [g EXCEPT ![s] = e]
<1>1. m \in GMem /\ g \in [GSlots -> GTensor] /\ g[s] \in GTensor
  BY DEF GpuOK
<1>2. /\ G \in [GSlots -> GTensor] /\ G[s] = e /\ \A x \in GSlots : x # s => G[x] = g[x]
  BY <1>1 DEF OwnsNothing
<1> HIDE DEF G
<1>3. /\ Drop(m, g[s]) \in GMem
      /\ \A a \in GAddrs : Managed(Drop(m, g[s]), a) <=> Managed(m, a) /\ ~Holds(g[s], a)
  BY <1>1, DropFacts
<1>4. \A a \in GAddrs : Managed(Drop(m, g[s]), a) <=> \E x \in GSlots : Holds(G[x], a)
  BY <1>2, <1>3 DEF GpuOK, OwnsNothing
<1>5. \A a \in GAddrs : \A x, y \in GSlots : Holds(G[x], a) /\ Holds(G[y], a) => x = y
  BY <1>2 DEF GpuOK, OwnsNothing
<1>6. QED
  BY <1>2, <1>3, <1>4, <1>5 DEF GpuOK, G

\* A tensor that owns nothing is given memory.
LEMMA GpuGiven ==
    ASSUME NEW m, NEW g, GpuOK(m, g), NEW s \in GSlots, OwnsNothing(g[s]),
           NEW a \in GAddrs, m.map[a] = GNone, NEW n \in Nat,
           NEW e \in GTensor, e.owns, e.data = a
    PROVE  GpuOK(AllocateKind(m, "managed", a, n), [g EXCEPT ![s] = e])
<1> DEFINE G == [g EXCEPT ![s] = e]
           m2 == AllocateKind(m, "managed", a, n)
<1>1. m \in GMem /\ g \in [GSlots -> GTensor]
  BY DEF GpuOK
<1>2. /\ G \in [GSlots -> GTensor] /\ G[s] = e /\ \A x \in GSlots : x # s => G[x] = g[x]
  BY <1>1
<1>3. m2 \in GMem /\ m2.map[a].kind = "managed" /\ \A b \in GAddrs : b # a => m2.map[b] = m.map[b]
  <2>1. PICK k \in {"managed", "device", "pinned"} : k = "managed"
    OBVIOUS
  <2>2. /\ AllocateKind(m, k, a, n) \in GMem /\ AllocateKind(m, k, a, n).map[a].kind = k
        /\ \A b \in GAddrs : b # a => AllocateKind(m, k, a, n).map[b] = m.map[b]
    <3>1. m \in GMem /\ k \in {"managed", "device", "pinned"} /\ a \in GAddrs /\ n \in Nat
      BY <1>1
    <3>2. AllocateKind(m, k, a, n) \in GMem
      BY <3>1, AllocateFacts
    <3>3. AllocateKind(m, k, a, n).map[a].kind = k
      BY <3>1, AllocateFacts
    <3>4. \A b \in GAddrs : b # a => AllocateKind(m, k, a, n).map[b] = m.map[b]
      BY <3>1, AllocateFacts
    <3>5. QED
      BY <3>2, <3>3, <3>4
  <2>3. m2 = AllocateKind(m, k, a, n)
    BY <2>1
  <2> HIDE DEF m2
  <2>4. QED
    BY <2>1, <2>2, <2>3
<1> HIDE DEF G, m2
<1>4. ~Managed(m, a) /\ \A b \in GAddrs : Managed(m2, b) <=> b = a \/ Managed(m, b)
  BY <1>3, NoGpu0 DEF Managed
<1>5. \A b \in GAddrs : Managed(m2, b) <=> \E x \in GSlots : Holds(G[x], b)
  BY <1>2, <1>4 DEF GpuOK, OwnsNothing, Holds
<1>6. \A b \in GAddrs : \A x, y \in GSlots : Holds(G[x], b) /\ Holds(G[y], b) => x = y
  BY <1>2, <1>4 DEF GpuOK, Holds
<1>7. QED
  BY <1>2, <1>3, <1>5, <1>6 DEF GpuOK, G, m2

\* A tensor that owns nothing takes over what another one has.
LEMMA GpuMoved ==
    ASSUME NEW m, NEW g, GpuOK(m, g), NEW s \in GSlots, NEW t \in GSlots, s # t,
           OwnsNothing(g[s]), NEW e, OwnsNothing(e)
    PROVE  GpuOK(m, [g EXCEPT ![s] = g[t], ![t] = e])
<1> DEFINE G == [g EXCEPT ![s] = g[t], ![t] = e]
<1>1. m \in GMem /\ g \in [GSlots -> GTensor]
  BY DEF GpuOK
<1>2. /\ G \in [GSlots -> GTensor] /\ G[s] = g[t] /\ G[t] = e
      /\ \A x \in GSlots \ {s, t} : G[x] = g[x]
  BY <1>1 DEF OwnsNothing
<1> HIDE DEF G
<1>3. \A a \in GAddrs : Managed(m, a) <=> \E x \in GSlots : Holds(G[x], a)
  BY <1>2 DEF GpuOK, OwnsNothing
<1>4. \A a \in GAddrs : \A x, y \in GSlots : Holds(G[x], a) /\ Holds(G[y], a) => x = y
  BY <1>2 DEF GpuOK, OwnsNothing
<1>5. QED
  BY <1>1, <1>2, <1>3, <1>4 DEF GpuOK, G

\* A tensor that owns nothing borrows.
LEMMA GpuBorrowed ==
    ASSUME NEW m, NEW g, GpuOK(m, g), NEW s \in GSlots, OwnsNothing(g[s]),
           NEW e, OwnsNothing(e)
    PROVE  GpuOK(m, [g EXCEPT ![s] = e])
<1> DEFINE G == [g EXCEPT ![s] = e]
<1>1. m \in GMem /\ g \in [GSlots -> GTensor]
  BY DEF GpuOK
<1>2. /\ G \in [GSlots -> GTensor] /\ G[s] = e /\ \A x \in GSlots : x # s => G[x] = g[x]
  BY <1>1 DEF OwnsNothing
<1> HIDE DEF G
<1>3. \A a \in GAddrs : Managed(m, a) <=> \E x \in GSlots : Holds(G[x], a)
  BY <1>2 DEF GpuOK, OwnsNothing
<1>4. \A a \in GAddrs : \A x, y \in GSlots : Holds(G[x], a) /\ Holds(G[y], a) => x = y
  BY <1>2 DEF GpuOK, OwnsNothing
<1>5. QED
  BY <1>1, <1>2, <1>3, <1>4 DEF GpuOK, G

\* What the cases below start from.
LEMMA GpuFacts ==
    ASSUME GpuInv, NEW s \in GSlots
    PROVE  /\ GpuOK(gmem, gt) /\ gmem \in GMem /\ gt \in [GSlots -> GTensor]
           /\ gt[s] \in GTensor /\ gt[s].n \in Nat
           /\ \A m, a : a \in GChoices(m) => a = 0 \/ (a \in GAddrs /\ m.map[a] = GNone)
BY DEF GpuInv, GpuOK, GTensor, GChoices

\* Memory of the other kinds, and reset_stats.
LEMMA GpuClientInv ==
    ASSUME GpuInv, GpuClient \/ ResetStats
    PROVE  GpuInv'
<1>1. gmem \in GMem /\ GpuOK(gmem, gt)
  BY DEF GpuInv, GpuOK
<1>2. gt' = gt /\ gmem' \in GMem /\ \A a \in GAddrs : Managed(gmem', a) <=> Managed(gmem, a)
  <2>1. CASE ResetStats
    <3>1. gmem' = [gmem EXCEPT !.cur = 0] /\ gt' = gt
      BY <2>1 DEF ResetStats
    <3>2. gmem' \in GMem /\ gmem'.map = gmem.map
      BY <1>1, <3>1 DEF GMem
    <3>3. QED
      BY <3>1, <3>2 DEF Managed
  <2>2. CASE GpuClient
    <3>1. PICK k \in {"device", "pinned"} :
            /\ \/ \E n \in GSizes, a \in GChoices(gmem) : gmem' = AllocateKind(gmem, k, a, n)
               \/ \E a \in {b \in GAddrs : gmem.map[b].kind # "managed"} :
                    gmem' = DeallocateKind(gmem, k, a)
            /\ gt' = gt
      BY <2>2 DEF GpuClient
    <3>2. ASSUME NEW n \in GSizes, NEW a \in GChoices(gmem), gmem' = AllocateKind(gmem, k, a, n)
          PROVE  gmem' \in GMem /\ \A b \in GAddrs : Managed(gmem', b) <=> Managed(gmem, b)
      <4>1. n \in Nat /\ k \in {"managed", "device", "pinned"} /\ k # "managed"
        BY GpuAssumption
      <4>2. CASE a = 0
        BY <1>1, <3>2, <4>2 DEF AllocateKind
      <4>3. CASE a # 0
        <5>1. a \in GAddrs /\ gmem.map[a] = GNone
          BY <4>3 DEF GChoices
        <5>2. /\ AllocateKind(gmem, k, a, n) \in GMem
              /\ AllocateKind(gmem, k, a, n).map[a].kind = k
              /\ \A b \in GAddrs : b # a => AllocateKind(gmem, k, a, n).map[b] = gmem.map[b]
          BY <1>1, <4>1, <5>1, AllocateFacts
        <5>3. QED
          BY <3>2, <4>1, <5>1, <5>2, NoGpu0 DEF Managed
      <4>4. QED
        BY <4>2, <4>3
    <3>3. ASSUME NEW a \in GAddrs, gmem.map[a].kind # "managed", gmem' = DeallocateKind(gmem, k, a)
          PROVE  gmem' \in GMem /\ \A b \in GAddrs : Managed(gmem', b) <=> Managed(gmem, b)
      <4>1. CASE gmem' = gmem
        BY <1>1, <4>1
      <4> DEFINE f == [gmem.map EXCEPT ![a] = GNone]
                 c == gmem.cur - gmem.map[a].bytes
      <4>2. CASE gmem' = [map |-> f, cur |-> c]
        <5>1. gmem.map \in [GAddrs -> GEntry] /\ gmem.cur \in Int /\ gmem.map[a].bytes \in Int
          BY <1>1 DEF GMem, GEntry
        <5>2. /\ f \in [GAddrs -> GEntry] /\ f[a] = GNone
              /\ \A b \in GAddrs : b # a => f[b] = gmem.map[b]
          BY <5>1, NoGpu0
        <5>3. c \in Int
          BY <5>1
        <5> HIDE DEF f, c
        <5>4. gmem' \in GMem /\ gmem'.map = f
          BY <4>2, <5>2, <5>3 DEF GMem
        <5>5. QED
          BY <3>3, <5>2, <5>4, NoGpu0 DEF Managed
      <4>3. QED
        BY <3>3, <4>1, <4>2 DEF DeallocateKind
    <3>4. QED
      BY <3>1, <3>2, <3>3
  <2>3. QED
    BY <2>1, <2>2
<1>3. GpuOK(gmem', gt)
  BY <1>1, <1>2 DEF GpuOK
<1>4. QED
  BY <1>2, <1>3 DEF GpuInv

\* Creation and destruction.
LEMMA GpuSimpleInv ==
    ASSUME GpuInv, NEW s \in GSlots, GpuCreate(s) \/ GpuDestroy(s)
    PROVE  GpuInv'
<1>1. CASE GpuCreate(s)
  <2>1. PICK n \in GSizes, a \in GChoices(gmem) :
          /\ gt[s] = GEmpty
          /\ \/ Exit
             \/ Set(AllocateKind(gmem, "managed", a, n),
                    [gt EXCEPT ![s] = [data |-> a, n |-> n, owns |-> TRUE]])
    BY <1>1 DEF GpuCreate
  <2>2. CASE Exit
    BY <2>2 DEF Exit, GpuInv
  <2> DEFINE e == [data |-> a, n |-> n, owns |-> TRUE]
  <2>3. CASE Set(AllocateKind(gmem, "managed", a, n), [gt EXCEPT ![s] = e])
    <3>1. gmem' = AllocateKind(gmem, "managed", a, n) /\ gt' = [gt EXCEPT ![s] = e]
      BY <2>3 DEF Set
    <3>2. n \in Nat /\ (a = 0 \/ (a \in GAddrs /\ gmem.map[a] = GNone))
      BY GpuAssumption, GpuFacts
    <3>3. e \in GTensor /\ e.owns /\ e.data = a
      BY <3>2 DEF GTensor
    <3> HIDE DEF e
    <3>4. CASE a = 0
      <4>1. OwnsNothing(e) /\ gmem' = gmem
        BY <3>1, <3>3, <3>4, GpuAssumption DEF OwnsNothing, Holds, AllocateKind
      <4>2. GpuOK(gmem, [gt EXCEPT ![s] = e])
        BY <2>1, <4>1, NoGpu0, GpuFacts, GpuBorrowed
      <4>3. QED
        BY <3>1, <4>1, <4>2 DEF GpuInv
    <3>5. CASE a # 0
      <4>1. GpuOK(AllocateKind(gmem, "managed", a, n), [gt EXCEPT ![s] = e])
        BY <2>1, <3>2, <3>3, <3>5, NoGpu0, GpuFacts, GpuGiven
      <4>2. QED
        BY <3>1, <4>1 DEF GpuInv
    <3>6. QED
      BY <3>4, <3>5
  <2>4. QED
    BY <2>1, <2>2, <2>3
<1>2. CASE GpuDestroy(s)
  <2>1. gmem' = Drop(gmem, gt[s]) /\ gt' = [gt EXCEPT ![s] = GEmpty]
    BY <1>2 DEF GpuDestroy, Set
  <2>2. GpuOK(Drop(gmem, gt[s]), [gt EXCEPT ![s] = GEmpty])
    BY NoGpu0, GpuFacts, GpuFreed
  <2>3. QED
    BY <2>1, <2>2 DEF GpuInv
<1>3. QED
  BY <1>1, <1>2

\* Views, copies, assignments and moves.
LEMMA GpuPairInv ==
    ASSUME GpuInv, NEW s \in GSlots, NEW t \in GSlots,
           GpuView(s, t) \/ GpuCopyConstruct(s, t) \/ GpuAssign(s, t) \/ GpuMove(s, t)
    PROVE  GpuInv'
<1>1. /\ GpuOK(gmem, gt) /\ gmem \in GMem /\ gt \in [GSlots -> GTensor]
      /\ gt[s] \in GTensor /\ gt[t] \in GTensor /\ gt[t].n \in Nat
      /\ gt[t].data \in GAddrs \cup {0}
  BY GpuFacts DEF GTensor
<1>2. CASE Exit
  BY <1>2 DEF Exit, GpuInv
<1>3. CASE GpuView(s, t)
  <2>1. PICK n \in GSizes :
          /\ gt[s] = GEmpty /\ gmem' = gmem
          /\ gt' = [gt EXCEPT ![s] = [data |-> gt[t].data, n |-> n, owns |-> FALSE]]
    BY <1>3 DEF GpuView, Set
  <2> DEFINE e == [data |-> gt[t].data, n |-> n, owns |-> FALSE]
  <2>2. OwnsNothing(e)
    BY <1>1, GpuAssumption DEF OwnsNothing, Holds, GTensor
  <2> HIDE DEF e
  <2>3. GpuOK(gmem, [gt EXCEPT ![s] = e])
    BY <1>1, <2>1, <2>2, NoGpu0, GpuBorrowed
  <2>4. QED
    BY <2>1, <2>3 DEF GpuInv, e
<1>4. CASE GpuCopyConstruct(s, t)
  <2>0. gt[s] = GEmpty
    BY <1>4 DEF GpuCopyConstruct
  <2>1. CASE gt[t].data # 0 /\ gt[t].owns
    <3>1. PICK a \in GChoices(gmem) :
            IF a = 0 THEN Exit
            ELSE Set(AllocateKind(gmem, "managed", a, gt[t].n),
                     [gt EXCEPT ![s] = [gt[t] EXCEPT !.data = a]])
      BY <1>4, <2>1 DEF GpuCopyConstruct
    <3>2. CASE a # 0
      <4> DEFINE e == [gt[t] EXCEPT !.data = a]
      <4>1. gmem' = AllocateKind(gmem, "managed", a, gt[t].n) /\ gt' = [gt EXCEPT ![s] = e]
        BY <3>1, <3>2 DEF Set
      <4>2. a \in GAddrs /\ gmem.map[a] = GNone
        BY <3>2, GpuFacts
      <4>3. e \in GTensor /\ e.owns /\ e.data = a
        BY <1>1, <2>1, <4>2 DEF GTensor
      <4> HIDE DEF e
      <4>4. GpuOK(AllocateKind(gmem, "managed", a, gt[t].n), [gt EXCEPT ![s] = e])
        BY <1>1, <2>0, <4>2, <4>3, NoGpu0, GpuGiven
      <4>5. QED
        BY <4>1, <4>4 DEF GpuInv
    <3>3. QED
      BY <1>2, <3>1, <3>2
  <2>2. CASE ~(gt[t].data # 0 /\ gt[t].owns)
    <3> DEFINE e == [gt[t] EXCEPT !.owns = FALSE]
    <3>1. gmem' = gmem /\ gt' = [gt EXCEPT ![s] = e]
      BY <1>4, <2>2 DEF GpuCopyConstruct, Set
    <3>2. OwnsNothing(e)
      BY <1>1 DEF OwnsNothing, Holds, GTensor
    <3> HIDE DEF e
    <3>3. GpuOK(gmem, [gt EXCEPT ![s] = e])
      BY <1>1, <2>0, <3>2, NoGpu0, GpuBorrowed
    <3>4. QED
      BY <3>1, <3>3 DEF GpuInv
  <2>3. QED
    BY <2>1, <2>2
<1> DEFINE freed == Drop(gmem, gt[s])
           G1 == [gt EXCEPT ![s] = GEmpty]
<1>5. GpuOK(freed, G1)
  BY <1>1, NoGpu0, GpuFreed
<1>6. G1[s] = GEmpty /\ \A e : [gt EXCEPT ![s] = e] = [G1 EXCEPT ![s] = e]
  BY <1>1
<1>7. CASE GpuAssign(s, t)
  <2>1. PICK a \in GChoices(freed) :
          \/ Exit
          \/ /\ a # 0
             /\ Set(AllocateKind(freed, "managed", a, gt[t].n),
                    [gt EXCEPT ![s] = [gt[t] EXCEPT !.data = a, !.owns = TRUE]])
    BY <1>7 DEF GpuAssign
  <2> HIDE DEF freed, G1
  <2> DEFINE e == [gt[t] EXCEPT !.data = a, !.owns = TRUE]
  <2>2. CASE a # 0 /\ Set(AllocateKind(freed, "managed", a, gt[t].n), [gt EXCEPT ![s] = e])
    <3>1. gmem' = AllocateKind(freed, "managed", a, gt[t].n) /\ gt' = [gt EXCEPT ![s] = e]
      BY <2>2 DEF Set
    <3>2. a \in GAddrs /\ freed.map[a] = GNone
      BY <2>2, GpuFacts
    <3>3. e \in GTensor /\ e.owns /\ e.data = a
      <4> DEFINE e1 == [gt[t] EXCEPT !.data = a]
      <4>1. e = [e1 EXCEPT !.owns = TRUE]
        OBVIOUS
      <4>2. e1 \in GTensor /\ e1.data = a
        BY <1>1, <3>2 DEF GTensor
      <4> HIDE DEF e, e1
      <4>3. QED
        BY <4>1, <4>2 DEF GTensor
    <3> HIDE DEF e
    <3>4. GpuOK(AllocateKind(freed, "managed", a, gt[t].n), [G1 EXCEPT ![s] = e])
      BY <1>1, <1>5, <1>6, <3>2, <3>3, NoGpu0, GpuGiven
    <3>5. QED
      BY <1>6, <3>1, <3>4 DEF GpuInv
  <2>3. QED
    BY <1>2, <2>1, <2>2
<1>8. CASE GpuMove(s, t)
  <2>1. /\ s # t /\ gmem' = freed /\ gt' = [gt EXCEPT ![s] = gt[t], ![t] = GEmpty]
    BY <1>8 DEF GpuMove, Set
  <2>2. G1[t] = gt[t]
        /\ [G1 EXCEPT ![s] = G1[t], ![t] = GEmpty] = [gt EXCEPT ![s] = gt[t], ![t] = GEmpty]
    BY <1>1, <2>1
  <2> HIDE DEF freed, G1
  <2>3. GpuOK(freed, [G1 EXCEPT ![s] = G1[t], ![t] = GEmpty])
    BY <1>5, <1>6, <2>1, NoGpu0, GpuMoved
  <2>4. QED
    BY <2>1, <2>2, <2>3 DEF GpuInv
<1>9. QED
  BY <1>3, <1>4, <1>7, <1>8

\* Every step of a client of GpuTensor.
LEMMA GpuInvStep ==
    ASSUME part = "gpu" => GpuInv, [Next]_vars
    PROVE  (part = "gpu" => GpuInv)'
<1>1. part' = part
  BY DEF Next, RestOf, vars
<1>2. SUFFICES ASSUME part = "gpu" PROVE GpuInv'
  BY <1>1
<1>3. GpuNext \/ UNCHANGED gpuVars
  BY <1>2 DEF Next, RestOf, vars
<1>4. CASE UNCHANGED gpuVars
  BY <1>2, <1>4 DEF gpuVars, GpuInv
<1>5. CASE GpuNext
  BY <1>2, <1>5, GpuClientInv, GpuSimpleInv, GpuPairInv DEF GpuNext
<1>6. QED
  BY <1>3, <1>4, <1>5

-----------------------------------------------------------------------------
(* Streams.  Every non-null handle is in one place at most, said place by  *)
(* place and not with counts.                                              *)

\* What a Stream may hold.
AnyStream == StreamHandles \cup {NoStream}

\* No two of the Streams S, the current stream c and the pool A hold the handle h.
Apart(S, c, A, h) ==
    /\ \A s, t \in StreamSlots : S[s] = h /\ S[t] = h => s = t
    /\ \A i, j \in 1 .. Len(A) : A[i] = h /\ A[j] = h => i = j
    /\ \A s \in StreamSlots : \A i \in 1 .. Len(A) : ~(S[s] = h /\ A[i] = h)
    /\ \A s \in StreamSlots : ~(S[s] = h /\ c = h)
    /\ \A i \in 1 .. Len(A) : ~(c = h /\ A[i] = h)

StreamOK(S, c, A) ==
    /\ S \in [StreamSlots -> AnyStream] /\ c \in AnyStream
    /\ A \in Seq(AnyStream) /\ Len(A) <= PoolSize
    /\ \A h \in StreamHandles : Apart(S, c, A, h)

StreamInv == StreamOK(streams, current, available)

\* A set in which no two members are different has at most one.
LEMMA AtMostOne ==
    ASSUME NEW T, \A x, y \in T : x = y
    PROVE  (T = {} => Cardinality(T) = 0) /\ (T # {} => Cardinality(T) = 1)
<1>1. ASSUME T = {} PROVE Cardinality(T) = 0
  BY <1>1, FS_EmptySet
<1>2. ASSUME T # {} PROVE Cardinality(T) = 1
  <2>1. PICK x \in T : TRUE
    BY <1>2
  <2>2. T = {x}
    BY <2>1
  <2>3. QED
    BY <2>2, FS_Singleton
<1>3. QED
  BY <1>1, <1>2

\* Apart is what StreamsOwned counts.
LEMMA StreamInvSound ==
    ASSUME StreamInv
    PROVE  StreamsOwned
<1>1. Len(available) <= PoolSize /\ available \in Seq(AnyStream)
  BY DEF StreamInv, StreamOK
<1>2. ASSUME NEW h \in StreamHandles
      PROVE  Cardinality({s \in StreamSlots : streams[s] = h}) + (IF current = h THEN 1 ELSE 0)
               + Cardinality({i \in DOMAIN available : available[i] = h}) <= 1
  <2> DEFINE P == {s \in StreamSlots : streams[s] = h}
             Q == {i \in DOMAIN available : available[i] = h}
             c == IF current = h THEN 1 ELSE 0
  <2>1. Apart(streams, current, available, h) /\ DOMAIN available = 1 .. Len(available)
    BY <1>1 DEF StreamInv, StreamOK
  <2>2. (\A x, y \in P : x = y) /\ (\A x, y \in Q : x = y)
    BY <2>1 DEF Apart
  <2>3. (P = {} \/ Q = {}) /\ (P # {} => c = 0) /\ (Q # {} => c = 0)
    BY <2>1 DEF Apart
  <2>4. c \in {0, 1}
    OBVIOUS
  <2> HIDE DEF P, Q, c
  <2>5. (P = {} => Cardinality(P) = 0) /\ (P # {} => Cardinality(P) = 1)
    BY <2>2, AtMostOne
  <2>6. (Q = {} => Cardinality(Q) = 0) /\ (Q # {} => Cardinality(Q) = 1)
    BY <2>2, AtMostOne
  <2>7. Cardinality(P) + c + Cardinality(Q) <= 1
    BY <2>3, <2>4, <2>5, <2>6
  <2>8. QED
    BY <2>7 DEF P, Q, c
<1>3. QED
  BY <1>1, <1>2 DEF StreamsOwned

\* The client's Streams differ at first, and the pool holds null ones.
LEMMA StreamInvInit ==
    ASSUME StreamInit
    PROVE  StreamInv
<1>1. streams \in [StreamSlots -> AnyStream] /\ current = NoStream
  BY DEF StreamInit, AnyStream
<1>2. /\ available \in Seq(AnyStream) /\ Len(available) = PoolSize
      /\ \A i \in 1 .. PoolSize : available[i] = NoStream
  <2>1. available = [i \in 1 .. PoolSize |-> NoStream]
    BY DEF StreamInit
  <2>2. available \in [1 .. PoolSize -> AnyStream]
    BY <2>1 DEF AnyStream
  <2>3. QED
    BY <2>1, <2>2, StreamAssumption
<1>3. ASSUME NEW h \in StreamHandles PROVE Apart(streams, current, available, h)
  BY <1>1, <1>2, <1>3, StreamAssumption DEF Apart, StreamInit
<1>4. QED
  BY <1>1, <1>2, <1>3, StreamAssumption DEF StreamInv, StreamOK, AnyStream

\* Moving a Stream, and moving one into the current stream.
LEMMA StreamMoveInv ==
    ASSUME StreamInv, NEW s \in StreamSlots, NEW t \in StreamSlots,
           MoveStream(s, t) \/ SetCurrent(s)
    PROVE  StreamInv'
<1>1. /\ streams \in [StreamSlots -> AnyStream] /\ current \in AnyStream
      /\ available \in Seq(AnyStream) /\ Len(available) <= PoolSize
      /\ available' = available
  BY DEF StreamInv, StreamOK, MoveStream, SetCurrent
<1>2. streams' \in [StreamSlots -> AnyStream] /\ current' \in AnyStream
  BY <1>1 DEF MoveStream, SetCurrent, AnyStream
<1>3. ASSUME NEW h \in StreamHandles PROVE Apart(streams', current', available', h)
  <2>1. Apart(streams, current, available, h) /\ h # NoStream
    BY StreamAssumption DEF StreamInv, StreamOK
  <2>2. CASE MoveStream(s, t)
    <3>1. /\ current' = current /\ streams'[s] = streams[t] /\ streams'[t] = NoStream
          /\ s # t /\ \A r \in StreamSlots : r # s /\ r # t => streams'[r] = streams[r]
      BY <1>1, <2>2 DEF MoveStream
    <3>2. QED
      BY <1>1, <2>1, <3>1 DEF Apart
  <2>3. CASE SetCurrent(s)
    <3>1. /\ current' = streams[s] /\ streams'[s] = NoStream
          /\ \A r \in StreamSlots : r # s => streams'[r] = streams[r]
      BY <1>1, <2>3 DEF SetCurrent
    <3>2. QED
      BY <1>1, <2>1, <3>1 DEF Apart
  <2>4. QED
    BY <2>2, <2>3
<1>4. QED
  BY <1>1, <1>2, <1>3 DEF StreamInv, StreamOK

\* The first m of a sequence.
LEMMA FrontOf ==
    ASSUME NEW S, NEW s \in Seq(S), NEW m \in Nat, m < Len(s)
    PROVE  /\ SubSeq(s, 1, m) \in Seq(S) /\ Len(SubSeq(s, 1, m)) = m
           /\ \A i \in 1 .. m : SubSeq(s, 1, m)[i] = s[i]
OBVIOUS

\* Taking a Stream out of the pool: its last one, which leaves the pool.
LEMMA GetStreamInv ==
    ASSUME StreamInv, NEW s \in StreamSlots, GetStream(s)
    PROVE  StreamInv'
<1>1. /\ streams \in [StreamSlots -> AnyStream] /\ current \in AnyStream
      /\ available \in Seq(AnyStream) /\ Len(available) <= PoolSize
      /\ current' = current
  BY DEF StreamInv, StreamOK, GetStream
<1>2. CASE available = << >>
  <2>1. /\ available' = available /\ streams' = [streams EXCEPT ![s] = NoStream]
    BY <1>2 DEF GetStream
  <2>2. streams' \in [StreamSlots -> AnyStream]
    BY <1>1, <2>1 DEF AnyStream
  <2>3. ASSUME NEW h \in StreamHandles PROVE Apart(streams', current', available', h)
    <3>1. Apart(streams, current, available, h) /\ h # NoStream
      BY StreamAssumption DEF StreamInv, StreamOK
    <3>2. QED
      BY <1>1, <2>1, <3>1 DEF Apart
  <2>4. QED
    BY <1>1, <2>1, <2>2, <2>3 DEF StreamInv, StreamOK
<1>3. CASE available # << >>
  <2> DEFINE n == Len(available)
  <2>1. n \in Nat /\ n > 0 /\ available[n] \in AnyStream
    BY <1>1, <1>3
  <2>2. /\ streams' = [streams EXCEPT ![s] = available[n]]
        /\ available' = SubSeq(available, 1, n - 1)
    BY <1>3 DEF GetStream, Last, Front
  <2>3. /\ available' \in Seq(AnyStream) /\ Len(available') = n - 1
        /\ \A i \in 1 .. (n - 1) : available'[i] = available[i]
    <3>1. n - 1 \in Nat /\ n - 1 < Len(available)
      BY <2>1
    <3>2. QED
      BY <1>1, <2>2, <3>1, FrontOf
  <2>4. /\ streams' \in [StreamSlots -> AnyStream] /\ streams'[s] = available[n]
        /\ \A r \in StreamSlots : r # s => streams'[r] = streams[r]
    BY <1>1, <2>1, <2>2
  <2>5. ASSUME NEW h \in StreamHandles PROVE Apart(streams', current', available', h)
    <3>1. Apart(streams, current, available, h)
      BY DEF StreamInv, StreamOK
    <3>2. 1 .. (n - 1) \subseteq 1 .. n /\ n \in 1 .. n /\ n \notin 1 .. (n - 1)
      BY <2>1
    <3>3. QED
      BY <1>1, <2>3, <2>4, <3>1, <3>2 DEF Apart
  <2>6. Len(available') <= PoolSize
    BY <1>1, <2>1, <2>3, StreamAssumption
  <2>7. QED
    BY <1>1, <2>3, <2>4, <2>5, <2>6 DEF StreamInv, StreamOK
<1>4. QED
  BY <1>2, <1>3

\* Giving a Stream back to the pool.
LEMMA ReturnStreamInv ==
    ASSUME StreamInv, NEW s \in StreamSlots, ReturnStream(s)
    PROVE  StreamInv'
<1> DEFINE n == Len(available)
<1>1. /\ streams \in [StreamSlots -> AnyStream] /\ current \in AnyStream
      /\ available \in Seq(AnyStream) /\ n < PoolSize
      /\ current' = current
  BY DEF StreamInv, StreamOK, ReturnStream
<1>2. n \in Nat /\ streams[s] \in AnyStream
  BY <1>1
<1>3. /\ available' = Append(available, streams[s])
      /\ streams' = [streams EXCEPT ![s] = NoStream]
  BY DEF ReturnStream
<1>4. /\ available' \in Seq(AnyStream) /\ Len(available') = n + 1
      /\ available'[n + 1] = streams[s]
      /\ \A i \in 1 .. n : available'[i] = available[i]
  BY <1>1, <1>2, <1>3
<1>5. /\ streams' \in [StreamSlots -> AnyStream] /\ streams'[s] = NoStream
      /\ \A r \in StreamSlots : r # s => streams'[r] = streams[r]
  BY <1>1, <1>3 DEF AnyStream
<1>6. ASSUME NEW h \in StreamHandles PROVE Apart(streams', current', available', h)
  <2>1. Apart(streams, current, available, h) /\ h # NoStream
    BY StreamAssumption DEF StreamInv, StreamOK
  <2>2. \A i \in 1 .. (n + 1) : i = n + 1 \/ i \in 1 .. n
    BY <1>2
  <2>3. QED
    BY <1>1, <1>4, <1>5, <2>1, <2>2 DEF Apart
<1>7. Len(available') <= PoolSize
  BY <1>1, <1>2, <1>4, StreamAssumption
<1>8. QED
  BY <1>1, <1>4, <1>5, <1>6, <1>7 DEF StreamInv, StreamOK

\* Every step of the streams.
LEMMA StreamInvStep ==
    ASSUME part = "streams" => StreamInv, [Next]_vars
    PROVE  (part = "streams" => StreamInv)'
<1>1. part' = part
  BY DEF Next, RestOf, vars
<1>2. SUFFICES ASSUME part = "streams" PROVE StreamInv'
  BY <1>1
<1>3. StreamNext \/ UNCHANGED streamVars
  BY <1>2 DEF Next, RestOf, vars
<1>4. CASE UNCHANGED streamVars
  BY <1>2, <1>4 DEF streamVars, StreamInv
<1>5. CASE StreamNext
  BY <1>2, <1>5, StreamMoveInv, GetStreamInv, ReturnStreamInv DEF StreamNext
<1>6. QED
  BY <1>3, <1>4, <1>5

-----------------------------------------------------------------------------
\* Whichever component a behaviour is about, its invariant.
OwnInv ==
    /\ part = "buffers" => BufInv
    /\ part = "tensors" => TenInv
    /\ part = "gpu" => GpuInv
    /\ part = "streams" => StreamInv

\* In every behaviour, whatever is constructed, cloned, moved, resized, adopted,
\* detached, borrowed, freed or returned, a block of memory behind a buffer, a
\* tensor or a GpuTensor has exactly one owner, and a stream handle is in one
\* place: nothing is freed twice, leaked or handed out twice.
THEOREM ResourcesOwnedOnce == Spec => []OwnedOnce
<1>1. Init => OwnInv
  BY BufInvInit, TenInvInit, GpuInvInit, StreamInvInit DEF Init, OwnInv
<1>2. OwnInv /\ [Next]_vars => OwnInv'
  <2> SUFFICES ASSUME OwnInv, [Next]_vars PROVE OwnInv'
    OBVIOUS
  <2>1. (part = "buffers" => BufInv)'
    BY BufInvStep DEF OwnInv
  <2>2. (part = "tensors" => TenInv)'
    BY TenInvStep DEF OwnInv
  <2>3. (part = "gpu" => GpuInv)'
    BY GpuInvStep DEF OwnInv
  <2>4. (part = "streams" => StreamInv)'
    BY StreamInvStep DEF OwnInv
  <2>5. QED
    BY <2>1, <2>2, <2>3, <2>4 DEF OwnInv
<1>3. OwnInv => OwnedOnce
  BY BufInvSound, TenInvSound, GpuInvSound, StreamInvSound DEF OwnInv, OwnedOnce
<1>4. QED
  BY <1>1, <1>2, <1>3, PTL DEF Spec

-----------------------------------------------------------------------------
(* Sums over finite sets, which the statistics of the allocators are about.*)
(* A set of counterexamples among the subsets of a finite set would have a *)
(* minimal member.                                                         *)

\* The member of a set that the sum takes first.
Pick(s) == CHOOSE x \in s : TRUE

\* g gives the sum of f over each subset of S, taken in that order.
Adds(g, f, S) ==
    g = [s \in SUBSET S |-> IF s = {} THEN 0 ELSE f[Pick(s)] + g[s \ {Pick(s)}]]

\* The sum of f over S, as the models take it.
Total(f, S) == MapThenSumSet(LAMBDA a : f[a], S)

\* A recursive definition chooses the function that it describes.
LEMMA TotalIs ==
    ASSUME NEW f, NEW S
    PROVE  Total(f, S) = (CHOOSE g : Adds(g, f, S))[S]
BY DEF Total, Adds, Pick, MapThenSumSet, MapThenFoldSet

\* It is a member.
LEMMA PickIn ==
    ASSUME NEW s, s # {}
    PROVE  Pick(s) \in s
BY DEF Pick

\* What Adds says at a set.
LEMMA AddsAt ==
    ASSUME NEW f, NEW S, NEW g, Adds(g, f, S), NEW s \in SUBSET S
    PROVE  /\ s = {} => g[s] = 0
           /\ s # {} => /\ Pick(s) \in s /\ s \ {Pick(s)} \in SUBSET S
                        /\ g[s] = f[Pick(s)] + g[s \ {Pick(s)}]
<1> DEFINE d(t) == IF t = {} THEN 0 ELSE f[Pick(t)] + g[t \ {Pick(t)}]
<1>1. g = [t \in SUBSET S |-> d(t)]
  BY DEF Adds
<1> HIDE DEF d
<1>2. g[s] = d(s)
  BY <1>1
<1>3. QED
  BY <1>2, PickIn DEF d

\* Over the empty set.
LEMMA AddsEmpty ==
    ASSUME NEW f, NEW S, NEW g, Adds(g, f, S)
    PROVE  g[{}] = 0
<1>1. PICK e \in SUBSET S : e = {}
  OBVIOUS
<1>2. g[e] = 0
  BY <1>1, AddsAt
<1>3. QED
  BY <1>1, <1>2

\* There is one such function: two agree wherever both are defined, for summands
\* that agree there.
LEMMA AddsAgree ==
    ASSUME NEW S, NEW U, NEW f, NEW h, NEW g, NEW k, Adds(g, f, S), Adds(k, h, U),
           NEW V, IsFiniteSet(V), V \subseteq S, V \subseteq U, \A x \in V : f[x] = h[x]
    PROVE  g[V] = k[V]
<1> DEFINE B == {W \in SUBSET V : g[W] # k[W]}
<1> SUFFICES ASSUME B # {} PROVE FALSE
  OBVIOUS
<1>1. PICK T \in B : \A W \in B : W \subseteq T => W = T
  <2>1. B \in SUBSET (SUBSET V)
    OBVIOUS
  <2> HIDE DEF B
  <2>2. QED
    BY <2>1, SubsetMin
<1>2. T \in SUBSET S /\ T \in SUBSET U /\ T \in SUBSET V /\ g[T] # k[T]
  BY <1>1
<1>3. T # {}
  <2>1. g[{}] = 0 /\ k[{}] = 0
    BY AddsEmpty
  <2>2. QED
    BY <1>2, <2>1
<1> DEFINE W == T \ {Pick(T)}
<1>4. Pick(T) \in T /\ g[T] = f[Pick(T)] + g[W] /\ k[T] = h[Pick(T)] + k[W]
  BY <1>2, <1>3, AddsAt
<1>5. W \notin B /\ W \in SUBSET V
  BY <1>1, <1>2, <1>4
<1>6. f[Pick(T)] = h[Pick(T)] /\ g[W] = k[W]
  BY <1>2, <1>4, <1>5
<1>7. QED
  BY <1>2, <1>4, <1>6

\* There is such a function.
LEMMA AddsExists ==
    ASSUME NEW S, IsFiniteSet(S), NEW f
    PROVE  \E g : Adds(g, f, S)
<1> DEFINE B == {W \in SUBSET S : ~ \E g : Adds(g, f, W)}
<1> SUFFICES ASSUME B # {} PROVE FALSE
  OBVIOUS
<1>1. PICK T \in B : \A W \in B : W \subseteq T => W = T
  <2>1. B \in SUBSET (SUBSET S)
    OBVIOUS
  <2> HIDE DEF B
  <2>2. QED
    BY <2>1, SubsetMin
<1>2. \A W \in SUBSET T : W # T => \E g : Adds(g, f, W)
  BY <1>1
<1> DEFINE piece(W) == CHOOSE g : Adds(g, f, W)
           d(s) == IF s = {} THEN 0 ELSE f[Pick(s)] + piece(s \ {Pick(s)})[s \ {Pick(s)}]
           G == [s \in SUBSET T |-> d(s)]
<1>3. \A W \in SUBSET T : W # T => Adds(piece(W), f, W)
  BY <1>2
<1> HIDE DEF piece
<1>4. ASSUME NEW W \in SUBSET T, W # T
      PROVE  d(W) = piece(W)[W]
  <2>1. Adds(piece(W), f, W)
    BY <1>3, <1>4
  <2>2. CASE W = {}
    BY <2>1, <2>2, AddsAt
  <2>3. CASE W # {}
    <3> DEFINE V == W \ {Pick(W)}
    <3>1. Pick(W) \in W /\ V \in SUBSET W /\ piece(W)[W] = f[Pick(W)] + piece(W)[V]
      BY <2>1, <2>3, AddsAt
    <3>2. V # T /\ V \in SUBSET T
      BY <3>1, <1>4
    <3>3. Adds(piece(V), f, V)
      BY <1>3, <3>2
    <3>4. IsFiniteSet(V)
      BY <1>1, <3>2, FS_Subset
    <3>5. piece(V)[V] = piece(W)[V]
      BY <2>1, <3>1, <3>3, <3>4, AddsAgree
    <3>6. QED
      BY <2>3, <3>1, <3>5
  <2>4. QED
    BY <2>2, <2>3
<1>5. ASSUME NEW s \in SUBSET T
      PROVE  d(s) = IF s = {} THEN 0 ELSE f[Pick(s)] + G[s \ {Pick(s)}]
  <2>1. CASE s = {}
    BY <2>1
  <2>2. CASE s # {}
    <3>1. Pick(s) \in s
      BY <2>2, PickIn
    <3>2. s \ {Pick(s)} \in SUBSET T /\ s \ {Pick(s)} # T
      BY <3>1
    <3>3. G[s \ {Pick(s)}] = piece(s \ {Pick(s)})[s \ {Pick(s)}]
      BY <1>4, <3>2
    <3>4. QED
      BY <2>2, <3>3
  <2>3. QED
    BY <2>1, <2>2
<1>6. Adds(G, f, T)
  <2> HIDE DEF d
  <2>1. G = [s \in SUBSET T |-> d(s)]
    OBVIOUS
  <2> HIDE DEF G
  <2>2. [s \in SUBSET T |-> d(s)]
          = [s \in SUBSET T |-> IF s = {} THEN 0 ELSE f[Pick(s)] + G[s \ {Pick(s)}]]
    BY <1>5 DEF G
  <2>3. QED
    BY <2>1, <2>2 DEF Adds
<1>7. QED
  BY <1>1, <1>6

\* Integers have integer sums.
LEMMA AddsInt ==
    ASSUME NEW S, IsFiniteSet(S), NEW f, NEW g, Adds(g, f, S), \A x \in S : f[x] \in Int,
           NEW V \in SUBSET S
    PROVE  g[V] \in Int
<1> DEFINE B == {W \in SUBSET S : ~(g[W] \in Int)}
<1> SUFFICES ASSUME B # {} PROVE FALSE
  OBVIOUS
<1>1. PICK T \in B : \A W \in B : W \subseteq T => W = T
  <2>1. B \in SUBSET (SUBSET S)
    OBVIOUS
  <2> HIDE DEF B
  <2>2. QED
    BY <2>1, SubsetMin
<1>2. T # {}
  <2>1. g[{}] = 0
    BY AddsEmpty
  <2>2. T \in SUBSET S /\ ~(g[T] \in Int)
    BY <1>1
  <2>3. QED
    BY <2>1, <2>2
<1>3. Pick(T) \in T /\ g[T] = f[Pick(T)] + g[T \ {Pick(T)}]
  BY <1>1, <1>2, AddsAt
<1>4. g[T \ {Pick(T)}] \in Int /\ f[Pick(T)] \in Int
  BY <1>1, <1>3
<1>5. QED
  BY <1>1, <1>3, <1>4

\* Any member may be taken first.
LEMMA AddsAny ==
    ASSUME NEW S, IsFiniteSet(S), NEW f, NEW g, Adds(g, f, S), \A x \in S : f[x] \in Int,
           NEW V \in SUBSET S, NEW x \in V
    PROVE  g[V] = f[x] + g[V \ {x}]
<1> DEFINE B == {W \in SUBSET S : \E y \in W : g[W] # f[y] + g[W \ {y}]}
<1> SUFFICES ASSUME B # {} PROVE FALSE
  OBVIOUS
<1>1. PICK T \in B : \A W \in B : W \subseteq T => W = T
  <2>1. B \in SUBSET (SUBSET S)
    OBVIOUS
  <2> HIDE DEF B
  <2>2. QED
    BY <2>1, SubsetMin
<1>2. PICK y \in T : g[T] # f[y] + g[T \ {y}]
  BY <1>1
<1> DEFINE p == Pick(T)
<1>3. p \in T /\ g[T] = f[p] + g[T \ {p}]
  BY <1>1, <1>2, AddsAt
<1>4. p # y
  BY <1>2, <1>3
<1> HIDE DEF p
<1>5. T \ {p} \notin B /\ T \ {y} \notin B /\ T \ {p} \in SUBSET S /\ T \ {y} \in SUBSET S
  BY <1>1, <1>2, <1>3
<1>6. g[T \ {p}] = f[y] + g[(T \ {p}) \ {y}]
  BY <1>2, <1>4, <1>5
<1>7. g[T \ {y}] = f[p] + g[(T \ {y}) \ {p}]
  BY <1>3, <1>4, <1>5
<1>8. (T \ {p}) \ {y} = (T \ {y}) \ {p}
  OBVIOUS
<1>9. f[p] \in Int /\ f[y] \in Int /\ g[(T \ {y}) \ {p}] \in Int
  BY <1>1, <1>2, <1>3, AddsInt
<1>10. QED
  <2> DEFINE r == g[(T \ {y}) \ {p}]
             gp == g[T \ {p}]
             gy == g[T \ {y}]
             fp == f[p]
             fy == f[y]
             all == g[T]
  <2>1. /\ all # fy + gy /\ all = fp + gp /\ gp = fy + r /\ gy = fp + r
        /\ fp \in Int /\ fy \in Int /\ r \in Int
    BY <1>2, <1>3, <1>6, <1>7, <1>8, <1>9
  <2> HIDE DEF r, gp, gy, fp, fy, all
  <2>2. QED
    BY <2>1

\* So the sum is the value of a function that adds.
LEMMA TotalAdds ==
    ASSUME NEW S, IsFiniteSet(S), NEW f
    PROVE  \E g : Adds(g, f, S) /\ Total(f, S) = g[S]
BY AddsExists, TotalIs

\* Sums of integers.
LEMMA TotalInt ==
    ASSUME NEW S, IsFiniteSet(S), NEW f, \A x \in S : f[x] \in Int
    PROVE  Total(f, S) \in Int
BY TotalAdds, AddsInt

\* A sum of which one summand changes.
LEMMA TotalChanged ==
    ASSUME NEW S, IsFiniteSet(S), NEW f, NEW h, \A x \in S : f[x] \in Int /\ h[x] \in Int,
           NEW a \in S, \A x \in S : x # a => f[x] = h[x]
    PROVE  Total(h, S) = Total(f, S) - f[a] + h[a]
<1>1. PICK g : Adds(g, f, S) /\ Total(f, S) = g[S]
  BY TotalAdds
<1>2. PICK k : Adds(k, h, S) /\ Total(h, S) = k[S]
  BY TotalAdds
<1>3. g[S] = f[a] + g[S \ {a}] /\ k[S] = h[a] + k[S \ {a}]
  BY <1>1, <1>2, AddsAny
<1>4. g[S \ {a}] = k[S \ {a}]
  <2>1. IsFiniteSet(S \ {a})
    BY FS_Subset
  <2>2. QED
    BY <1>1, <1>2, <2>1, AddsAgree
<1>5. g[S \ {a}] \in Int /\ f[a] \in Int /\ h[a] \in Int
  BY <1>1, AddsInt
<1>6. QED
  BY <1>1, <1>2, <1>3, <1>4, <1>5

\* A sum of zeros.
LEMMA TotalZero ==
    ASSUME NEW S, IsFiniteSet(S), NEW f, \A x \in S : f[x] = 0
    PROVE  Total(f, S) = 0
<1>1. PICK g : Adds(g, f, S) /\ Total(f, S) = g[S]
  BY TotalAdds
<1> DEFINE B == {W \in SUBSET S : g[W] # 0}
<1> SUFFICES ASSUME B # {} PROVE FALSE
  BY <1>1
<1>2. PICK T \in B : \A W \in B : W \subseteq T => W = T
  <2>1. B \in SUBSET (SUBSET S)
    OBVIOUS
  <2> HIDE DEF B
  <2>2. QED
    BY <2>1, SubsetMin
<1>3. T # {}
  <2>1. g[{}] = 0
    BY <1>1, AddsEmpty
  <2>2. T \in SUBSET S /\ g[T] # 0
    BY <1>2
  <2>3. QED
    BY <2>1, <2>2
<1>4. Pick(T) \in T /\ g[T] = f[Pick(T)] + g[T \ {Pick(T)}]
  BY <1>1, <1>2, <1>3, AddsAt
<1>5. g[T \ {Pick(T)}] = 0 /\ f[Pick(T)] = 0
  BY <1>2, <1>4
<1>6. QED
  BY <1>2, <1>4, <1>5

-----------------------------------------------------------------------------
(* The host allocators.                                                    *)

\* Types, as far as the argument needs them.
AllocTypes ==
    /\ asys \in [AllocAddrs -> Nat] /\ amap \in [AllocAddrs -> Nat]
    /\ acur \in Int /\ apeak \in Int /\ anet \in Int /\ adrift \in Int /\ alost \in Int
    /\ aout \subseteq AllocAddrs
    /\ ado \in [AllocThreads -> [pc : {"idle", "record", "free"}, a : AllocAddrs \cup {0}]]

\* A thread between the two steps of a call has a block that no client has.
Busy(t) == ado[t].pc # "idle"

\* Blocks in hands are blocks of the system, each in one pair of hands.
AllocHeld ==
    /\ \A a \in aout : asys[a] > 0
    /\ \A t \in AllocThreads : Busy(t) => /\ ado[t].a \in AllocAddrs \ aout
                                          /\ asys[ado[t].a] > 0
    /\ \A t, u \in AllocThreads : Busy(t) /\ Busy(u) /\ ado[t].a = ado[u].a => t = u

\* The addresses a map has entries for.
Entries(m) == {a \in AllocAddrs : m[a] > 0}

\* The map and the statistics.
AllocCounted ==
    /\ \A a \in AllocAddrs : amap[a] > 0 => a \in aout /\ amap[a] = asys[a]
    /\ acur = Total(amap, AllocAddrs) + adrift
    /\ anet = Cardinality(Entries(amap)) + alost
    /\ apeak >= acur

AllocInv == AllocTypes /\ AllocHeld /\ AllocCounted

\* The statistics in terms of Total.
LEMMA MapTotals ==
    MapBytes = Total(amap, AllocAddrs) /\ MapCount = Cardinality(Entries(amap))
BY DEF MapBytes, MapCount, Total, Entries

\* The invariant says what the property says.
LEMMA AllocInvSound ==
    ASSUME AllocInv
    PROVE  AllocatorsExact
BY MapTotals DEF AllocInv, AllocCounted, AllocatorsExact

\* The entries are finitely many, and their sizes have a sum.
LEMMA EntriesFinite ==
    ASSUME NEW m \in [AllocAddrs -> Nat]
    PROVE  /\ IsFiniteSet(Entries(m)) /\ Cardinality(Entries(m)) \in Nat
           /\ Total(m, AllocAddrs) \in Int
<1>1. IsFiniteSet(Entries(m))
  BY AllocAssumption, FS_Subset DEF Entries
<1>2. \A x \in AllocAddrs : m[x] \in Int
  OBVIOUS
<1>3. QED
  BY <1>1, <1>2, FS_CardinalityType, TotalInt, AllocAssumption

\* No entries.
LEMMA NoEntries ==
    ASSUME NEW m, \A a \in AllocAddrs : m[a] = 0
    PROVE  Total(m, AllocAddrs) = 0 /\ Cardinality(Entries(m)) = 0
<1>1. Entries(m) = {}
  BY DEF Entries
<1>2. QED
  BY <1>1, TotalZero, FS_EmptySet, AllocAssumption

\* One entry more.
LEMMA EntryMade ==
    ASSUME NEW m \in [AllocAddrs -> Nat], NEW r \in [AllocAddrs -> Nat], NEW a \in AllocAddrs,
           \A b \in AllocAddrs : b # a => r[b] = m[b], m[a] = 0, r[a] > 0
    PROVE  /\ Total(r, AllocAddrs) = Total(m, AllocAddrs) + r[a]
           /\ Cardinality(Entries(r)) = Cardinality(Entries(m)) + 1
<1>1. \A x \in AllocAddrs : m[x] \in Int /\ r[x] \in Int
  OBVIOUS
<1>2. Total(r, AllocAddrs) = Total(m, AllocAddrs) - m[a] + r[a]
  BY <1>1, TotalChanged, AllocAssumption
<1>3. Entries(r) = Entries(m) \cup {a} /\ a \notin Entries(m)
  BY DEF Entries
<1>4. Cardinality(Entries(r)) = Cardinality(Entries(m)) + 1
  <2>1. IsFiniteSet(Entries(m))
    BY EntriesFinite
  <2>2. Cardinality(Entries(m) \cup {a}) = Cardinality(Entries(m)) + 1
    BY <1>3, <2>1, FS_AddElement
  <2>3. QED
    BY <1>3, <2>2
<1>5. QED
  BY <1>2, <1>4, EntriesFinite

\* One entry less, if it was there.
LEMMA EntryErased ==
    ASSUME NEW m \in [AllocAddrs -> Nat], NEW r \in [AllocAddrs -> Nat], NEW a \in AllocAddrs,
           \A b \in AllocAddrs : b # a => r[b] = m[b], r[a] = 0
    PROVE  /\ Total(r, AllocAddrs) = Total(m, AllocAddrs) - m[a]
           /\ Cardinality(Entries(r))
                = Cardinality(Entries(m)) - (IF m[a] = 0 THEN 0 ELSE 1)
<1>1. CASE m[a] = 0
  <2>1. r = m
    BY <1>1
  <2>2. QED
    BY <1>1, <2>1, EntriesFinite
<1>2. CASE m[a] # 0
  <2>1. m[a] > 0 /\ \A b \in AllocAddrs : b # a => m[b] = r[b]
    BY <1>2
  <2>2. /\ Total(m, AllocAddrs) = Total(r, AllocAddrs) + m[a]
        /\ Cardinality(Entries(m)) = Cardinality(Entries(r)) + 1
    BY <2>1, EntryMade
  <2>3. QED
    BY <1>2, <2>2, EntriesFinite
<1>3. QED
  BY <1>1, <1>2

\* Nothing is allocated at first.
LEMMA AllocInvInit ==
    ASSUME AllocInit
    PROVE  AllocInv
<1>1. AllocTypes /\ AllocHeld
  BY DEF AllocInit, AllocTypes, AllocHeld, Busy, Resting
<1>2. \A a \in AllocAddrs : amap[a] = 0
  BY DEF AllocInit
<1>3. Total(amap, AllocAddrs) = 0 /\ Cardinality(Entries(amap)) = 0
  BY <1>2, NoEntries
<1>4. AllocCounted
  BY <1>2, <1>3 DEF AllocCounted, AllocInit
<1>5. QED
  BY <1>1, <1>4 DEF AllocInv

\* A block from the system: nobody has its address.
LEMMA ObtainInv ==
    ASSUME AllocInv, NEW t \in AllocThreads, Obtain(t)
    PROVE  AllocInv'
<1> USE DEF AllocInv
<1>1. PICK n \in AllocSizes \ {0}, a \in AllocAddrs :
        /\ asys[a] = 0
        /\ asys' = [asys EXCEPT ![a] = n]
        /\ ado' = [ado EXCEPT ![t] = [pc |-> "record", a |-> a]]
  BY DEF Obtain
<1>2. UNCHANGED <<amap, acur, apeak, anet, aout, adrift, alost>> /\ n \in Nat /\ n > 0
  BY AllocAssumption DEF Obtain
<1>3. AllocTypes'
  BY <1>1, <1>2 DEF AllocTypes
<1>4. a \notin aout /\ amap[a] = 0 /\ \A u \in AllocThreads : Busy(u) => ado[u].a # a
  <2>1. a \notin aout /\ \A u \in AllocThreads : Busy(u) => ado[u].a # a
    BY <1>1 DEF AllocHeld
  <2>2. QED
    BY <2>1 DEF AllocCounted, AllocTypes
<1>5. \A b \in AllocAddrs : b # a => asys'[b] = asys[b]
  BY <1>1 DEF AllocTypes
<1>6. asys'[a] = n /\ ado'[t].pc = "record" /\ ado'[t].a = a
      /\ \A u \in AllocThreads : u # t => ado'[u] = ado[u]
  BY <1>1 DEF AllocTypes
<1>7. AllocHeld'
  BY <1>2, <1>4, <1>5, <1>6 DEF AllocHeld, Busy, AllocTypes
<1>8. AllocCounted'
  BY <1>2, <1>4, <1>5 DEF AllocCounted, AllocTypes
<1>9. QED
  BY <1>3, <1>7, <1>8

\* Its entry, and the block for the client.
LEMMA RecordInv ==
    ASSUME AllocInv, NEW t \in AllocThreads, Record(t)
    PROVE  AllocInv'
<1> USE DEF AllocInv
<1>1. PICK a : a = ado[t].a
  OBVIOUS
<1>2. a \in AllocAddrs /\ a \notin aout /\ asys[a] \in Nat /\ asys[a] > 0 /\ amap[a] = 0 /\ Busy(t)
  <2>1. Busy(t)
    BY DEF Record, Busy
  <2>2. a \in AllocAddrs /\ a \notin aout /\ asys[a] > 0
    BY <1>1, <2>1 DEF AllocHeld
  <2>3. QED
    BY <2>1, <2>2 DEF AllocCounted, AllocTypes
<1>3. /\ amap' = [amap EXCEPT ![a] = asys[a]] /\ acur' = acur + asys[a]
      /\ apeak' = Larger(apeak, acur + asys[a]) /\ anet' = anet + 1
      /\ aout' = aout \cup {a} /\ ado' = [ado EXCEPT ![t] = Resting]
      /\ UNCHANGED <<asys, adrift, alost>>
  BY <1>1 DEF Record
<1>4. AllocTypes'
  BY <1>2, <1>3 DEF AllocTypes, Larger, Resting
<1>5. ~Busy(t)' /\ \A u \in AllocThreads : u # t => ado'[u] = ado[u]
  BY <1>3 DEF AllocTypes, Busy, Resting
<1>6. AllocHeld'
  BY <1>1, <1>2, <1>3, <1>5 DEF AllocHeld, Busy
<1>7. amap'[a] = asys[a] /\ \A b \in AllocAddrs : b # a => amap'[b] = amap[b]
  BY <1>2, <1>3 DEF AllocTypes
<1>8. /\ Total(amap', AllocAddrs) = Total(amap, AllocAddrs) + asys[a]
      /\ Cardinality(Entries(amap')) = Cardinality(Entries(amap)) + 1
  BY <1>2, <1>4, <1>7, EntryMade DEF AllocTypes
<1>9. Total(amap, AllocAddrs) \in Int /\ Cardinality(Entries(amap)) \in Nat
  BY EntriesFinite DEF AllocTypes
<1>10. AllocCounted'
  <2>1. \A b \in AllocAddrs : amap'[b] > 0 => b \in aout' /\ amap'[b] = asys'[b]
    BY <1>2, <1>3, <1>7 DEF AllocCounted
  <2>2. acur' = Total(amap', AllocAddrs) + adrift'
    BY <1>2, <1>3, <1>8, <1>9 DEF AllocCounted, AllocTypes
  <2>3. anet' = Cardinality(Entries(amap')) + alost'
    BY <1>3, <1>8, <1>9 DEF AllocCounted, AllocTypes
  <2>4. apeak' >= acur'
    BY <1>2, <1>3 DEF Larger, AllocTypes
  <2>5. QED
    BY <2>1, <2>2, <2>3, <2>4 DEF AllocCounted, Entries
<1>11. QED
  BY <1>4, <1>6, <1>10

\* The first step of deallocate.
LEMMA EraseInv ==
    ASSUME AllocInv, NEW t \in AllocThreads, Erase(t)
    PROVE  AllocInv'
<1> USE DEF AllocInv
<1>1. PICK a \in aout :
        /\ aout' = aout \ {a}
        /\ ado' = [ado EXCEPT ![t] = [pc |-> "free", a |-> a]]
        /\ amap' = [amap EXCEPT ![a] = 0]
        /\ acur' = acur - amap[a]
        /\ anet' = anet - (IF amap[a] = 0 THEN 0 ELSE 1)
  BY DEF Erase
<1>2. UNCHANGED <<asys, apeak, adrift, alost>>
  BY DEF Erase
<1>3. a \in AllocAddrs /\ amap[a] \in Nat /\ asys[a] > 0
  BY DEF AllocTypes, AllocHeld
<1>4. AllocTypes'
  BY <1>1, <1>2, <1>3 DEF AllocTypes
<1>5. ado'[t].pc = "free" /\ ado'[t].a = a
      /\ \A u \in AllocThreads : u # t => ado'[u] = ado[u]
  BY <1>1 DEF AllocTypes
<1>6. AllocHeld'
  BY <1>1, <1>2, <1>3, <1>5 DEF AllocHeld, Busy
<1>7. amap'[a] = 0 /\ \A b \in AllocAddrs : b # a => amap'[b] = amap[b]
  BY <1>1, <1>3 DEF AllocTypes
<1>8. /\ Total(amap', AllocAddrs) = Total(amap, AllocAddrs) - amap[a]
      /\ Cardinality(Entries(amap')) = Cardinality(Entries(amap)) - (IF amap[a] = 0 THEN 0 ELSE 1)
  BY <1>3, <1>4, <1>7, EntryErased DEF AllocTypes
<1>9. Total(amap, AllocAddrs) \in Int /\ Cardinality(Entries(amap)) \in Nat
  BY EntriesFinite DEF AllocTypes
<1>10. AllocCounted'
  <2>1. \A b \in AllocAddrs : amap'[b] > 0 => b \in aout' /\ amap'[b] = asys'[b]
    BY <1>1, <1>2, <1>7 DEF AllocCounted
  <2>2. acur' = Total(amap', AllocAddrs) + adrift'
    BY <1>1, <1>2, <1>3, <1>8, <1>9 DEF AllocCounted, AllocTypes
  <2>3. anet' = Cardinality(Entries(amap')) + alost'
    BY <1>1, <1>2, <1>8, <1>9 DEF AllocCounted, AllocTypes
  <2>4. apeak' >= acur'
    BY <1>1, <1>2, <1>3 DEF AllocCounted, AllocTypes
  <2>5. QED
    BY <2>1, <2>2, <2>3, <2>4 DEF AllocCounted, Entries
<1>11. QED
  BY <1>4, <1>6, <1>10

\* The second.
LEMMA SysFreeInv ==
    ASSUME AllocInv, NEW t \in AllocThreads, SysFree(t)
    PROVE  AllocInv'
<1> USE DEF AllocInv
<1>1. PICK a : a = ado[t].a
  OBVIOUS
<1>2. a \in AllocAddrs /\ a \notin aout /\ Busy(t)
  BY <1>1 DEF SysFree, Busy, AllocHeld
<1>3. /\ asys' = [asys EXCEPT ![a] = 0] /\ ado' = [ado EXCEPT ![t] = Resting]
      /\ UNCHANGED <<amap, acur, apeak, anet, aout, adrift, alost>>
  BY <1>1 DEF SysFree
<1>4. AllocTypes'
  BY <1>2, <1>3 DEF AllocTypes, Resting
<1>5. ~Busy(t)' /\ \A u \in AllocThreads : u # t => ado'[u] = ado[u]
  BY <1>3 DEF AllocTypes, Busy, Resting
<1>6. \A b \in AllocAddrs : b # a => asys'[b] = asys[b]
  BY <1>3 DEF AllocTypes
<1>7. AllocHeld'
  BY <1>1, <1>2, <1>3, <1>5, <1>6 DEF AllocHeld, Busy, AllocTypes
<1>8. AllocCounted'
  BY <1>2, <1>3, <1>6 DEF AllocCounted, AllocTypes
<1>9. QED
  BY <1>4, <1>7, <1>8

\* clear: what the entries counted is drift from then on.
LEMMA ClearInv ==
    ASSUME AllocInv, Clear
    PROVE  AllocInv'
<1> USE DEF AllocInv
<1>1. /\ amap' = [a \in AllocAddrs |-> 0]
      /\ adrift' = adrift + Total(amap, AllocAddrs)
      /\ alost' = alost + Cardinality(Entries(amap))
      /\ UNCHANGED <<asys, acur, apeak, anet, ado, aout>>
  BY MapTotals DEF Clear
<1>2. Total(amap, AllocAddrs) \in Int /\ Cardinality(Entries(amap)) \in Nat
  BY EntriesFinite DEF AllocTypes
<1>3. AllocTypes' /\ AllocHeld'
  BY <1>1, <1>2 DEF AllocTypes, AllocHeld, Busy
<1>4. \A a \in AllocAddrs : amap'[a] = 0
  BY <1>1
<1>5. Total(amap', AllocAddrs) = 0 /\ Cardinality(Entries(amap')) = 0
  BY <1>4, NoEntries
<1>6. AllocCounted'
  <2>1. acur' = Total(amap', AllocAddrs) + adrift' /\ anet' = Cardinality(Entries(amap')) + alost'
    BY <1>1, <1>2, <1>5 DEF AllocCounted, AllocTypes
  <2>2. QED
    BY <1>1, <1>4, <2>1 DEF AllocCounted, Entries
<1>7. QED
  BY <1>3, <1>6

\* Every step of the threads.
LEMMA AllocInvStep ==
    ASSUME part = "allocators" => AllocInv, [Next]_vars
    PROVE  (part = "allocators" => AllocInv)'
<1>1. part' = part
  BY DEF Next, RestOf, vars
<1>2. SUFFICES ASSUME part = "allocators" PROVE AllocInv'
  BY <1>1
<1>3. AllocNext \/ UNCHANGED allocVars
  BY <1>2 DEF Next, RestOf, vars
<1>4. CASE UNCHANGED allocVars
  BY <1>2, <1>4 DEF allocVars, AllocInv, AllocTypes, AllocHeld, AllocCounted, Busy, Entries
<1>5. CASE AllocNext
  BY <1>2, <1>5, ObtainInv, RecordInv, EraseInv, SysFreeInv, ClearInv
     DEF AllocNext, HostAllocate, AlignedAllocate, PinnedAllocate, HostDeallocate,
         AlignedDeallocate, PinnedDeallocate
<1>6. QED
  BY <1>3, <1>4, <1>5

-----------------------------------------------------------------------------
(* The statistics of CudaAllocator.                                        *)

\* The bytes at each address.
BytesOf(m) == [a \in GAddrs |-> m.map[a].bytes]

\* current_bytes against the maps.
CudaOK(m, b) == m \in GMem /\ b \in Int /\ m.cur = Total(BytesOf(m), GAddrs) - b

CudaInv == GpuInv /\ CudaOK(gmem, gbase)

\* The sum that the model takes is the sum of the bytes.
LEMMA BytesTotal == GBytes = Total(BytesOf(gmem), GAddrs)
<1> DEFINE f == BytesOf(gmem)
           d(g, s) == gmem.map[Pick(s)].bytes + g[s \ {Pick(s)}]
           Raw(g) == g = [s \in SUBSET GAddrs |-> IF s = {} THEN 0 ELSE d(g, s)]
<1>1. GBytes = (CHOOSE g : Raw(g))[GAddrs]
  BY DEF GBytes, MapThenSumSet, MapThenFoldSet, Pick
<1>2. ASSUME NEW g PROVE Raw(g) <=> Adds(g, f, GAddrs)
  <2>1. \A s \in SUBSET GAddrs : s # {} => gmem.map[Pick(s)].bytes = f[Pick(s)]
    BY PickIn DEF BytesOf
  <2> HIDE DEF f
  <2>2. [s \in SUBSET GAddrs |-> IF s = {} THEN 0 ELSE d(g, s)]
          = [s \in SUBSET GAddrs |-> IF s = {} THEN 0 ELSE f[Pick(s)] + g[s \ {Pick(s)}]]
    BY <2>1
  <2>3. QED
    BY <2>2 DEF Adds
<1> HIDE DEF Raw, f
<1>3. PICK g : Adds(g, f, GAddrs) /\ Total(f, GAddrs) = g[GAddrs]
  BY TotalAdds, GpuAssumption
<1> DEFINE c == CHOOSE h : Raw(h)
<1>4. Raw(c)
  BY <1>2, <1>3
<1>5. Adds(c, f, GAddrs)
  BY <1>2, <1>4
<1> HIDE DEF c
<1>6. c[GAddrs] = g[GAddrs]
  BY <1>3, <1>5, AddsAgree, GpuAssumption
<1>7. QED
  BY <1>1, <1>3, <1>6 DEF c, f

\* One entry changes.
LEMMA BytesChanged ==
    ASSUME NEW m \in GMem, NEW r \in GMem, NEW a \in GAddrs,
           \A b \in GAddrs : b # a => r.map[b] = m.map[b]
    PROVE  /\ Total(BytesOf(m), GAddrs) \in Int /\ m.map[a].bytes \in Nat /\ r.map[a].bytes \in Nat
           /\ Total(BytesOf(r), GAddrs)
                = Total(BytesOf(m), GAddrs) - m.map[a].bytes + r.map[a].bytes
<1>1. m.map \in [GAddrs -> GEntry] /\ r.map \in [GAddrs -> GEntry]
  BY DEF GMem
<1>2. \A x \in GAddrs : m.map[x].bytes \in Nat /\ r.map[x].bytes \in Nat
  BY <1>1 DEF GEntry
<1>3. \A x \in GAddrs : BytesOf(m)[x] = m.map[x].bytes /\ BytesOf(r)[x] = r.map[x].bytes
  BY DEF BytesOf
<1>4. \A x \in GAddrs : BytesOf(m)[x] \in Int /\ BytesOf(r)[x] \in Int
  BY <1>2, <1>3
<1>5. \A x \in GAddrs : x # a => BytesOf(m)[x] = BytesOf(r)[x]
  BY <1>3
<1>6. Total(BytesOf(r), GAddrs)
        = Total(BytesOf(m), GAddrs) - BytesOf(m)[a] + BytesOf(r)[a]
  BY <1>4, <1>5, TotalChanged, GpuAssumption
<1>7. Total(BytesOf(m), GAddrs) \in Int
  BY <1>4, TotalInt, GpuAssumption
<1>8. QED
  BY <1>2, <1>3, <1>6, <1>7

\* An allocation counts its bytes.
LEMMA CudaAllocated ==
    ASSUME NEW m, NEW b, CudaOK(m, b), NEW k \in {"managed", "device", "pinned"},
           NEW a \in GChoices(m), NEW n \in Nat
    PROVE  CudaOK(AllocateKind(m, k, a, n), b)
<1>1. m \in GMem /\ b \in Int /\ m.cur = Total(BytesOf(m), GAddrs) - b
  BY DEF CudaOK
<1>2. CASE a = 0
  BY <1>2 DEF AllocateKind
<1>3. CASE a # 0
  <2> DEFINE r == AllocateKind(m, k, a, n)
  <2>1. a \in GAddrs /\ m.map[a] = GNone /\ m.map[a].bytes = 0
    BY <1>3 DEF GChoices, GNone
  <2>2. r \in GMem /\ \A c \in GAddrs : c # a => r.map[c] = m.map[c]
    <3>1. m \in GMem /\ a \in GAddrs
      BY <1>1, <2>1
    <3>2. r \in GMem
      BY <3>1, AllocateFacts
    <3>3. \A c \in GAddrs : c # a => r.map[c] = m.map[c]
      BY <3>1, AllocateFacts
    <3>4. QED
      BY <3>2, <3>3
  <2>3. r.map = [m.map EXCEPT ![a] = [kind |-> k, bytes |-> n]] /\ r.cur = m.cur + n
    BY <1>3 DEF AllocateKind
  <2>4. r.map[a].bytes = n
    BY <1>1, <2>1, <2>3 DEF GMem
  <2> HIDE DEF r
  <2>5. /\ Total(BytesOf(m), GAddrs) \in Int
        /\ Total(BytesOf(r), GAddrs)
             = Total(BytesOf(m), GAddrs) - m.map[a].bytes + r.map[a].bytes
    BY <1>1, <2>1, <2>2, BytesChanged
  <2>6. r.cur = Total(BytesOf(r), GAddrs) - b
    BY <1>1, <2>1, <2>3, <2>4, <2>5
  <2>7. CudaOK(r, b)
    BY <1>1, <2>2, <2>6 DEF CudaOK
  <2>8. QED
    BY <2>7 DEF r
<1>4. QED
  BY <1>2, <1>3

\* A deallocation takes off the bytes of the entry that it erases.
LEMMA CudaFreed ==
    ASSUME NEW m, NEW b, CudaOK(m, b), NEW k \in {"managed", "device", "pinned"},
           NEW a \in GAddrs \cup {0}
    PROVE  CudaOK(DeallocateKind(m, k, a), b)
<1>1. m \in GMem /\ b \in Int /\ m.cur = Total(BytesOf(m), GAddrs) - b
  BY DEF CudaOK
<1>2. CASE ~(a # 0 /\ m.map[a].kind = k)
  BY <1>2 DEF DeallocateKind
<1>3. CASE a # 0 /\ m.map[a].kind = k
  <2> DEFINE f == [m.map EXCEPT ![a] = GNone]
             c == m.cur - m.map[a].bytes
             r == [map |-> f, cur |-> c]
  <2>1. DeallocateKind(m, k, a) = r /\ a \in GAddrs
    BY <1>3 DEF DeallocateKind
  <2>2. m.map \in [GAddrs -> GEntry] /\ m.cur \in Int /\ m.map[a].bytes \in Nat
    BY <1>1, <2>1 DEF GMem, GEntry
  <2>3. f \in [GAddrs -> GEntry] /\ f[a] = GNone /\ \A x \in GAddrs : x # a => f[x] = m.map[x]
    BY <2>1, <2>2, NoGpu0
  <2>4. c \in Int
    BY <2>2
  <2>5. r.map = f /\ r.cur = c
    OBVIOUS
  <2> HIDE DEF f
  <2>6. r \in GMem
    BY <2>3, <2>4 DEF GMem
  <2>7. f[a].bytes = 0
    BY <2>3 DEF GNone
  <2> HIDE DEF r
  <2>8. /\ Total(BytesOf(m), GAddrs) \in Int
        /\ Total(BytesOf(r), GAddrs)
             = Total(BytesOf(m), GAddrs) - m.map[a].bytes + r.map[a].bytes
    BY <1>1, <2>1, <2>3, <2>5, <2>6, BytesChanged
  <2>9. r.cur = Total(BytesOf(r), GAddrs) - b
    BY <1>1, <2>2, <2>5, <2>7, <2>8
  <2>10. CudaOK(r, b)
    BY <1>1, <2>6, <2>9 DEF CudaOK
  <2>11. QED
    BY <2>1, <2>10
<1>4. QED
  BY <1>2, <1>3

\* A tensor drops what it owns.
LEMMA CudaDropped ==
    ASSUME NEW m, NEW b, CudaOK(m, b), NEW h \in GTensor
    PROVE  CudaOK(Drop(m, h), b)
<1>1. h.data \in GAddrs \cup {0}
  BY DEF GTensor
<1>2. CudaOK(DeallocateKind(m, "managed", h.data), b)
  BY <1>1, CudaFreed
<1>3. QED
  BY <1>2 DEF Drop

\* Nothing is allocated at first.
LEMMA CudaInvInit ==
    ASSUME GpuInit
    PROVE  CudaInv
<1>1. GpuInv
  BY GpuInvInit
<1>2. gmem \in GMem /\ gmem.cur = 0 /\ gbase = 0
  BY <1>1 DEF GpuInv, GpuOK, GpuInit
<1>3. \A a \in GAddrs : BytesOf(gmem)[a] = 0
  BY DEF BytesOf, GpuInit, GNone
<1>4. Total(BytesOf(gmem), GAddrs) = 0
  BY <1>3, TotalZero, GpuAssumption
<1>5. QED
  BY <1>1, <1>2, <1>4 DEF CudaInv, CudaOK

\* The calls of the allocator alone.
LEMMA CudaClientInv ==
    ASSUME CudaInv, GpuClient \/ ResetStats
    PROVE  CudaOK(gmem', gbase')
<1>1. CudaOK(gmem, gbase) /\ gmem \in GMem
  BY DEF CudaInv, CudaOK
<1>2. CASE GpuClient
  <2>1. PICK k \in {"device", "pinned"} :
          /\ \/ \E n \in GSizes, a \in GChoices(gmem) : gmem' = AllocateKind(gmem, k, a, n)
             \/ \E a \in {b \in GAddrs : gmem.map[b].kind # "managed"} :
                  gmem' = DeallocateKind(gmem, k, a)
          /\ gbase' = gbase
    BY <1>2 DEF GpuClient
  <2>2. CASE \E n \in GSizes, a \in GChoices(gmem) : gmem' = AllocateKind(gmem, k, a, n)
    <3>1. PICK n \in GSizes, a \in GChoices(gmem) : gmem' = AllocateKind(gmem, k, a, n)
      BY <2>2
    <3>2. n \in Nat
      BY GpuAssumption
    <3>3. CudaOK(AllocateKind(gmem, k, a, n), gbase)
      BY <1>1, <3>2, CudaAllocated
    <3>4. QED
      BY <2>1, <3>1, <3>3
  <2>3. CASE \E a \in {b \in GAddrs : gmem.map[b].kind # "managed"} :
               gmem' = DeallocateKind(gmem, k, a)
    <3>1. PICK a \in GAddrs : gmem' = DeallocateKind(gmem, k, a)
      BY <2>3
    <3>2. CudaOK(DeallocateKind(gmem, k, a), gbase)
      BY <1>1, CudaFreed
    <3>3. QED
      BY <2>1, <3>1, <3>2
  <2>4. QED
    BY <2>1, <2>2, <2>3
<1>3. CASE ResetStats
  <2>1. gmem' = [gmem EXCEPT !.cur = 0] /\ gbase' = Total(BytesOf(gmem), GAddrs)
    BY <1>3, BytesTotal DEF ResetStats
  <2>2. gmem' \in GMem /\ gmem'.cur = 0 /\ gmem'.map = gmem.map
    BY <1>1, <2>1 DEF GMem
  <2>3. BytesOf(gmem') = BytesOf(gmem)
    BY <2>2 DEF BytesOf
  <2>4. \A a \in GAddrs : BytesOf(gmem)[a] \in Int
    BY <1>1 DEF GMem, GEntry, BytesOf
  <2>5. Total(BytesOf(gmem), GAddrs) \in Int
    BY <2>4, TotalInt, GpuAssumption
  <2>6. QED
    BY <2>1, <2>2, <2>3, <2>5 DEF CudaOK
<1>4. QED
  BY <1>2, <1>3

\* The calls of GpuTensor: each frees or allocates through the allocator.
LEMMA CudaTensorInv ==
    ASSUME CudaInv, NEW s \in GSlots, NEW t \in GSlots,
           \/ GpuCreate(s) \/ GpuDestroy(s) \/ GpuView(s, t) \/ GpuCopyConstruct(s, t)
           \/ GpuAssign(s, t) \/ GpuMove(s, t)
    PROVE  CudaOK(gmem', gbase')
<1>1. CudaOK(gmem, gbase) /\ GpuInv
  BY DEF CudaInv
<1>2. gt[s] \in GTensor /\ gt[t] \in GTensor /\ gt[t].n \in Nat
  BY <1>1, GpuFacts
<1>3. gbase' = gbase
  BY DEF GpuCreate, GpuDestroy, GpuView, GpuCopyConstruct, GpuAssign, GpuMove, Set, Exit
<1>4. CASE gmem' = gmem
  BY <1>1, <1>3, <1>4
<1>5. CASE GpuCreate(s) /\ gmem' # gmem
  <2>1. PICK n \in GSizes, a \in GChoices(gmem) : gmem' = AllocateKind(gmem, "managed", a, n)
    BY <1>5 DEF GpuCreate, Exit, Set
  <2>2. n \in Nat
    BY GpuAssumption
  <2>3. CudaOK(AllocateKind(gmem, "managed", a, n), gbase)
    BY <1>1, <2>2, CudaAllocated
  <2>4. QED
    BY <1>3, <2>1, <2>3
<1>6. CASE GpuDestroy(s) \/ GpuMove(s, t)
  <2>1. gmem' = Drop(gmem, gt[s])
    BY <1>6 DEF GpuDestroy, GpuMove, Set
  <2>2. QED
    BY <1>1, <1>2, <1>3, <2>1, CudaDropped
<1>7. CASE GpuView(s, t)
  BY <1>1, <1>3, <1>7 DEF GpuView, Set
<1>8. CASE GpuCopyConstruct(s, t) /\ gmem' # gmem
  <2>1. PICK a \in GChoices(gmem) : gmem' = AllocateKind(gmem, "managed", a, gt[t].n)
    BY <1>8 DEF GpuCopyConstruct, Exit, Set
  <2>2. CudaOK(AllocateKind(gmem, "managed", a, gt[t].n), gbase)
    BY <1>1, <1>2, CudaAllocated
  <2>3. QED
    BY <1>3, <2>1, <2>2
<1>9. CASE GpuAssign(s, t) /\ gmem' # gmem
  <2>1. PICK freed : freed = Drop(gmem, gt[s])
    OBVIOUS
  <2>2. CudaOK(freed, gbase)
    BY <1>1, <1>2, <2>1, CudaDropped
  <2>3. PICK a \in GChoices(freed) : gmem' = AllocateKind(freed, "managed", a, gt[t].n)
    BY <1>9, <2>1 DEF GpuAssign, Exit, Set
  <2>4. CudaOK(AllocateKind(freed, "managed", a, gt[t].n), gbase)
    BY <1>2, <2>2, CudaAllocated
  <2>5. QED
    BY <1>3, <2>3, <2>4
<1>10. QED
  BY <1>4, <1>5, <1>6, <1>7, <1>8, <1>9

\* Every step of a client of GpuTensor and CudaAllocator.
LEMMA CudaInvStep ==
    ASSUME part = "gpu" => CudaInv, [Next]_vars
    PROVE  (part = "gpu" => CudaInv)'
<1>1. part' = part
  BY DEF Next, RestOf, vars
<1>2. SUFFICES ASSUME part = "gpu" PROVE CudaInv'
  BY <1>1
<1>3. CudaInv /\ GpuInv
  BY <1>2 DEF CudaInv
<1>4. GpuInv'
  BY <1>1, <1>2, <1>3, GpuInvStep
<1>5. GpuNext \/ UNCHANGED gpuVars
  BY <1>2 DEF Next, RestOf, vars
<1>6. CASE UNCHANGED gpuVars
  BY <1>3, <1>4, <1>6 DEF gpuVars, CudaInv
<1>7. CASE GpuNext
  <2>1. CudaOK(gmem', gbase')
    BY <1>3, <1>7, CudaClientInv, CudaTensorInv DEF GpuNext
  <2>2. QED
    BY <1>4, <2>1 DEF CudaInv
<1>8. QED
  BY <1>5, <1>6, <1>7

\* In every behaviour the statistics of the host allocators agree with their maps
\* and with what clear dropped, and the maps with the blocks of clients, though
\* threads obtain and return memory outside the mutex; and current_bytes of
\* CudaAllocator is what its maps hold, less what they held at reset_stats.
THEOREM AccountingKept == Spec => []AccountingExact
<1> DEFINE Kept == (part = "allocators" => AllocInv) /\ (part = "gpu" => CudaInv)
<1>1. Init => Kept
  BY AllocInvInit, CudaInvInit DEF Init
<1>2. Kept /\ [Next]_vars => Kept'
  BY AllocInvStep, CudaInvStep
<1>3. Kept => AccountingExact
  BY AllocInvSound, BytesTotal DEF AccountingExact, CudaInv, CudaOK, CudaExact
<1>4. QED
  BY <1>1, <1>2, <1>3, PTL DEF Spec
=============================================================================
