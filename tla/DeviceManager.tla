--------------------------- MODULE DeviceManager ---------------------------
(***************************************************************************)
(* DeviceManager (device/device): the registered devices, the default      *)
(* device and the callbacks that registration and removal notify, in a     *)
(* build with CUDA; and Stream, the current stream and StreamPool          *)
(* (device/stream).  The manager has no mutex and one thread uses it; a    *)
(* callback may call it again, so a removal is two steps around its        *)
(* notifications.  A device is known by its CUDA id and a serial number.   *)
(***************************************************************************)
EXTENDS Integers, Sequences, FiniteSets, SequencesExt

CONSTANTS Hardware,     \* ids of the CUDA devices that are present, 0, 1, ...
          MaxDeviceIds, \* bound: devices ever registered
          MaxCallbacks, \* bound: callbacks ever added
          StreamSlots,  \* Stream objects of a client
          StreamHandles,\* non-null stream handles of the client
          NoStream,     \* nullptr
          PoolSize      \* pool_size_

ASSUME DeviceAssumption == Hardware \subseteq Nat /\ IsFiniteSet(Hardware)

ASSUME StreamAssumption == NoStream \notin StreamHandles /\ PoolSize \in Nat

VARIABLES devices,   \* devices_ by id - 1 (id 1 is the CPU's), Gone when erased
          default,   \* default_device
          callbacks, \* callbacks_, each known by the id AddCallback gave it
          added,     \* next_callback_id_ - 1
          removing,  \* the device whose removal notifies callbacks, or Gone
          removed,   \* history: the ids that RemoveCallback was called with
          streams,   \* stream_ of each Stream object of the client
          current,   \* the thread's current stream
          available  \* available_streams_

deviceVars == <<devices, default, callbacks, added, removing, removed>>

streamVars == <<streams, current, available>>

Gone == [hw |-> -1, nr |-> 0]

CpuDevice == [hw |-> -1, nr |-> 1]

NoDevice == [hw |-> -1, nr |-> 2]

DeviceInit ==
  /\ devices = <<>>
  /\ default = CpuDevice
  /\ callbacks = <<>> /\ added = 0 /\ removed = <<>>
  /\ removing = Gone

-----------------------------------------------------------------------------
Registered(devs) == Range(devs) \ {Gone}

\* The order of the unordered_map decides between devices of the same id.
FindDevice(devs, id) == {d \in Registered(devs) : d.hw = id}

\* ScanDevices: CUDA devices are looked for only when none is registered.
Scanned(devs) ==
  IF Registered(devs) # {} THEN devs
  ELSE devs \o [i \in 1..Cardinality(Hardware) |-> [hw |-> i - 1, nr |-> Len(devs) + i]]

\* get_device(kCUDA, id): the devices it may answer with, and the devices
\* registered when it has.
GetDevice(id) ==
  LET after == IF FindDevice(devices, id) = {} THEN Scanned(devices) ELSE devices IN
  [devs |-> after,
   found |-> IF FindDevice(after, id) = {} THEN {NoDevice} ELSE FindDevice(after, id)]

\* set_default_device(kCPU) or (kCUDA, id).
SetDefault ==
  /\ \/ default' = CpuDevice /\ UNCHANGED devices
     \/ \E id \in Hardware :
          /\ Len(GetDevice(id).devs) <= MaxDeviceIds
          /\ devices' = GetDevice(id).devs
          /\ default' \in GetDevice(id).found
  /\ UNCHANGED <<callbacks, added, removing, removed>>

\* A lookup by a client, which may scan.
Lookup ==
  \E id \in Hardware :
    /\ Len(GetDevice(id).devs) <= MaxDeviceIds
    /\ devices' = GetDevice(id).devs
    /\ UNCHANGED <<default, callbacks, added, removing, removed>>

\* A new device, or one that is registered under another id already.
RegisterDevice ==
  /\ Len(devices) < MaxDeviceIds
  /\ \E d \in Registered(devices) \cup {[hw |-> i, nr |-> Len(devices) + 1] : i \in Hardware} :
       devices' = Append(devices, d)
  /\ UNCHANGED <<default, callbacks, added, removing, removed>>

\* UnregisterDevice up to its notifications; the CPU has no entry here.
UnregisterBegin ==
  /\ removing = Gone
  /\ \E i \in DOMAIN devices :
       /\ devices[i] # Gone
       /\ removing' = devices[i]
       /\ devices' = [devices EXCEPT ![i] = Gone]
  /\ UNCHANGED <<default, callbacks, added, removed>>

\* Mutant: the default device is reset only when no callback was told.
UnregisterForget ==
  /\ removing # Gone
  /\ default' = IF default = removing /\ callbacks = <<>> THEN CpuDevice ELSE default
  /\ removing' = Gone
  /\ UNCHANGED <<devices, callbacks, added, removed>>

\* The rest of it.
UnregisterEnd ==
  /\ removing # Gone
  /\ default' = IF default = removing THEN CpuDevice ELSE default
  /\ removing' = Gone
  /\ UNCHANGED <<devices, callbacks, added, removed>>

AddCallback ==
  /\ removing = Gone /\ added < MaxCallbacks
  /\ added' = added + 1
  /\ callbacks' = Append(callbacks, added + 1)
  /\ UNCHANGED <<devices, default, removing, removed>>

\* The id is taken as a position; an id past the end would be undefined.
RemoveCallback ==
  \E id \in 1..added :
    /\ removing = Gone /\ id <= Len(callbacks)
    /\ callbacks' = RemoveAt(callbacks, id)
    /\ removed' = Append(removed, id)
    /\ UNCHANGED <<devices, default, added, removing>>

\* While a removal notifies, its callbacks are the only callers.
DeviceNext ==
  \/ UnregisterBegin \/ UnregisterEnd \/ AddCallback \/ RemoveCallback
  \/ (removing = Gone \/ callbacks # <<>>) /\ (SetDefault \/ Lookup \/ RegisterDevice)

DeviceSpec == DeviceInit /\ [][DeviceNext]_deviceVars

\* The default device is the CPU, a registered device or the null that a lookup
\* gave, except while callbacks hear of its removal (they still see the removed
\* device), though they may change the default and register devices meanwhile.
\* The callbacks left are the right ones while one was removed at most: the
\* ids are positions, and a removal shifts them.
ManagerConsistent ==
  /\ default \in Registered(devices) \cup {CpuDevice, NoDevice, removing}
  /\ Len(removed) <= 1 => Range(callbacks) = (1..added) \ Range(removed)

-----------------------------------------------------------------------------
(* Streams                                                                 *)

StreamInit ==
  /\ streams \in [StreamSlots -> StreamHandles \cup {NoStream}]
  /\ \A s, t \in StreamSlots : s # t => streams[s] # streams[t] \/ streams[s] = NoStream
  /\ current = NoStream
  /\ available = [i \in 1..PoolSize |-> NoStream]

MoveStream(s, t) ==
  /\ s # t
  /\ streams' = [streams EXCEPT ![s] = streams[t], ![t] = NoStream]
  /\ UNCHANGED <<current, available>>

\* SetCurrent moves out of the stream it is given by const reference.
SetCurrent(s) ==
  /\ current' = streams[s]
  /\ streams' = [streams EXCEPT ![s] = NoStream]
  /\ UNCHANGED available

\* s = pool.get_stream(); a pool that is empty creates one, whose handle is null.
GetStream(s) ==
  /\ streams' = [streams EXCEPT ![s] = IF available = <<>> THEN NoStream ELSE Last(available)]
  /\ available' = IF available = <<>> THEN <<>> ELSE Front(available)
  /\ UNCHANGED current

\* A full pool leaves the stream with the caller.
ReturnStream(s) ==
  /\ Len(available) < PoolSize
  /\ available' = Append(available, streams[s])
  /\ streams' = [streams EXCEPT ![s] = NoStream]
  /\ UNCHANGED current

StreamNext ==
  \E s \in StreamSlots : \/ SetCurrent(s) \/ GetStream(s) \/ ReturnStream(s)
                         \/ \E t \in StreamSlots : MoveStream(s, t)

StreamSpec == StreamInit /\ [][StreamNext]_streamVars

\* A stream handle is in one place: a Stream of the client, the current stream or
\* the pool, never in two that would both hand it on; the pool is never overfull.
StreamsOwned ==
  /\ \A h \in StreamHandles :
       Cardinality({s \in StreamSlots : streams[s] = h}) + (IF current = h THEN 1 ELSE 0)
         + Cardinality({i \in DOMAIN available : available[i] = h}) <= 1
  /\ Len(available) <= PoolSize
=============================================================================
