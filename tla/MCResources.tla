---------------------------- MODULE MCResources ----------------------------
(***************************************************************************)
(* The components that own resources, checked side by side.  They share no *)
(* state: the variable part says which one a behaviour is about, and the   *)
(* others are not there (their variables are empty), so the states of the  *)
(* run are the sum of the components' states and not their product.        *)
(***************************************************************************)
EXTENDS Tensors, Allocators, GpuTensors, SharedMemory, DeviceManager

VARIABLE part

NoBuf == bheap = <<>> /\ buf = <<>> /\ loose = <<>>

NoTen == theap = <<>> /\ ten = <<>> /\ lent = <<>> /\ due = <<>>

NoAlloc ==
  /\ acls = <<>> /\ asys = <<>> /\ amap = <<>> /\ acur = <<>> /\ apeak = <<>> /\ anet = <<>>
  /\ amtx = <<>> /\ ado = <<>> /\ aout = <<>> /\ adrift = <<>> /\ alost = <<>>

NoGpu == gmem = <<>> /\ gbase = <<>> /\ gt = <<>> /\ glive = <<>>

NoShm ==
  /\ sdir = <<>> /\ ssize = <<>> /\ fds = <<>> /\ maps = <<>> /\ seg = <<>>
  /\ clash = <<>> /\ again = <<>>

NoDevices ==
  /\ devices = <<>> /\ default = <<>> /\ callbacks = <<>> /\ added = <<>>
  /\ removing = <<>> /\ removed = <<>>

NoStreams == streams = <<>> /\ current = <<>> /\ available = <<>>

Init ==
  /\ part \in {"buffers", "tensors", "allocators", "gpu", "shm", "devices", "streams"}
  /\ IF part = "buffers" THEN BufInit ELSE NoBuf
  /\ IF part = "tensors" THEN TenInit ELSE NoTen
  /\ IF part = "allocators" THEN AllocInit ELSE NoAlloc
  /\ IF part = "gpu" THEN GpuInit ELSE NoGpu
  /\ IF part = "shm" THEN ShmInit ELSE NoShm
  /\ IF part = "devices" THEN DeviceInit ELSE NoDevices
  /\ IF part = "streams" THEN StreamInit ELSE NoStreams

RestOf(name, mine) == part = name /\ UNCHANGED <<part, mine>>

Next ==
  \/ RestOf("buffers", <<tenVars, allocVars, gpuVars, shmVars, deviceVars, streamVars>>) /\ BufNext
  \/ RestOf("tensors", <<bufVars, allocVars, gpuVars, shmVars, deviceVars, streamVars>>) /\ TenNext
  \/ RestOf("allocators", <<bufVars, tenVars, gpuVars, shmVars, deviceVars, streamVars>>) /\ AllocNext
  \/ RestOf("gpu", <<bufVars, tenVars, allocVars, shmVars, deviceVars, streamVars>>) /\ GpuNext
  \/ RestOf("shm", <<bufVars, tenVars, allocVars, gpuVars, deviceVars, streamVars>>) /\ ShmNext
  \/ RestOf("devices", <<bufVars, tenVars, allocVars, gpuVars, shmVars, streamVars>>) /\ DeviceNext
  \/ RestOf("streams", <<bufVars, tenVars, allocVars, gpuVars, shmVars, deviceVars>>) /\ StreamNext

vars == <<part, bufVars, tenVars, allocVars, gpuVars, shmVars, deviceVars, streamVars>>

Spec == Init /\ [][Next]_vars

-----------------------------------------------------------------------------
\* Memory and handles have one owner: the blocks behind BufferHandle, TensorBuffer
\* and Tensor, the managed memory of GpuTensor, and the handles of streams.
OwnedOnce ==
  /\ part = "buffers" => BuffersOwned
  /\ part = "tensors" => TensorsOwned
  /\ part = "gpu" => GpuOwned
  /\ part = "streams" => StreamsOwned

\* A chain of clones, moves and copies of Tensor between devices keeps the value
\* (CopiesFaithful of Tensors).
ValuesKept == part = "tensors" => CopiesFaithful

\* The statistics of the host allocators and of the CudaAllocator agree with what
\* is allocated.
AccountingExact ==
  /\ part = "allocators" => AllocatorsExact
  /\ part = "gpu" => CudaExact

\* Shared memory: no descriptor or mapping is leaked or closed twice on any path
\* of failures, moves, Destroy and crashes (DescriptorsOwned of SharedMemory).
DescriptorsKept == part = "shm" => DescriptorsOwned

\* Shared memory: the name and the sizes a live segment relies on (NameHeld of
\* SharedMemory).
NameKept == part = "shm" => NameHeld

\* DeviceManager: the default device and the callbacks through removals whose
\* callbacks call the manager again (ManagerConsistent of DeviceManager).
ManagerKept == part = "devices" => ManagerConsistent
=============================================================================
