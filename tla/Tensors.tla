------------------------------ MODULE Tensors ------------------------------
(***************************************************************************)
(* Tensor (tensor/tensor) over BufferHandle and the CPU and CUDA devices:  *)
(* which memory a tensor refers to and what copies put there.  All tensors *)
(* have one square shape and one dtype.  What the memory holds is with the *)
(* block it is in (theap); what a tensor should hold by the value          *)
(* semantics of Tensor is a history of the tensor (due), so that the two   *)
(* agree only when the calls reach the right memory with the right bytes.  *)
(***************************************************************************)
EXTENDS Buffers

CONSTANTS Devices,   \* the devices, CPU among them
          Gpu0,      \* the CUDA device of id 0
          Addrs,     \* bound: the addresses of tensors' memory
          TenSlots,  \* tensors of a client
          MaxLent    \* bound: blocks the client lends at a time

ASSUME TenAssumption ==
  CPU \in Devices /\ Gpu0 \in Devices /\ Null \notin Devices /\ Null \notin Addrs

VARIABLES theap,     \* the block at each address, or NoBlock
          ten,       \* each tensor: device_ and buffer_
          lent,      \* external blocks that stay the client's
          due        \* history: what each tensor should hold (v, Undef when the client
                     \* was promised nothing) and the calls that may have lost it (by)

tenVars == <<theap, ten, lent, due>>

Undef == "undefined"

NoBlock == [dev |-> Null, val |-> Undef]

Holding(d, v) == [dev |-> d, val |-> v]

Due(v) == [v |-> v, by |-> {}]

\* The transposed content, of a square shape.
Transposed(v) == CASE v = "a" -> "aT" [] v = "aT" -> "a" [] OTHER -> v

\* What a new block holds: the host's allocate clears it, cudaMalloc does not.
Blank(d) == IF d = CPU THEN "zero" ELSE Undef

TenInit ==
  /\ theap = [a \in Addrs |-> NoBlock]
  /\ ten = [s \in TenSlots |-> [dev |-> Null, h |-> NoHandle]]
  /\ lent = {}
  /\ due = [s \in TenSlots |-> Due(Undef)]

-----------------------------------------------------------------------------
(* Copies.  Each operator gives block dst after the call; a null pointer   *)
(* on either side makes a CUDA copy do nothing.                            *)

With(dst, src) == [dst EXCEPT !.val = src.val]

\* copy_to_device of device d: from host memory, or from memory of a CUDA device
\* with the direction cudaMemcpyHostToDevice, which CUDA leaves undefined.
CopyToDevice(d, dst, src) ==
  IF d = CPU \/ src.dev = CPU THEN With(dst, src) ELSE With(dst, NoBlock)

CopyToHost(dst, src) == With(dst, src)

CopyWithin(dst, src) == With(dst, src)

\* Mutant: between two CUDA devices the target copies from the source's memory.
CopyUnstaged(dst, src) ==
  With(dst, [src EXCEPT !.val = IF CPU \in {src.dev, dst.dev} THEN @ ELSE Undef])

\* Between two CUDA devices the bytes go through a host buffer.
CopyAcrossDevices(dst, src) ==
  CASE src.dev = CPU -> CopyToDevice(dst.dev, dst, src)
    [] dst.dev = CPU -> CopyToHost(dst, src)
    [] OTHER         -> CopyToDevice(dst.dev, dst, CopyToHost(Holding(CPU, "zero"), src))

\* Tensor::copy_from(other) for two blocks.
CopyFrom(dst, src) == IF dst.dev = src.dev THEN CopyWithin(dst, src)
                      ELSE CopyAcrossDevices(dst, src)

-----------------------------------------------------------------------------
\* A tensor a client may pass on: on the host its memory is there (memcpy has no
\* check for null), on a CUDA device it may have been refused.
Usable(s) == ten[s].dev # Null /\ (ten[s].dev = CPU => ten[s].h.data # Null)

\* s takes over a new tensor on d at address a (or null) whose block becomes c,
\* and which should hold what p says.
Assign(s, d, a, c, p) ==
  /\ theap' = Dealloc(Given(theap, a, c), ten[s].h, NoBlock)
  /\ ten' = [ten EXCEPT ![s] = [dev |-> d, h |-> Fresh(d, 1, a)]]
  /\ due' = [due EXCEPT ![s] = IF a = Null \/ p.v = Undef THEN Due(Undef) ELSE p]
  /\ UNCHANGED lent

\* s becomes x, a tensor without memory.
Vacate(s, x) ==
  /\ theap' = Dealloc(theap, ten[s].h, NoBlock)
  /\ ten' = [ten EXCEPT ![s] = x]
  /\ due' = [due EXCEPT ![s] = Due(Undef)]
  /\ UNCHANGED lent

\* Tensor(shape, dtype, device), Empty, Zeros, Ones and Full; the fill of Ones
\* and Full writes with memcpy, so only the host's tensors can be filled.  Ones
\* of a dtype other than float32 and int32 leaves the memory as allocated.
TenCreate(s) ==
  \E d \in Devices : \E v \in {Blank(d), "zero", "a"}, a \in DeviceAllocate(theap, d) :
    /\ v = "a" => d = CPU
    /\ Assign(s, d, a, Holding(d, v), Due(v))

\* Tensor over external memory that holds v, handed over or only lent.
TenExternal(s, owns) ==
  \E d \in Devices : \E a \in DeviceAllocate(theap, d) \ {Null} :
    /\ owns \/ Cardinality(lent) < MaxLent
    /\ theap' = Dealloc([theap EXCEPT ![a] = Holding(d, "a")], ten[s].h, NoBlock)
    /\ ten' = [ten EXCEPT ![s] = [dev |-> d, h |-> [NoHandle EXCEPT !.data = a, !.bytes = 1,
                                                       !.fn = IF owns THEN d ELSE Null]]]
    /\ lent' = IF owns THEN lent ELSE lent \cup {a}
    /\ due' = [due EXCEPT ![s] = Due("a")]

\* The client frees lent memory that no tensor refers to.
TenReturn ==
  \E a \in lent :
    /\ \A s \in TenSlots : ten[s].h.data # a
    /\ theap' = [theap EXCEPT ![a] = NoBlock]
    /\ lent' = lent \ {a}
    /\ UNCHANGED <<ten, due>>

TenMove(s, t) ==
  /\ s # t
  /\ theap' = Dealloc(theap, ten[s].h, NoBlock)
  /\ ten' = [ten EXCEPT ![s] = ten[t], ![t].h = MovedFrom(@)]
  /\ due' = [due EXCEPT ![s] = due[t], ![t] = Due(Undef)]
  /\ UNCHANGED lent

TenDestroy(s) == Vacate(s, [dev |-> Null, h |-> NoHandle])

\* The copy constructor, and the copy assignment by way of it: copy_to_device
\* also from one CUDA block to another.  Without data only the fields are copied.
TenCopy(s, t) ==
  LET d == ten[t].dev
      lost == IF d = CPU THEN {} ELSE {"copy"} IN
  /\ s # t
  /\ IF ten[t].h.data = Null
     THEN Vacate(s, [dev |-> d, h |-> NoHandle])
     ELSE \E a \in DeviceAllocate(theap, d) :
          Assign(s, d, a, CopyToDevice(d, Holding(d, Blank(d)), theap[ten[t].h.data]),
                 [due[t] EXCEPT !.by = @ \cup lost])

\* What a new tensor on d holds when it is filled from tensor t; staging sends
\* zeros on when the source has no memory.
FilledFrom(d, t) ==
  LET new == Holding(d, Blank(d)) IN
  IF ten[t].h.data # Null THEN CopyFrom(new, theap[ten[t].h.data])
  ELSE IF d = CPU \/ d = ten[t].dev THEN new ELSE Holding(d, "zero")

\* s = t.clone() and s = t.to(d), for which clone is the case of the same device.
TenTo(s, t) ==
  /\ s # t /\ Usable(t)
  /\ \E d \in Devices : \E a \in DeviceAllocate(theap, d) :
       Assign(s, d, a, FilledFrom(d, t), due[t])

\* s.copy_from(t)
TenCopyFrom(s, t) ==
  LET a == ten[s].h.data
      b == ten[t].h.data IN
  /\ s # t /\ Usable(s) /\ Usable(t)
  /\ a # Null
  /\ theap' = IF b # Null THEN [theap EXCEPT ![a] = CopyFrom(@, theap[b])]
              ELSE IF CPU = ten[s].dev \/ ten[s].dev = ten[t].dev THEN theap
              ELSE [theap EXCEPT ![a] = Holding(ten[s].dev, "zero")]
  /\ due' = [due EXCEPT ![s] = due[t]]
  /\ UNCHANGED <<ten, lent>>

\* copy_from(host pointer), fill_zero and, on the host, fill.
TenWrite(s) ==
  \E v \in {"zero", "a"} :
    /\ Usable(s) /\ ten[s].h.data # Null
    /\ theap' = [theap EXCEPT ![ten[s].h.data] = Holding(@.dev, v)]
    /\ due' = [due EXCEPT ![s] = Due(v)]
    /\ UNCHANGED <<ten, lent>>

\* s = view.clone() for a view of t, or (strided) for its transpose: the copy is
\* linear whatever the strides, and goes to the device of id 0 of the view's type.
TenViewClone(s, t) ==
  LET d == IF ten[t].dev = CPU THEN CPU ELSE Gpu0 IN
  /\ s # t /\ Usable(t) /\ ten[t].h.data # Null
  /\ \E strided \in BOOLEAN, a \in DeviceAllocate(theap, d) :
       LET lost == IF strided \/ d # CPU THEN {"view"} ELSE {} IN
       Assign(s, d, a, CopyToDevice(d, Holding(d, Blank(d)), theap[ten[t].h.data]),
              [v  |-> IF strided THEN Transposed(due[t].v) ELSE due[t].v,
               by |-> due[t].by \cup lost])

TenNext ==
  \/ TenReturn
  \/ \E s \in TenSlots :
       \/ TenCreate(s) \/ TenDestroy(s) \/ TenWrite(s) \/ \E owns \in BOOLEAN : TenExternal(s, owns)
       \/ \E t \in TenSlots : \/ TenMove(s, t) \/ TenCopy(s, t) \/ TenTo(s, t)
                              \/ TenCopyFrom(s, t) \/ TenViewClone(s, t)

TenSpec == TenInit /\ [][TenNext]_tenVars

-----------------------------------------------------------------------------
\* Every block belongs to one tensor, whose device frees it, or is lent by the
\* client; no tensor refers to memory that was freed.
TensorsOwned ==
  /\ \A a \in Addrs :
       Cardinality({s \in TenSlots : Claims(ten[s].h) /\ ten[s].h.data = a})
       + (IF a \in lent THEN 1 ELSE 0) = (IF theap[a] = NoBlock THEN 0 ELSE 1)
  /\ \A s \in TenSlots :
       ten[s].h.data # Null => /\ theap[ten[s].h.data].dev = ten[s].dev
                               /\ Claims(ten[s].h) => ten[s].h.fn = ten[s].dev

\* A chain of writes, clones, moves and copies, between devices too, ends with the
\* value it began with, whatever became of the source since; but for the copy
\* constructor on a CUDA device and the clone of a view that is strided or there.
CopiesFaithful ==
  \A s \in TenSlots :
    due[s].v # Undef /\ due[s].by = {}
      => ten[s].h.data # Null /\ theap[ten[s].h.data].val = due[s].v
=============================================================================
