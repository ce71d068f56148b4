----------------------------- MODULE GpuTensors -----------------------------
(***************************************************************************)
(* GpuTensor over the CudaAllocator (gpu/gpu_tensor, gpu/gpu_memory): who  *)
(* owns managed memory, and the allocator's three maps and statistics.     *)
(* Every allocator call holds its mutex to the end, so a call is a step.   *)
(* A CUDA error in a copy ends the process (CUDA_CHECK).                   *)
(***************************************************************************)
EXTENDS Integers, FiniteSets, FiniteSetsExt

CONSTANTS GAddrs,    \* bound: the addresses CUDA memory can have, above 0
          GSizes,    \* nbytes() of the shapes used, above 0
          Scalar,    \* nbytes() of a shape without dimensions
          GSlots     \* the GpuTensors of a client

ASSUME GpuAssumption ==
  0 \notin GAddrs /\ IsFiniteSet(GAddrs) /\ GSizes \subseteq Nat \ {0} /\ Scalar \in Nat

VARIABLES gmem,      \* what the three maps hold at each address (map) and
                     \* stats_.current_bytes (cur)
          gbase,     \* history: bytes live when reset_stats was called last
          gt,        \* each tensor: data_ (0 for null), nbytes(), owns_data_
          glive      \* the process runs

gpuVars == <<gmem, gbase, gt, glive>>

GNone == [kind |-> "none", bytes |-> 0]

GEmpty == [data |-> 0, n |-> Scalar, owns |-> FALSE]

GpuInit ==
  /\ gmem = [map |-> [a \in GAddrs |-> GNone], cur |-> 0]
  /\ gbase = 0
  /\ gt = [s \in GSlots |-> GEmpty]
  /\ glive = TRUE

GBytes == MapThenSumSet(LAMBDA a : gmem.map[a].bytes, GAddrs)

-----------------------------------------------------------------------------
(* CudaAllocator                                                           *)

\* The address cudaMalloc* answers with, 0 when it fails.
GChoices(m) ==
  LET free == {a \in GAddrs : m.map[a] = GNone} IN
  {0} \cup {a \in free : \A b \in free : a <= b}

\* allocate_managed, allocate_device and allocate_pinned, given address a, with
\* update_stats(bytes, true).
AllocateKind(m, kind, a, n) ==
  IF a = 0 THEN m
  ELSE [map |-> [m.map EXCEPT ![a] = [kind |-> kind, bytes |-> n]], cur |-> m.cur + n]

\* Mutant: update_stats takes the bytes off after the entry was erased.
DeallocateUncounted(m, kind, a) ==
  IF a # 0 /\ m.map[a].kind = kind THEN [m EXCEPT !.map[a] = GNone] ELSE m

\* The three deallocations, with update_stats(bytes, false); a pointer that the
\* kind's map does not know is left alone.
DeallocateKind(m, kind, a) ==
  IF a # 0 /\ m.map[a].kind = kind
  THEN [map |-> [m.map EXCEPT ![a] = GNone], cur |-> m.cur - m.map[a].bytes]
  ELSE m

\* Clients use device and pinned memory directly, and may free a pointer twice
\* or with the wrong call.
GpuClient ==
  \E kind \in {"device", "pinned"} :
    /\ glive
    /\ \/ \E n \in GSizes, a \in GChoices(gmem) : gmem' = AllocateKind(gmem, kind, a, n)
       \/ \E a \in {b \in GAddrs : gmem.map[b].kind # "managed"} :
            gmem' = DeallocateKind(gmem, kind, a)
    /\ UNCHANGED <<gbase, gt, glive>>

ResetStats ==
  /\ glive
  /\ gmem' = [gmem EXCEPT !.cur = 0]
  /\ gbase' = GBytes
  /\ UNCHANGED <<gt, glive>>

-----------------------------------------------------------------------------
(* GpuTensor                                                               *)

\* The destructor's part, which assignments do first.
Drop(m, g) == IF g.owns THEN DeallocateKind(m, "managed", g.data) ELSE m

Set(m, tensors) ==
  /\ gmem' = m
  /\ gt' = tensors
  /\ UNCHANGED <<gbase, glive>>

\* exit() from CUDA_CHECK.
Exit == glive' = FALSE /\ UNCHANGED <<gmem, gbase, gt>>

\* A tensor of its own memory (create, create_uninitialized, from_host, zeros),
\* in a new variable; without memory a copy into it ends the process.
GpuCreate(s) ==
  \E n \in GSizes, a \in GChoices(gmem), copies \in BOOLEAN :
    /\ glive /\ gt[s] = GEmpty
    /\ IF a = 0 /\ copies THEN Exit
       ELSE Set(AllocateKind(gmem, "managed", a, n),
                [gt EXCEPT ![s] = [data |-> a, n |-> n, owns |-> TRUE]])

\* view and reshape: a tensor that borrows.
GpuView(s, t) ==
  /\ glive /\ s # t /\ gt[s] = GEmpty
  /\ \E n \in GSizes : Set(gmem, [gt EXCEPT ![s] = [data |-> gt[t].data, n |-> n, owns |-> FALSE]])

GpuDestroy(s) == glive /\ Set(Drop(gmem, gt[s]), [gt EXCEPT ![s] = GEmpty])

\* A pointer into memory that is still managed.
GLive(m, a) == a # 0 /\ m.map[a].kind = "managed"

\* The copy constructor copies an owner and shares the memory of a borrower.
GpuCopyConstruct(s, t) ==
  /\ glive /\ s # t /\ gt[s] = GEmpty
  /\ IF gt[t].data # 0 /\ gt[t].owns
     THEN \E a \in GChoices(gmem) :
            IF a = 0 THEN Exit
            ELSE Set(AllocateKind(gmem, "managed", a, gt[t].n),
                     [gt EXCEPT ![s] = [gt[t] EXCEPT !.data = a]])
     ELSE Set(gmem, [gt EXCEPT ![s] = [gt[t] EXCEPT !.owns = FALSE]])

\* Copy assignment frees its own memory first and copies from any tensor: from
\* one without memory CUDA reports an error, and from a borrower of the memory
\* just freed an error or whatever the freed memory holds.
GpuAssign(s, t) ==
  LET freed == Drop(gmem, gt[s]) IN
  /\ glive /\ s # t
  /\ \E a \in GChoices(freed) :
       IF a = 0 \/ gt[t].data = 0 THEN Exit
       ELSE \/ Set(AllocateKind(freed, "managed", a, gt[t].n),
                   [gt EXCEPT ![s] = [gt[t] EXCEPT !.data = a, !.owns = TRUE]])
            \/ ~GLive(freed, gt[t].data) /\ Exit

\* Move construction and assignment: the shape moves too, which leaves nbytes()
\* of one element.
GpuMove(s, t) ==
  /\ glive /\ s # t
  /\ Set(Drop(gmem, gt[s]), [gt EXCEPT ![s] = gt[t], ![t] = GEmpty])

GpuNext ==
  \/ GpuClient \/ ResetStats
  \/ \E s \in GSlots :
       \/ GpuCreate(s) \/ GpuDestroy(s)
       \/ \E t \in GSlots : GpuView(s, t) \/ GpuCopyConstruct(s, t) \/ GpuAssign(s, t) \/ GpuMove(s, t)

GpuSpec == GpuInit /\ [][GpuNext]_gpuVars

-----------------------------------------------------------------------------
\* Managed memory belongs to exactly one owning tensor, whatever is copied,
\* assigned and moved: none is freed under an owner and none is leaked.
GpuOwned ==
  \A a \in GAddrs :
    Cardinality({s \in GSlots : gt[s].owns /\ gt[s].data = a})
      = (IF gmem.map[a].kind = "managed" THEN 1 ELSE 0)

\* current_bytes is what the three maps hold, less what they held when
\* reset_stats was called last: freeing older memory takes it below zero (the
\* code's counter is unsigned and wraps).
CudaExact == gmem.cur = GBytes - gbase
=============================================================================
