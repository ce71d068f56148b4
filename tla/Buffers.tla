------------------------------ MODULE Buffers ------------------------------
(***************************************************************************)
(* BufferHandle and TensorBuffer (memory/buffer_handle): who frees a block *)
(* of device memory, through moves, resets, adoption and detachment.  A    *)
(* plain BufferHandle is an object whose shape takes no bytes.  Contents   *)
(* are followed in Tensors, which uses the operators on handles below.     *)
(***************************************************************************)
EXTENDS Integers, FiniteSets

CONSTANTS BufDevices,\* the devices, CPU among them
          CPU,
          Null,      \* nullptr, also an empty std::function
          BufAddrs,  \* bound: the addresses memory can be given at, numbers
          Sizes,     \* sizes in bytes, all above 0
          BufSlots   \* objects of a client

ASSUME BufAssumption ==
  /\ CPU \in BufDevices /\ Null \notin BufDevices /\ Null \notin BufAddrs
  /\ Sizes \subseteq Nat \ {0}

VARIABLES bheap,     \* the block at each address, or Free
          buf,       \* each object's fields
          loose      \* addresses the client must free itself

bufVars == <<bheap, buf, loose>>

Free == [dev |-> Null, bytes |-> 0]

\* data_, bytes_ and device_ptr_; fn is the device whose deallocate the handle
\* will call, Null unless owns_data_ holds and dealloc_fn_ is set; num is
\* num_bytes() of a TensorBuffer's shape and dtype.  device_ is only reported.
NoHandle == [data |-> Null, bytes |-> 0, ptr |-> Null, fn |-> Null, num |-> 0]

-----------------------------------------------------------------------------
(* Handles                                                                 *)

\* Device::allocate: the lowest free address, or null where memory may run out
\* (the host's does not).
DeviceAllocate(heap, d) ==
  LET free == {a \in DOMAIN heap : heap[a].dev = Null}
      low == {a \in free : \A b \in free : a <= b} IN
  low \cup (IF d = CPU THEN {} ELSE {Null})

Claims(h) == h.data # Null /\ h.fn # Null

\* BufferHandle::deallocate, the heap's part of it and the handle's.
Dealloc(heap, h, free) == IF Claims(h) THEN [heap EXCEPT ![h.data] = free] ELSE heap

Emptied(h) == [h EXCEPT !.data = Null, !.fn = Null]

\* Mutant: a move leaves data_ and owns_data_ in the source.
MovedKept(h) == h

\* What a move leaves behind: bytes_ and device_ptr_ stay.
MovedFrom(h) == Emptied(h)

\* BufferHandle(device, bytes) given address a.
Fresh(d, n, a) == [NoHandle EXCEPT !.data = a, !.bytes = n, !.ptr = d, !.fn = d]

\* The heap after device d gave address a (or null).
Given(heap, a, block) == IF a = Null THEN heap ELSE [heap EXCEPT ![a] = block]

-----------------------------------------------------------------------------
BufInit ==
  /\ bheap = [a \in BufAddrs |-> Free]
  /\ buf = [s \in BufSlots |-> NoHandle]
  /\ loose = {}

\* s takes over the temporary h, as a move assignment does.
TakeOver(s, h, heap) ==
  /\ bheap' = Dealloc(heap, buf[s], Free)
  /\ buf' = [buf EXCEPT ![s] = h]

\* s = BufferHandle(device, n) and s = TensorBuffer(shape, dtype, device).
BufMake(s) ==
  \E d \in BufDevices, n \in Sizes, num \in {0} \cup Sizes :
    \E a \in DeviceAllocate(bheap, d) :
      /\ num \in {0, n}
      /\ TakeOver(s, [Fresh(d, n, a) EXCEPT !.num = num],
                  Given(bheap, a, [dev |-> d, bytes |-> n]))
      /\ UNCHANGED loose

BufMove(s, t) ==
  /\ s # t
  /\ bheap' = Dealloc(bheap, buf[s], Free)
  /\ buf' = [buf EXCEPT ![s] = buf[t], ![t] = MovedFrom(buf[t])]
  /\ UNCHANGED loose

BufReset(s) ==
  /\ bheap' = Dealloc(bheap, buf[s], Free)
  /\ buf' = [buf EXCEPT ![s] = Emptied(@)]
  /\ UNCHANGED loose

BufDestroy(s) ==
  /\ bheap' = Dealloc(bheap, buf[s], Free)
  /\ buf' = [buf EXCEPT ![s] = NoHandle]
  /\ UNCHANGED loose

\* What the handle frees, or borrows when the client gives no function.
Adopted(h, a, fn) == [h EXCEPT !.data = a, !.bytes = bheap[a].bytes, !.fn = fn]

\* reset(data, bytes, device, dealloc) keeps device_ptr_; the constructor of the
\* same arguments has none.  The client passes memory large enough for the shape.
BufAdopt(s) ==
  \E a \in loose, owned, constructed \in BOOLEAN :
    LET h == IF constructed THEN NoHandle ELSE buf[s] IN
    /\ bheap[a].bytes >= h.num
    /\ bheap' = Dealloc(bheap, buf[s], Free)
    /\ buf' = [buf EXCEPT ![s] = Adopted(h, a, IF owned THEN bheap[a].dev ELSE Null)]
    /\ loose' = IF owned THEN loose \ {a} ELSE loose

BufDetach(s) ==
  /\ buf[s].data # Null
  /\ buf' = [buf EXCEPT ![s].fn = Null]
  /\ loose' = IF Claims(buf[s]) THEN loose \cup {buf[s].data} ELSE loose
  /\ UNCHANGED bheap

\* t = s.clone(), on the device of device_ptr_, wherever the memory is.
BufClone(s, t) ==
  LET d == buf[s].ptr IN
  /\ s # t /\ d # Null /\ buf[t].num = 0 /\ buf[s].bytes > 0
  /\ \E a \in DeviceAllocate(bheap, d) :
       LET heap == Given(bheap, a, [dev |-> d, bytes |-> buf[s].bytes]) IN
       /\ bheap' = Dealloc(heap, buf[t], Free)
       /\ buf' = [buf EXCEPT ![t] = Fresh(d, buf[s].bytes, a)]
  /\ UNCHANGED loose

\* TensorBuffer::resize allocates again only when the shape needs more than
\* bytes_; the device asked for is ignored otherwise.
BufResize(s) ==
  \E d \in BufDevices, n \in Sizes :
    /\ IF n > buf[s].bytes
       THEN LET kept == Dealloc(bheap, buf[s], Free) IN
            \E a \in DeviceAllocate(kept, d) :
              /\ bheap' = Given(kept, a, [dev |-> d, bytes |-> n])
              /\ buf' = [buf EXCEPT ![s] = [Fresh(d, n, a) EXCEPT !.num = n]]
       ELSE buf' = [buf EXCEPT ![s].num = n] /\ UNCHANGED bheap
    /\ UNCHANGED loose

\* The client allocates and frees memory itself.
BufClient ==
  \/ \E d \in BufDevices, n \in Sizes : \E a \in DeviceAllocate(bheap, d) \ {Null} :
       /\ bheap' = [bheap EXCEPT ![a] = [dev |-> d, bytes |-> n]]
       /\ loose' = loose \cup {a}
       /\ UNCHANGED buf
  \/ \E a \in loose :
       /\ \A s \in BufSlots : buf[s].data # a      \* nobody borrows it
       /\ bheap' = [bheap EXCEPT ![a] = Free]
       /\ loose' = loose \ {a}
       /\ UNCHANGED buf

BufNext ==
  \/ BufClient
  \/ \E s \in BufSlots : \/ BufMake(s) \/ BufReset(s) \/ BufDestroy(s) \/ BufAdopt(s)
                         \/ BufDetach(s) \/ BufResize(s)
                         \/ \E t \in BufSlots : BufMove(s, t) \/ BufClone(s, t)

BufSpec == BufInit /\ [][BufNext]_bufVars

-----------------------------------------------------------------------------
\* Every block has one owner, which frees it on its own device: a handle or the
\* client, never two and never none.  A TensorBuffer's memory is large enough
\* for its shape, though bytes_ outlives the memory in a moved-from object.
BuffersOwned ==
  /\ \A a \in BufAddrs :
       Cardinality({s \in BufSlots : Claims(buf[s]) /\ buf[s].data = a})
       + (IF a \in loose THEN 1 ELSE 0) = (IF bheap[a] = Free THEN 0 ELSE 1)
  /\ \A s \in BufSlots :
       Claims(buf[s]) => /\ bheap[buf[s].data].dev = buf[s].fn
                         /\ bheap[buf[s].data].bytes >= buf[s].num
=============================================================================
