----------------------------- MODULE Allocators -----------------------------
(***************************************************************************)
(* HostAllocator, AlignedAllocator and PinnedAllocator (memory/allocator): *)
(* a map from blocks to sizes and statistics, shared by threads.  Memory   *)
(* comes from the system before the mutex is taken and goes back before it *)
(* is released, so a step is one access to the system's heap or to what    *)
(* the mutex guards.  num_allocations and num_deallocations are kept as    *)
(* their difference; total_bytes is only reported.                         *)
(***************************************************************************)
EXTENDS Integers, FiniteSets, FiniteSetsExt

CONSTANTS AllocThreads,
          AllocAddrs,    \* bound: the addresses the system has
          AllocSizes,    \* sizes asked for, 0 among them
          MaxDrift       \* bound: bytes that clear() may drop

ASSUME AllocAssumption == IsFiniteSet(AllocAddrs) /\ AllocSizes \subseteq Nat

VARIABLES acls,      \* which of the classes the threads share
          asys,      \* bytes of the system's block at each address, 0 for none
          amap,      \* allocation_map_, 0 where it has no entry
          acur,      \* stats_.current_bytes
          apeak,     \* stats_.peak_bytes
          anet,      \* num_allocations - num_deallocations
          amtx,      \* mutex_ is held
          ado,       \* what each thread is doing
          aout,      \* addresses in the hands of clients
          adrift,    \* history: bytes of the entries that clear() dropped
          alost      \* history: how many those were

allocVars == <<acls, asys, amap, acur, apeak, anet, amtx, ado, aout, adrift, alost>>

Resting == [pc |-> "idle", a |-> 0]

AllocInit ==
  /\ acls \in {"host", "aligned", "pinned"}
  /\ asys = [a \in AllocAddrs |-> 0]
  /\ amap = asys
  /\ acur = 0 /\ apeak = 0 /\ anet = 0 /\ adrift = 0 /\ alost = 0
  /\ amtx = FALSE
  /\ ado = [t \in AllocThreads |-> Resting]
  /\ aout = {}

\* A block of the system, cleared; none for 0 bytes or when memory has run out.
Obtain(t) ==
  /\ ado[t] = Resting
  /\ \E n \in AllocSizes \ {0}, a \in {b \in AllocAddrs : asys[b] = 0} :
       /\ asys' = [asys EXCEPT ![a] = n]
       /\ ado' = [ado EXCEPT ![t] = [pc |-> "record", a |-> a]]
  /\ UNCHANGED <<acls, amap, acur, apeak, anet, amtx, aout, adrift, alost>>

HostAllocate(t) == acls = "host" /\ Obtain(t)

AlignedAllocate(t) == acls = "aligned" /\ Obtain(t)

PinnedAllocate(t) == acls = "pinned" /\ Obtain(t)

Larger(m, n) == IF m > n THEN m ELSE n

\* The locked part of allocate.
Record(t) ==
  LET a == ado[t].a
      now == acur + asys[a] IN
  /\ ado[t].pc = "record" /\ ~amtx
  /\ amap' = [amap EXCEPT ![a] = asys[a]]
  /\ acur' = now
  /\ apeak' = Larger(apeak, now)
  /\ anet' = anet + 1
  /\ aout' = aout \cup {a}
  /\ ado' = [ado EXCEPT ![t] = Resting]
  /\ UNCHANGED <<acls, asys, amtx, adrift, alost>>

\* deallocate of a block some client has: the entry goes, if there is one.
Erase(t) ==
  /\ ado[t] = Resting /\ ~amtx
  /\ \E a \in aout :
       /\ aout' = aout \ {a}
       /\ amtx' = TRUE
       /\ ado' = [ado EXCEPT ![t] = [pc |-> "free", a |-> a]]
       /\ amap' = [amap EXCEPT ![a] = 0]
       /\ acur' = acur - amap[a]
       /\ anet' = anet - (IF amap[a] = 0 THEN 0 ELSE 1)
  /\ UNCHANGED <<acls, asys, apeak, adrift, alost>>

HostDeallocate(t) == acls = "host" /\ Erase(t)

AlignedDeallocate(t) == acls = "aligned" /\ Erase(t)

PinnedDeallocate(t) == acls = "pinned" /\ Erase(t)

\* The block goes back and the mutex is released, entry or not.
SysFree(t) ==
  /\ ado[t].pc = "free"
  /\ asys' = [asys EXCEPT ![ado[t].a] = 0]
  /\ amtx' = FALSE
  /\ ado' = [ado EXCEPT ![t] = Resting]
  /\ UNCHANGED <<acls, amap, acur, apeak, anet, aout, adrift, alost>>

MapBytes == MapThenSumSet(LAMBDA a : amap[a], AllocAddrs)

MapCount == Cardinality({a \in AllocAddrs : amap[a] > 0})

\* clear forgets every entry; what they counted stays counted.
Clear ==
  /\ ~amtx /\ \E t \in AllocThreads : ado[t] = Resting
  /\ adrift + MapBytes <= MaxDrift
  /\ amap' = [a \in AllocAddrs |-> 0]
  /\ adrift' = adrift + MapBytes
  /\ alost' = alost + MapCount
  /\ UNCHANGED <<acls, asys, acur, apeak, anet, amtx, ado, aout>>

AllocNext ==
  \/ Clear
  \/ \E t \in AllocThreads :
       \/ HostAllocate(t) \/ AlignedAllocate(t) \/ PinnedAllocate(t) \/ Record(t)
       \/ HostDeallocate(t) \/ AlignedDeallocate(t) \/ PinnedDeallocate(t) \/ SysFree(t)

AllocSpec == AllocInit /\ [][AllocNext]_allocVars

-----------------------------------------------------------------------------
\* allocation_map_ describes live blocks with their sizes, though an address is
\* handed out again while the thread that freed it still holds the mutex, and
\* current_bytes and the counts are those of the map and of what clear dropped.
AllocatorsExact ==
  /\ acur = MapBytes + adrift
  /\ anet = MapCount + alost
  /\ \A a \in AllocAddrs : amap[a] > 0 => a \in aout /\ amap[a] = asys[a]
  /\ apeak >= acur
=============================================================================
