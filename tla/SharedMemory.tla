---------------------------- MODULE SharedMemory ----------------------------
(***************************************************************************)
(* SharedMemorySegment (bridges/ipc_bridge) in two processes that use one  *)
(* name.  A step is one system call of Create or Open, or one whole move,  *)
(* Destroy or crash.  The system's side is the directory entry, the        *)
(* objects with their sizes, and the tables of descriptors and mappings.   *)
(***************************************************************************)
EXTENDS Integers, FiniteSets

CONSTANTS ProcA, ProcB,   \* the segment variables of each process
          ShmObjects,     \* bound: objects the system ever makes, 1, 2, ...
          ShmSizes        \* sizes that Create is called with, above 0

ASSUME ShmAssumption ==
  /\ IsFiniteSet(ProcA) /\ IsFiniteSet(ProcB)
  /\ ShmObjects \subseteq Nat \ {0} /\ ShmSizes \subseteq Nat \ {0}

VARIABLES sdir,     \* object the name leads to, 0 for none
          ssize,    \* size of each object, -1 before it exists
          fds,      \* descriptors open on each object
          maps,     \* mappings of each object
          seg,      \* each segment variable
          clash,    \* history: a Create met an existing object
          again     \* history: a segment that was destroyed before unlinked the name

shmVars == <<sdir, ssize, fds, maps, seg, clash, again>>

ShmSlots == ProcA \cup ProcB

\* pc is the system call a Create or Open is at; fd and map are the objects behind
\* fd_ and mapped_addr_, 0 for none; size is mapped_size_ (0 in an invalid segment,
\* where it has no use), wish the size argument; named: name_ is not empty.
ShmBlank == [pc |-> "none", fd |-> 0, map |-> 0, size |-> 0, wish |-> 0, named |-> FALSE,
           creator |-> FALSE, state |-> "Invalid"]

ShmInit ==
  /\ sdir = 0
  /\ ssize = [o \in ShmObjects |-> -1]
  /\ fds = [o \in ShmObjects |-> 0]
  /\ maps = [o \in ShmObjects |-> 0]
  /\ seg = [s \in ShmSlots |-> ShmBlank]
  /\ clash = FALSE /\ again = FALSE

Closed(table, o) == IF o = 0 THEN table ELSE [table EXCEPT ![o] = @ - 1]

ShmIdle(s) == seg[s].pc = "none"

\* shm_open of object o.
OpenFd(s, o, pc, wish) ==
  /\ fds' = [fds EXCEPT ![o] = @ + 1]
  /\ seg' = [seg EXCEPT ![s] = [ShmBlank EXCEPT !.pc = pc, !.fd = o, !.wish = wish]]

\* Create, first call: O_CREAT without O_EXCL takes an existing object too.
ShmCreate(s) ==
  /\ seg[s] = ShmBlank
  /\ \E n \in ShmSizes :
       IF sdir # 0
       THEN OpenFd(s, sdir, "truncate", n) /\ clash' = TRUE /\ UNCHANGED <<sdir, ssize>>
       ELSE \E o \in ShmObjects :
              /\ ssize[o] = -1 /\ \A p \in ShmObjects : ssize[p] = -1 => o <= p
              /\ sdir' = o
              /\ ssize' = [ssize EXCEPT ![o] = 0]
              /\ OpenFd(s, o, "truncate", n)
              /\ UNCHANGED clash
  /\ UNCHANGED <<maps, again>>

\* Every later call may fail, which closes the descriptor and leaves the name.
GiveUp(s) ==
  /\ fds' = Closed(fds, seg[s].fd)
  /\ seg' = [seg EXCEPT ![s] = ShmBlank]
  /\ UNCHANGED <<sdir, ssize, maps, clash, again>>

ShmTruncate(s) ==
  /\ seg[s].pc = "truncate"
  /\ \/ GiveUp(s)
     \/ /\ ssize' = [ssize EXCEPT ![seg[s].fd] = seg[s].wish]
        /\ seg' = [seg EXCEPT ![s].pc = "map"]
        /\ UNCHANGED <<sdir, fds, maps, clash, again>>

\* Mutant: a failed mmap returns without closing the descriptor.
MapLeaking(s) ==
  /\ seg[s].pc = "map"
  /\ seg' = [seg EXCEPT ![s] = ShmBlank]
  /\ UNCHANGED <<sdir, ssize, fds, maps, clash, again>>

\* mmap of the size given to Create, or found by Open; 0 bytes cannot be mapped.
ShmMap(s) ==
  LET n == IF seg[s].wish > 0 THEN seg[s].wish ELSE seg[s].size IN
  /\ seg[s].pc = "map"
  /\ \/ GiveUp(s)
     \/ /\ n > 0
        /\ maps' = [maps EXCEPT ![seg[s].fd] = @ + 1]
        /\ seg' = [seg EXCEPT ![s] = [@ EXCEPT !.pc = "none", !.map = seg[s].fd, !.size = n, !.wish = 0,
                     !.named = TRUE, !.creator = seg[s].wish > 0,
                     !.state = IF seg[s].wish > 0 THEN "Created" ELSE "Opened"]]
        /\ UNCHANGED <<sdir, ssize, fds, clash, again>>

ShmOpen(s) ==
  /\ seg[s] = ShmBlank
  /\ sdir # 0
  /\ OpenFd(s, sdir, "stat", 0)
  /\ UNCHANGED <<sdir, ssize, maps, clash, again>>

ShmStat(s) ==
  /\ seg[s].pc = "stat"
  /\ \/ GiveUp(s)
     \/ /\ seg' = [seg EXCEPT ![s].pc = "map", ![s].size = ssize[seg[s].fd]]
        /\ UNCHANGED <<sdir, ssize, fds, maps, clash, again>>

\* Mutant: every segment with a name unlinks it.
TornByAll(s) ==
  /\ maps' = Closed(maps, seg[s].map)
  /\ fds' = Closed(fds, seg[s].fd)
  /\ sdir' = IF seg[s].named THEN 0 ELSE sdir
  /\ UNCHANGED <<ssize, clash, again>>

\* Destroy, for the system: unmap, close, and unlink by a creator that has a name.
Torn(s) ==
  LET unlinks == seg[s].creator /\ seg[s].named IN
  /\ maps' = Closed(maps, seg[s].map)
  /\ fds' = Closed(fds, seg[s].fd)
  /\ sdir' = IF unlinks THEN 0 ELSE sdir
  /\ again' = (again \/ (unlinks /\ seg[s].state = "Invalid" /\ sdir # 0))
  /\ UNCHANGED <<ssize, clash>>

\* is_creator_ and name_ stay.
ShmDestroy(s) ==
  /\ ShmIdle(s)
  /\ Torn(s)
  /\ seg' = [seg EXCEPT ![s] = [@ EXCEPT !.fd = 0, !.map = 0, !.size = 0, !.state = "Invalid"]]

\* The destructor, after which the variable can be declared anew.
ShmDestruct(s) ==
  /\ ShmIdle(s)
  /\ Torn(s)
  /\ seg' = [seg EXCEPT ![s] = ShmBlank]

\* What a move leaves: the string moved away, is_creator_ stays.
MovedSegment(g) == [g EXCEPT !.fd = 0, !.map = 0, !.size = 0, !.named = FALSE,
                              !.state = "Invalid"]

\* Move assignment within a process, with the Destroy that it begins with.
ShmMove(s, t) ==
  /\ s # t
  /\ {s, t} \subseteq ProcA \/ {s, t} \subseteq ProcB
  /\ ShmIdle(s) /\ ShmIdle(t)
  /\ Torn(s)
  /\ seg' = [seg EXCEPT ![s] = seg[t], ![t] = MovedSegment(seg[t])]

\* A process dies: the system closes and unmaps, the name stays.
ShmCrash(proc) ==
  /\ \E s \in proc : seg[s] # ShmBlank
  /\ fds' = [o \in ShmObjects |-> fds[o] - Cardinality({s \in proc : seg[s].fd = o})]
  /\ maps' = [o \in ShmObjects |-> maps[o] - Cardinality({s \in proc : seg[s].map = o})]
  /\ seg' = [s \in ShmSlots |-> IF s \in proc THEN ShmBlank ELSE seg[s]]
  /\ UNCHANGED <<sdir, ssize, clash, again>>

ShmNext ==
  \/ ShmCrash(ProcA) \/ ShmCrash(ProcB)
  \/ \E s \in ShmSlots :
       \/ ShmCreate(s) \/ ShmTruncate(s) \/ ShmMap(s) \/ ShmOpen(s) \/ ShmStat(s)
       \/ ShmDestroy(s) \/ ShmDestruct(s)
       \/ \E t \in ShmSlots : ShmMove(s, t)

ShmSpec == ShmInit /\ [][ShmNext]_shmVars

-----------------------------------------------------------------------------
\* Every open descriptor and every mapping belongs to exactly one segment, on
\* every path through failures, moves, repeated Destroy and crashes.
DescriptorsOwned ==
  \A o \in ShmObjects :
    /\ Cardinality({s \in ShmSlots : seg[s].fd = o}) = fds[o]
    /\ Cardinality({s \in ShmSlots : seg[s].map = o}) = maps[o]

\* The name leads to the memory of a live creator, and a mapping is no longer
\* than its object, as long as no Create met an existing object (there is no
\* O_EXCL) and no segment unlinked the name a second time (is_creator_ survives
\* Destroy).
NameHeld ==
  ~clash /\ ~again =>
    \A s \in ShmSlots :
      seg[s].map # 0 => /\ seg[s].state = "Created" => sdir = seg[s].map
                        /\ seg[s].size <= ssize[seg[s].map]
=============================================================================
