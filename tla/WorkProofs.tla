----------------------------- MODULE WorkProofs -----------------------------
(***************************************************************************)
(* Safety of GpuScheduler, LegacyPool, TaskGraphs with its queries, and    *)
(* what the Kernels compute, as parts of MCWork, for any number of         *)
(* workers, clients, tasks and streams and any launch.                     *)
(***************************************************************************)
EXTENDS MCWork, SequenceTheorems, FiniteSetTheorems, WellFoundedInduction, TLAPS

-----------------------------------------------------------------------------
(* Induction, and sequences that count                                     *)

\* Induction over the subsets of a finite set: a family of them has a minimal member.
LEMMA SubsetMin ==
    ASSUME NEW S, IsFiniteSet(S), NEW B \in SUBSET (SUBSET S), B # {}
    PROVE  \E T \in B : \A U \in B : U \subseteq T => U = T
<1> DEFINE R == StrictSubsetOrdering(S)
<1>1. IsWellFoundedOn(R, SUBSET S)
  <2>1. IsWellFoundedOn(R, FiniteSubsetsOf(S))
    BY FS_StrictSubsetOrderingWellFounded
  <2>2. FiniteSubsetsOf(S) = SUBSET S
    BY FS_FiniteSubsetsOfFinite
  <2>3. QED
    BY <2>1, <2>2
<1> HIDE DEF R
<1>2. \E T \in B : \A U \in B : ~(<<U, T>> \in R)
  BY <1>1, WFMin
<1>3. QED
  BY <1>2 DEF R, StrictSubsetOrdering

\* Induction over the naturals, in the form of a set.
LEMMA NatInduct ==
    ASSUME NEW S, 0 \in S, \A k \in Nat : k \in S => k + 1 \in S
    PROVE  \A k \in Nat : k \in S
<1> SUFFICES ASSUME Nat \ S # {} PROVE FALSE
  OBVIOUS
<1>1. PICK k \in Nat \ S : \A j \in Nat \ S : ~(<<j, k>> \in OpToRel(<, Nat))
  BY NatLessThanWellFounded, WFMin
<1>2. \A j \in Nat \ S : ~(j < k)
  BY <1>1 DEF OpToRel
<1>3. k # 0 /\ k - 1 \in Nat /\ k - 1 \in S
  BY <1>2
<1>4. k - 1 + 1 \in S
  BY <1>3
<1>5. QED
  BY <1>4

\* The first n numbers, in order.
UpTo(n) == [i \in 1 .. n |-> i]

\* s counts on from k.
CountsFrom(s, k) == \A i \in 1 .. Len(s) : s[i] = k + i

\* Three sequences that count on from one another, put together.
LEMMA CountOn ==
    ASSUME NEW s \in Seq(Nat), NEW t \in Seq(Nat), NEW u \in Seq(Nat), NEW n \in Nat,
           n = Len(s) + Len(t) + Len(u),
           CountsFrom(s, 0), CountsFrom(t, Len(s)), CountsFrom(u, Len(s) + Len(t))
    PROVE  s \o t \o u = UpTo(n)
<1> DEFINE st == s \o t
           r == st \o u
<1>1. /\ st \in Seq(Nat) /\ Len(st) = Len(s) + Len(t)
      /\ \A i \in 1 .. Len(st) :
            st[i] = IF i <= Len(s) THEN s[i] ELSE t[i - Len(s)]
  OBVIOUS
<1>2. Len(s) \in Nat /\ Len(t) \in Nat /\ Len(u) \in Nat
  OBVIOUS
<1>3. /\ \A i \in 1 .. Len(s) : s[i] = i
      /\ \A i \in 1 .. Len(t) : t[i] = Len(s) + i
      /\ \A i \in 1 .. Len(u) : u[i] = Len(s) + Len(t) + i
  BY <1>2 DEF CountsFrom
<1>4. ASSUME NEW i \in 1 .. Len(st) PROVE st[i] = i
  <2>1. CASE i <= Len(s)
    BY <1>1, <1>2, <1>3, <2>1
  <2>2. CASE ~(i <= Len(s))
    <3>1. i - Len(s) \in 1 .. Len(t)
      BY <1>1, <1>2, <2>2
    <3>2. QED
      BY <1>1, <1>2, <1>3, <2>2, <3>1
  <2>3. QED
    BY <2>1, <2>2
<1> HIDE DEF st
<1>5. /\ r \in Seq(Nat) /\ Len(r) = n
      /\ \A i \in 1 .. n : r[i] = IF i <= Len(st) THEN st[i] ELSE u[i - Len(st)]
  <2>1. st \in Seq(Nat)
    BY <1>1
  <2>2. /\ r \in Seq(Nat) /\ Len(r) = Len(st) + Len(u)
        /\ \A i \in 1 .. (Len(st) + Len(u)) :
              r[i] = IF i <= Len(st) THEN st[i] ELSE u[i - Len(st)]
    BY <2>1
  <2>3. Len(st) + Len(u) = n
    BY <1>1, <1>2
  <2>4. QED
    BY <2>2, <2>3
<1>6. ASSUME NEW i \in 1 .. n PROVE r[i] = i
  <2>1. CASE i <= Len(st)
    BY <1>1, <1>2, <1>4, <1>5, <2>1
  <2>2. CASE ~(i <= Len(st))
    <3>1. i - Len(st) \in 1 .. Len(u)
      BY <1>1, <1>2, <2>2
    <3>2. QED
      BY <1>1, <1>2, <1>5, <1>3, <2>2, <3>1
  <2>3. QED
    BY <2>1, <2>2
<1> HIDE DEF r
<1>7. r = [i \in 1 .. n |-> r[i]]
  BY <1>5
<1>8. r = [i \in 1 .. n |-> i]
  BY <1>6, <1>7
<1>9. QED
  BY <1>8 DEF r, st, UpTo

-----------------------------------------------------------------------------
(* GpuScheduler.  The tasks are counted through: those executed, the one    *)
(* the worker has taken off the deque, and those still there.              *)

\* How many tasks the worker holds.
Executing == IF gtask = NoTask THEN 0 ELSE 1

\* Types, as far as the argument needs them.
SchedTypes ==
    /\ gmade \in Nat /\ gcreated \in Nat /\ gcurrent \in Nat
    /\ gdone \in Seq(Nat)
    /\ gqueue \in Seq([nr : Nat, stream : Nat])
    /\ gtask \in [nr : Nat, stream : Nat]
    /\ gopen \subseteq Nat
    /\ grunning \in BOOLEAN /\ gtorn \in BOOLEAN
    /\ glate \in Nat

\* Every task has its number's place in the line.
InLine ==
    /\ gmade = Len(gdone) + Executing + Len(gqueue)
    /\ \A i \in 1 .. Len(gdone) : gdone[i] = i
    /\ gtask # NoTask => gtask.nr = Len(gdone) + 1
    /\ \A i \in 1 .. Len(gqueue) : gqueue[i].nr = Len(gdone) + Executing + i

\* The worker holds a task only while it executes, and is gone once shutdown
\* has returned; streams_ holds open streams only.
WorkerJoined ==
    /\ gtask # NoTask <=> gworker = "execute"
    /\ (~grunning /\ gcontrol = "idle") => gworker = "none"
    /\ gcontrol # "idle" => ~grunning
    /\ gstreams \subseteq gopen /\ ~gtorn

\* A worker that has yet to look at running_, or has just seen it raised, has taken
\* no task since it was cleared.
OneLate ==
    /\ glate <= 1
    /\ grunning \/ gworker = "pop" => glate = 0

SchedInv == SchedTypes /\ InLine /\ WorkerJoined /\ OneLate

\* The invariant says that the tasks run in the order of submission.
LEMMA SchedInvOrder ==
    ASSUME SchedInv
    PROVE  SchedulerOrder
<1> DEFINE held == IF gtask = NoTask THEN << >> ELSE <<gtask.nr>>
           left == [i \in DOMAIN gqueue |-> gqueue[i].nr]
<1>1. /\ gmade \in Nat /\ gdone \in Seq(Nat) /\ gtask.nr \in Nat
      /\ gqueue \in Seq([nr : Nat, stream : Nat])
  BY DEF SchedInv, SchedTypes
<1>2. held \in Seq(Nat) /\ Len(held) = Executing
  BY <1>1 DEF Executing
<1>3. CountsFrom(held, Len(gdone))
  BY <1>1 DEF SchedInv, InLine, CountsFrom
<1>4. DOMAIN gqueue = 1 .. Len(gqueue) /\ Len(gqueue) \in Nat
  BY <1>1
<1>5. left \in Seq(Nat) /\ Len(left) = Len(gqueue)
  <2>0. \A i \in 1 .. Len(gqueue) : gqueue[i].nr \in Nat
    <3>1. \A i \in 1 .. Len(gqueue) : gqueue[i] \in [nr : Nat, stream : Nat]
      BY <1>1, ElementOfSeq
    <3>2. QED
      BY <3>1
  <2>1. left \in [1 .. Len(gqueue) -> Nat]
    BY <1>4, <2>0
  <2>2. QED
    BY <1>4, <2>1
<1>6. CountsFrom(left, Len(gdone) + Len(held))
  BY <1>2, <1>4, <1>5 DEF SchedInv, InLine, CountsFrom
<1>7. gmade = Len(gdone) + Len(held) + Len(left)
  BY <1>2, <1>5 DEF SchedInv, InLine
<1> HIDE DEF held, left
<1>8. CountsFrom(gdone, 0)
  BY <1>1 DEF SchedInv, InLine, CountsFrom
<1>9. gdone \o held \o left = UpTo(gmade)
  <2>1. gmade \in Nat /\ gdone \in Seq(Nat) /\ held \in Seq(Nat) /\ left \in Seq(Nat)
    BY <1>1, <1>2, <1>5
  <2>2. QED
    BY <1>3, <1>6, <1>7, <1>8, <2>1, CountOn
<1>10. ~grunning /\ gcontrol = "idle" => gtask = NoTask
  BY DEF SchedInv, WorkerJoined
<1>11. ~gtorn
  BY DEF SchedInv, WorkerJoined
<1>12. glate <= 1
  BY DEF SchedInv, OneLate
<1>13. QED
  BY <1>9, <1>10, <1>11, <1>12 DEF SchedulerOrder, held, left, UpTo

\* An empty scheduler satisfies it.
LEMMA SchedInvInit ==
    ASSUME SchedInit
    PROVE  SchedInv
<1>1. gtask = [nr |-> 0, stream |-> 0] /\ gdone = << >> /\ gqueue = << >>
  BY DEF SchedInit, NoTask
<1>2. SchedTypes
  <2>1. gdone \in Seq(Nat) /\ gqueue \in Seq([nr : Nat, stream : Nat])
    BY <1>1
  <2>2. gtask \in [nr : Nat, stream : Nat]
    BY <1>1
  <2>3. QED
    BY <2>1, <2>2 DEF SchedInit, SchedTypes
<1>3. InLine
  BY <1>1 DEF SchedInit, InLine, Executing, NoTask
<1>4. WorkerJoined
  BY DEF SchedInit, WorkerJoined
<1>5. OneLate
  BY DEF SchedInit, OneLate
<1>6. QED
  BY <1>2, <1>3, <1>4, <1>5 DEF SchedInv

\* A step that leaves the tasks alone keeps them in line.
LEMMA LineKept ==
    ASSUME InLine, UNCHANGED <<gmade, gdone, gtask, gqueue>>
    PROVE  InLine'
BY DEF InLine, Executing

\* Submitting puts the next number at the end of the line.
LEMMA SubmitInv ==
    ASSUME SchedInv, Submit
    PROVE  SchedInv'
<1> DEFINE new == [nr |-> gmade + 1, stream |-> gcurrent]
<1>1. /\ gmade' = gmade + 1 /\ gqueue' = Append(gqueue, new)
      /\ gdone' = gdone /\ gtask' = gtask
      /\ UNCHANGED <<grunning, gcurrent, gstreams, gcreated, gopen, gworker,
                     gcontrol, gtorn, glate>>
  BY DEF Submit
<1>2. new \in [nr : Nat, stream : Nat] /\ new.nr = gmade + 1
  BY DEF SchedInv, SchedTypes
<1> HIDE DEF new
<1>3. SchedTypes'
  BY <1>1, <1>2 DEF SchedInv, SchedTypes
<1>4. Executing' = Executing /\ Executing \in Nat
  BY <1>1 DEF Executing
<1>5. /\ Len(gqueue) \in Nat /\ Len(gdone) \in Nat /\ gmade \in Nat
      /\ Len(gqueue') = Len(gqueue) + 1
      /\ \A i \in 1 .. Len(gqueue) : gqueue'[i] = gqueue[i]
      /\ gqueue'[Len(gqueue) + 1] = new
  BY <1>1, <1>2 DEF SchedInv, SchedTypes
<1>6. ASSUME NEW i \in 1 .. Len(gqueue')
      PROVE  gqueue'[i].nr = Len(gdone) + Executing + i
  <2>1. CASE i = Len(gqueue) + 1
    BY <1>2, <1>4, <1>5, <2>1 DEF SchedInv, InLine
  <2>2. CASE i # Len(gqueue) + 1
    <3>1. i \in 1 .. Len(gqueue)
      BY <1>5, <2>2
    <3>2. QED
      BY <1>5, <3>1 DEF SchedInv, InLine
  <2>3. QED
    BY <2>1, <2>2
<1>7. InLine'
  BY <1>1, <1>4, <1>5, <1>6 DEF SchedInv, InLine
<1>8. WorkerJoined' /\ OneLate'
  BY <1>1 DEF SchedInv, WorkerJoined, OneLate
<1>9. QED
  BY <1>3, <1>7, <1>8 DEF SchedInv

\* The worker looks at running_.
LEMMA PollRunningInv ==
    ASSUME SchedInv, PollRunning
    PROVE  SchedInv'
<1>1. /\ gworker = "poll" /\ gtask = NoTask
      /\ gworker' = IF grunning THEN "pop" ELSE "ended"
      /\ UNCHANGED <<gqueue, grunning, gcurrent, gstreams, gcreated, gopen, gtask, gcontrol,
                     gmade, gdone, gtorn, glate>>
  BY DEF PollRunning, SchedInv, WorkerJoined
<1>2. SchedTypes' /\ InLine'
  BY <1>1, LineKept DEF SchedInv, SchedTypes
<1>3. WorkerJoined' /\ OneLate'
  BY <1>1 DEF SchedInv, WorkerJoined, OneLate
<1>4. QED
  BY <1>2, <1>3 DEF SchedInv

\* It takes the head of the line, whatever running_ has become.
LEMMA PollPopInv ==
    ASSUME SchedInv, PollPop
    PROVE  SchedInv'
<1>1. /\ gworker = "pop" /\ gtask = NoTask /\ Executing = 0 /\ glate = 0
      /\ UNCHANGED <<grunning, gcurrent, gstreams, gcreated, gopen, gcontrol,
                     gmade, gdone, gtorn>>
  BY DEF PollPop, SchedInv, WorkerJoined, OneLate, Executing
<1>0. ~(~grunning /\ gcontrol = "idle")
  BY <1>1 DEF SchedInv, WorkerJoined
<1>2. CASE gworker' = "poll" /\ UNCHANGED <<gqueue, gtask, glate>>
  <2>1. SchedTypes' /\ InLine'
    BY <1>1, <1>2, LineKept DEF SchedInv, SchedTypes
  <2>2. WorkerJoined' /\ OneLate'
    BY <1>0, <1>1, <1>2 DEF SchedInv, WorkerJoined, OneLate
  <2>3. QED
    BY <2>1, <2>2 DEF SchedInv
<1>3. CASE /\ gqueue # << >> /\ gtask' = Head(gqueue)
           /\ gqueue' = Tail(gqueue) /\ gworker' = "execute"
           /\ glate' = IF grunning THEN glate ELSE glate + 1
  <2>1. /\ gqueue \in Seq([nr : Nat, stream : Nat]) /\ Len(gqueue) \in Nat \ {0}
        /\ Len(gdone) \in Nat /\ gmade \in Nat
    BY <1>3 DEF SchedInv, SchedTypes
  <2>2. /\ gtask' = gqueue[1] /\ gtask' \in [nr : Nat, stream : Nat]
        /\ gqueue' \in Seq([nr : Nat, stream : Nat])
        /\ Len(gqueue') = Len(gqueue) - 1
        /\ \A i \in 1 .. Len(gqueue') : gqueue'[i] = gqueue[i + 1]
    <3> DEFINE R == [nr : Nat, stream : Nat]
    <3> HIDE DEF R
    <3>1. gqueue \in Seq(R)
      BY <2>1 DEF R
    <3>2. /\ Head(gqueue) = gqueue[1] /\ Head(gqueue) \in R
          /\ Tail(gqueue) \in Seq(R) /\ Len(Tail(gqueue)) = Len(gqueue) - 1
          /\ \A i \in 1 .. (Len(gqueue) - 1) : Tail(gqueue)[i] = gqueue[i + 1]
      BY <2>1, <3>1
    <3>3. QED
      BY <1>3, <3>2 DEF R
  <2>3. gtask'.nr = Len(gdone) + 1
    BY <1>1, <2>1, <2>2 DEF SchedInv, InLine
  <2>4. gtask' # NoTask /\ Executing' = 1
    BY <2>1, <2>3 DEF NoTask, Executing
  <2>5. SchedTypes'
    BY <1>1, <1>3, <2>2 DEF SchedInv, SchedTypes
  <2>6. ASSUME NEW i \in 1 .. Len(gqueue')
        PROVE  gqueue'[i].nr = Len(gdone) + 1 + i
    <3>1. i + 1 \in 1 .. Len(gqueue) /\ gqueue'[i] = gqueue[i + 1]
      BY <2>1, <2>2
    <3>2. gqueue[i + 1].nr = Len(gdone) + Executing + (i + 1)
      BY <3>1 DEF SchedInv, InLine
    <3>3. QED
      BY <1>1, <2>1, <3>1, <3>2
  <2>7. gmade = Len(gdone) + 1 + Len(gqueue')
    BY <1>1, <2>1, <2>2 DEF SchedInv, InLine
  <2>8. InLine'
    BY <1>1, <2>3, <2>4, <2>6, <2>7 DEF SchedInv, InLine
  <2>9. WorkerJoined' /\ OneLate'
    BY <1>0, <1>1, <1>3, <2>4 DEF SchedInv, WorkerJoined, OneLate
  <2>10. QED
    BY <2>5, <2>8, <2>9 DEF SchedInv
<1>4. QED
  BY <1>2, <1>3 DEF PollPop

\* The task the worker held joins those that are done, or the process ends.
LEMMA ExecuteInv ==
    ASSUME SchedInv, Execute
    PROVE  SchedInv'
<1>1. CASE Ends
  <2>1. SchedTypes' /\ InLine' /\ WorkerJoined' /\ OneLate'
    BY <1>1, LineKept DEF Ends, SchedInv, SchedTypes, WorkerJoined, OneLate
  <2>2. QED
    BY <2>1 DEF SchedInv
<1>2. CASE ~Ends
  <2>1. /\ gworker = "execute" /\ gtask # NoTask
        /\ gdone' = Append(gdone, gtask.nr) /\ gtask' = NoTask
        /\ gworker' = "poll" /\ gqueue' = gqueue
        /\ UNCHANGED <<grunning, gcurrent, gstreams, gcreated, gopen, gcontrol,
                       gmade, gtorn, glate>>
    BY <1>2 DEF Execute, SchedInv, WorkerJoined
  <2>2. Executing = 1 /\ Executing' = 0
    BY <2>1 DEF Executing
  <2>3. /\ gdone \in Seq(Nat) /\ Len(gdone) \in Nat /\ Len(gqueue) \in Nat
        /\ gtask.nr = Len(gdone) + 1 /\ gmade \in Nat
    BY <2>1 DEF SchedInv, SchedTypes, InLine
  <2>4. /\ gdone' \in Seq(Nat) /\ Len(gdone') = Len(gdone) + 1
        /\ \A i \in 1 .. Len(gdone) : gdone'[i] = gdone[i]
        /\ gdone'[Len(gdone) + 1] = Len(gdone) + 1
    BY <2>1, <2>3
  <2>5. NoTask \in [nr : Nat, stream : Nat]
    BY DEF NoTask
  <2>6. SchedTypes'
    BY <2>1, <2>4, <2>5 DEF SchedInv, SchedTypes
  <2>7. ASSUME NEW i \in 1 .. Len(gdone') PROVE gdone'[i] = i
    <3>1. CASE i = Len(gdone) + 1
      BY <2>4, <3>1
    <3>2. CASE i # Len(gdone) + 1
      <4>1. i \in 1 .. Len(gdone)
        BY <2>3, <2>4, <3>2
      <4>2. QED
        BY <2>4, <4>1 DEF SchedInv, InLine
    <3>3. QED
      BY <3>1, <3>2
  <2>8. \A i \in 1 .. Len(gqueue) : gqueue[i].nr = Len(gdone') + 0 + i
    BY <2>2, <2>3, <2>4 DEF SchedInv, InLine
  <2>9. gmade = Len(gdone') + 0 + Len(gqueue)
    BY <2>2, <2>3, <2>4 DEF SchedInv, InLine
  <2>10. InLine'
    BY <2>1, <2>2, <2>7, <2>8, <2>9 DEF InLine
  <2>11. WorkerJoined' /\ OneLate'
    BY <2>1 DEF SchedInv, WorkerJoined, OneLate
  <2>12. QED
    BY <2>6, <2>10, <2>11 DEF SchedInv
<1>3. QED
  BY <1>1, <1>2

\* Streams and the two ends of a worker's life leave the line alone.
LEMMA ControlInv ==
    ASSUME SchedInv,
           \/ Initialize \/ Synchronize \/ CreateStream \/ DestroyStream \/ SetStream
           \/ ShutdownBegin \/ ShutdownSynchronize \/ ShutdownDestroy \/ ShutdownJoin
    PROVE  SchedInv'
<1>1. UNCHANGED <<gmade, gdone, gtask, gqueue>>
  BY DEF Initialize, Synchronize, CreateStream, DestroyStream, SetStream, ShutdownBegin,
         ShutdownSynchronize, ShutdownDestroy, ShutdownJoin, Ends
<1>2. InLine'
  BY <1>1, LineKept DEF SchedInv
<1>3. CASE Ends
  BY <1>2, <1>3 DEF Ends, SchedInv, SchedTypes, WorkerJoined, OneLate
<1>4. ASSUME ~Ends, Initialize PROVE SchedInv'
  <2>1. /\ gworker = "none" /\ gworker' = "poll" /\ gcontrol = "idle" /\ gcontrol' = "idle"
        /\ (grunning') = TRUE /\ gcreated' = gcreated + 1 /\ gcurrent' = gcreated + 1
        /\ gopen' = gopen \cup {gcreated + 1} /\ (glate') = 0 /\ UNCHANGED <<gstreams, gtorn>>
    BY <1>4 DEF Initialize, NewStream
  <2>2. SchedTypes'
    BY <1>1, <2>1 DEF SchedInv, SchedTypes
  <2>3. WorkerJoined' /\ OneLate'
    BY <1>1, <2>1 DEF SchedInv, WorkerJoined, OneLate
  <2>4. QED
    BY <1>2, <2>2, <2>3 DEF SchedInv
<1>5. ASSUME ~Ends, CreateStream PROVE SchedInv'
  <2>1. /\ gcreated' = gcreated + 1 /\ gopen' = gopen \cup {gcreated + 1}
        /\ gstreams' = gstreams \cup {gcreated + 1}
        /\ UNCHANGED <<grunning, gcurrent, gworker, gcontrol, gtorn, glate>>
    BY <1>5 DEF CreateStream, NewStream
  <2>2. SchedTypes'
    BY <1>1, <2>1 DEF SchedInv, SchedTypes
  <2>3. WorkerJoined' /\ OneLate'
    BY <1>1, <2>1 DEF SchedInv, WorkerJoined, OneLate
  <2>4. QED
    BY <1>2, <2>2, <2>3 DEF SchedInv
<1>6. CASE DestroyStream
  <2>1. /\ gopen' \subseteq gopen /\ gstreams' \subseteq gopen'
        /\ UNCHANGED <<grunning, gcurrent, gcreated, gworker, gcontrol, gtorn, glate>>
    BY <1>6 DEF DestroyStream, SchedInv, WorkerJoined
  <2>2. SchedTypes' /\ WorkerJoined' /\ OneLate'
    BY <1>1, <2>1 DEF SchedInv, SchedTypes, WorkerJoined, OneLate
  <2>3. QED
    BY <1>2, <2>2 DEF SchedInv
<1>7. CASE SetStream
  <2>1. /\ gcurrent' \in gopen \cup {0}
        /\ UNCHANGED <<grunning, gopen, gstreams, gcreated, gworker, gcontrol, gtorn, glate>>
    BY <1>7 DEF SetStream
  <2>2. SchedTypes' /\ WorkerJoined' /\ OneLate'
    BY <1>1, <2>1 DEF SchedInv, SchedTypes, WorkerJoined, OneLate
  <2>3. QED
    BY <1>2, <2>2 DEF SchedInv
<1>8. CASE ShutdownBegin
  BY <1>1, <1>2, <1>8 DEF ShutdownBegin, SchedInv, SchedTypes, WorkerJoined, OneLate
<1>9. ASSUME ~Ends, ShutdownSynchronize PROVE SchedInv'
  <2>1. /\ gcontrol = "synchronize" /\ gcontrol' = "destroy"
        /\ UNCHANGED <<grunning, gcurrent, gopen, gstreams, gcreated, gworker, gtorn, glate>>
    BY <1>9 DEF ShutdownSynchronize
  <2>2. SchedTypes'
    BY <1>1, <2>1 DEF SchedInv, SchedTypes
  <2>3. WorkerJoined' /\ OneLate'
    BY <1>1, <2>1 DEF SchedInv, WorkerJoined, OneLate
  <2>4. QED
    BY <1>2, <2>2, <2>3 DEF SchedInv
<1>10. CASE ShutdownDestroy
  <2>1. /\ gopen' = gopen \ gstreams /\ gstreams' = {} /\ (gtorn') = FALSE
        /\ gcontrol = "destroy" /\ gcontrol' = "join"
        /\ UNCHANGED <<grunning, gcurrent, gcreated, gworker, glate>>
    BY <1>10 DEF ShutdownDestroy, SchedInv, WorkerJoined
  <2>2. SchedTypes'
    BY <1>1, <2>1 DEF SchedInv, SchedTypes
  <2>3. WorkerJoined' /\ OneLate'
    BY <1>1, <2>1 DEF SchedInv, WorkerJoined, OneLate
  <2>4. QED
    BY <1>2, <2>2, <2>3 DEF SchedInv
<1>11. CASE ShutdownJoin
  <2>1. /\ gworker = "ended" /\ gworker' = "none" /\ gcontrol = "join" /\ gcontrol' = "idle"
        /\ UNCHANGED <<grunning, gcurrent, gopen, gstreams, gcreated, gtorn, glate>>
    BY <1>11 DEF ShutdownJoin
  <2>2. SchedTypes'
    BY <1>1, <2>1 DEF SchedInv, SchedTypes
  <2>3. WorkerJoined' /\ OneLate'
    BY <1>1, <2>1 DEF SchedInv, WorkerJoined, OneLate
  <2>4. QED
    BY <1>2, <2>2, <2>3 DEF SchedInv
<1>12. QED
  BY <1>3, <1>4, <1>5, <1>6, <1>7, <1>8, <1>9, <1>10, <1>11 DEF Synchronize

\* When another part of MCWork moves, or none, the scheduler stays as it is.
LEMMA SchedInvStep ==
    ASSUME part = "gpu scheduler" => SchedInv, [Next]_vars
    PROVE  (part = "gpu scheduler" => SchedInv)'
<1>1. part' = part
  BY DEF Next, RestOf, vars
<1>2. SUFFICES ASSUME part = "gpu scheduler" PROVE SchedInv'
  BY <1>1
<1>3. SchedNext \/ UNCHANGED schedVars
  BY <1>2 DEF Next, RestOf, vars
<1>4. CASE UNCHANGED schedVars
  BY <1>2, <1>4, LineKept DEF schedVars, SchedInv, SchedTypes, WorkerJoined, OneLate
<1>5. CASE SchedNext
  BY <1>2, <1>5, SubmitInv, PollRunningInv, PollPopInv, ExecuteInv, ControlInv DEF SchedNext
<1>6. QED
  BY <1>3, <1>4, <1>5

\* GpuScheduler executes every task once and in the order of submission, across
\* any number of shutdowns and initialisations, takes at most one task after running_
\* was cleared, holds none when shutdown has returned, and never destroys a stream a second time.
THEOREM SchedulerOrderKept == Spec => []OrderKept
<1>1. Init => (part = "gpu scheduler" => SchedInv)
  BY SchedInvInit DEF Init
<1>2. (part = "gpu scheduler" => SchedInv) => OrderKept
  BY SchedInvOrder DEF OrderKept
<1>3. QED
  BY <1>1, <1>2, SchedInvStep, PTL DEF Spec

-----------------------------------------------------------------------------
(* LegacyPool.  Every task that was enqueued is in the queue, with one      *)
(* worker that has not run it yet, or has ended; the counters follow the   *)
(* places of the workers.                                                  *)

\* The places of WorkerLoop in which a worker has a task that has not ended,
\* the ones lqueued and lactive count, and all others but "ran".
Holders == {"popped", "active", "running"}
Queuers == {"popped", "active"}
Actives == {"active", "running", "ran", "completed"}
Enders == {"ran"}
Leavers == {"joinable", "gone"}
Outside == {"none", "top", "tosleep", "asleep", "done", "joinable", "gone"}

Places == Outside \cup Holders \cup Actives

\* Types, as far as the argument needs them.
LegacyTypes ==
    /\ ltasks \in Seq(Nat) /\ lmade \in Nat
    /\ lactive \in Int /\ lqueued \in Int /\ lcompleted \in Int
    /\ wpc \in [LWorkers -> Places] /\ wtask \in [LWorkers -> Nat]
    /\ lstop \in BOOLEAN

\* Each task is in one place.
TasksOnce ==
    /\ \A i, j \in 1 .. Len(ltasks) : ltasks[i] = ltasks[j] => i = j
    /\ ToSet(ltasks) \subseteq 1 .. lmade /\ lran \subseteq 1 .. lmade
    /\ ToSet(ltasks) \cap lran = {}
    /\ \A w \in In(Holders) :
          wtask[w] \in (1 .. lmade) \ (ToSet(ltasks) \cup lran)
    /\ \A v, w \in In(Holders) : wtask[v] = wtask[w] => v = w
    /\ \A k \in (1 .. lmade) \ (ToSet(ltasks) \cup lran) :
          \E w \in In(Holders) : wtask[w] = k

\* The counters say where the workers are.
CountersFollow ==
    /\ lqueued = Len(ltasks) + Cardinality(In(Queuers))
    /\ lactive = Cardinality(In(Actives))
    /\ lcompleted + Cardinality(In(Enders)) = Cardinality(lran)

\* A worker leaves only when stop_ is set and the queue is empty, and what
\* comes later is late.
LeftLate ==
    In(Leavers) # {} => lstop /\ ToSet(ltasks) \subseteq llate

GapCounted == lgap.running \subseteq lgap.uncounted

LegacyInv == LegacyTypes /\ TasksOnce /\ CountersFollow /\ LeftLate /\ GapCounted

\* The invariant is what LegacySound says, and more.
LEMMA LegacyInvSound ==
    ASSUME LegacyInv
    PROVE  LegacySound
<1>1. (1 .. lmade) \ (lran \cup ToSet(ltasks)) = {wtask[w] : w \in In(Holders)}
  BY DEF LegacyInv, TasksOnce
<1>2. In({"gone"}) # {} => ToSet(ltasks) \subseteq llate
  BY DEF LegacyInv, LeftLate, In, Leavers
<1>3. QED
  BY <1>1, <1>2 DEF LegacyInv, TasksOnce, CountersFollow, GapCounted, LegacySound,
     Holders, Queuers, Actives, Enders

\* How many workers are at a set of places, and with one more or one less.
LEMMA InNumbers ==
    ASSUME NEW P
    PROVE  /\ Cardinality(In(P)) \in Nat
           /\ \A w : w \notin In(P) =>
                        Cardinality(In(P) \cup {w}) = Cardinality(In(P)) + 1
           /\ \A w \in In(P) : Cardinality(In(P) \ {w}) = Cardinality(In(P)) - 1
<1>1. IsFiniteSet(In(P))
  BY LegacyAssumption, FS_Subset DEF In
<1>2. QED
  BY <1>1, FS_CardinalityType, FS_AddElement, FS_RemoveElement

\* The queue after an append and after a pop.
LEMMA QueueSets ==
    ASSUME NEW s \in Seq(Nat), NEW k \in Nat,
           \A i, j \in 1 .. Len(s) : s[i] = s[j] => i = j
    PROVE  /\ k \notin ToSet(s) =>
                  /\ ToSet(Append(s, k)) = ToSet(s) \cup {k}
                  /\ \A i, j \in 1 .. Len(Append(s, k)) :
                        Append(s, k)[i] = Append(s, k)[j] => i = j
           /\ s # << >> =>
                  /\ Head(s) \in ToSet(s) /\ Head(s) \in Nat
                  /\ ToSet(Tail(s)) = ToSet(s) \ {Head(s)}
                  /\ \A i, j \in 1 .. Len(Tail(s)) : Tail(s)[i] = Tail(s)[j] => i = j
<1>1. /\ Len(s) \in Nat /\ DOMAIN s = 1 .. Len(s)
      /\ ToSet(s) = {s[i] : i \in 1 .. Len(s)}
  BY DEF ToSet
<1>2. ASSUME k \notin ToSet(s)
      PROVE  /\ ToSet(Append(s, k)) = ToSet(s) \cup {k}
             /\ \A i, j \in 1 .. Len(Append(s, k)) :
                   Append(s, k)[i] = Append(s, k)[j] => i = j
  <2> DEFINE a == Append(s, k)
  <2>1. /\ Len(a) = Len(s) + 1 /\ DOMAIN a = 1 .. (Len(s) + 1)
        /\ \A i \in 1 .. Len(s) : a[i] = s[i]
        /\ a[Len(s) + 1] = k
    OBVIOUS
  <2> HIDE DEF a
  <2>2. ToSet(a) = {a[i] : i \in 1 .. (Len(s) + 1)}
    BY <2>1 DEF ToSet
  <2>3. \A i \in 1 .. (Len(s) + 1) : i \in 1 .. Len(s) \/ i = Len(s) + 1
    BY <1>1
  <2>4. \A i \in 1 .. Len(s) : s[i] \in ToSet(s) /\ i \in 1 .. (Len(s) + 1)
    BY <1>1
  <2>5. ToSet(a) = ToSet(s) \cup {k}
    <3>1. \A x \in ToSet(a) : x \in ToSet(s) \cup {k}
      BY <2>1, <2>2, <2>3, <2>4
    <3>2. \A x \in ToSet(s) : x \in ToSet(a)
      BY <1>1, <2>1, <2>2, <2>4
    <3>3. k \in ToSet(a)
      <4>1. Len(s) + 1 \in 1 .. (Len(s) + 1)
        BY <1>1
      <4>2. QED
        BY <2>1, <2>2, <4>1
    <3>4. QED
      BY <3>1, <3>2, <3>3
  <2>6. \A i, j \in 1 .. (Len(s) + 1) : a[i] = a[j] => i = j
    BY <1>2, <2>1, <2>3, <2>4
  <2>7. QED
    BY <2>1, <2>5, <2>6 DEF a
<1>3. ASSUME s # << >>
      PROVE  /\ Head(s) \in ToSet(s) /\ Head(s) \in Nat
             /\ ToSet(Tail(s)) = ToSet(s) \ {Head(s)}
             /\ \A i, j \in 1 .. Len(Tail(s)) : Tail(s)[i] = Tail(s)[j] => i = j
  <2> DEFINE t == Tail(s)
  <2>1. /\ Len(s) \in Nat \ {0} /\ Head(s) = s[1] /\ Head(s) \in Nat
        /\ Len(t) = Len(s) - 1 /\ DOMAIN t = 1 .. (Len(s) - 1)
        /\ \A i \in 1 .. (Len(s) - 1) : t[i] = s[i + 1]
    BY <1>3
  <2> HIDE DEF t
  <2>2. ToSet(t) = {t[i] : i \in 1 .. (Len(s) - 1)}
    BY <2>1 DEF ToSet
  <2>3. 1 \in 1 .. Len(s)
    BY <2>1
  <2>4. Head(s) \in ToSet(s)
    BY <1>1, <2>1, <2>3
  <2>5. \A i \in 1 .. (Len(s) - 1) : i + 1 \in 1 .. Len(s) /\ i + 1 # 1
    BY <2>1
  <2>6. \A x \in ToSet(t) : x \in ToSet(s) /\ x # Head(s)
    BY <1>1, <2>1, <2>2, <2>3, <2>5
  <2>7. \A x \in ToSet(s) : x # Head(s) => x \in ToSet(t)
    <3>1. SUFFICES ASSUME NEW i \in 1 .. Len(s), s[i] # Head(s)
                   PROVE  s[i] \in ToSet(t)
      BY <1>1
    <3>2. i # 1
      BY <2>1, <3>1
    <3>3. i - 1 \in 1 .. (Len(s) - 1) /\ (i - 1) + 1 = i
      BY <2>1, <3>2
    <3>4. t[i - 1] = s[i]
      BY <2>1, <3>3
    <3>5. QED
      BY <2>2, <3>3, <3>4
  <2>8. ToSet(t) = ToSet(s) \ {Head(s)}
    BY <2>6, <2>7
  <2>9. ASSUME NEW i \in 1 .. (Len(s) - 1), NEW j \in 1 .. (Len(s) - 1), t[i] = t[j]
        PROVE  i = j
    <3>1. i + 1 \in 1 .. Len(s) /\ j + 1 \in 1 .. Len(s) /\ s[i + 1] = s[j + 1]
      BY <2>1, <2>5, <2>9
    <3>2. i + 1 = j + 1
      BY <3>1
    <3>3. QED
      BY <3>2
  <2>10. QED
    BY <2>1, <2>4, <2>8, <2>9 DEF t
<1>4. QED
  BY <1>2, <1>3

\* A pool that has just been built satisfies it.
LEMMA LegacyInvInit ==
    ASSUME LegacyInit
    PROVE  LegacyInv
<1>1. /\ ltasks = << >> /\ lmade = 0 /\ lstop = FALSE /\ lactive = 0 /\ lqueued = 0
      /\ lcompleted = 0 /\ lran = {} /\ llate = {}
      /\ wpc = [w \in LWorkers |-> IF w <= MinThreads THEN "top" ELSE "none"]
      /\ wtask = [w \in LWorkers |-> 0]
  BY DEF LegacyInit
<1>2. LegacyTypes
  <2>1. ltasks \in Seq(Nat)
    BY <1>1
  <2>2. wpc \in [LWorkers -> Places]
    BY <1>1 DEF Places, Outside
  <2>3. wtask \in [LWorkers -> Nat]
    BY <1>1
  <2>4. lmade \in Nat /\ lactive \in Int /\ lqueued \in Int /\ lcompleted \in Int
    BY <1>1
  <2>5. lstop \in BOOLEAN
    BY <1>1
  <2>6. QED
    BY <2>1, <2>2, <2>3, <2>4, <2>5 DEF LegacyTypes
<1>3. \A w \in LWorkers : wpc[w] \in {"top", "none"}
  BY <1>1
<1>4. In(Holders) = {} /\ In(Queuers) = {} /\ In(Actives) = {} /\ In(Enders) = {}
      /\ In(Leavers) = {}
  BY <1>3 DEF In, Holders, Queuers, Actives, Enders, Leavers
<1>5. ToSet(ltasks) = {} /\ Len(ltasks) = 0 /\ 1 .. lmade = {}
  BY <1>1 DEF ToSet
<1>6. TasksOnce
  BY <1>1, <1>4, <1>5 DEF TasksOnce
<1>7. CountersFollow
  BY <1>1, <1>4, <1>5, FS_EmptySet DEF CountersFollow
<1>8. LeftLate
  BY <1>4 DEF LeftLate
<1>9. GapCounted
  BY DEF LegacyInit, GapCounted
<1>10. QED
  BY <1>2, <1>6, <1>7, <1>8, <1>9 DEF LegacyInv

\* A worker that moves between places where it has no task, or none that moves.
StaysOutside ==
    /\ wpc' \in [LWorkers -> Places]
    /\ \A w \in LWorkers : \/ wpc'[w] = wpc[w]
                           \/ wpc[w] \in Outside /\ wpc'[w] \in Outside
    /\ In(Leavers)' # {} => In(Leavers) # {} \/ (lstop /\ ltasks = << >>)
    /\ lstop' \in BOOLEAN /\ (lstop => lstop')
    /\ UNCHANGED <<ltasks, lmade, lactive, lqueued, lcompleted, wtask, lran, llate, lgap>>

\* Such a step moves no task and no counter.
LEMMA OutsideInv ==
    ASSUME LegacyInv, StaysOutside
    PROVE  LegacyInv'
<1>1. UNCHANGED <<ltasks, lmade, lactive, lqueued, lcompleted, wtask, lran, llate, lgap>>
  BY DEF StaysOutside
<1>2. /\ In(Holders)' = In(Holders) /\ In(Queuers)' = In(Queuers)
      /\ In(Actives)' = In(Actives) /\ In(Enders)' = In(Enders)
  BY DEF StaysOutside, In, Outside, Holders, Queuers, Actives, Enders
<1>3. LegacyTypes'
  BY <1>1 DEF LegacyInv, LegacyTypes, StaysOutside
<1>4. ToSet(ltasks)' = ToSet(ltasks)
  BY <1>1
<1>5. TasksOnce'
  BY <1>1, <1>2, <1>4 DEF LegacyInv, TasksOnce
<1>6. CountersFollow'
  BY <1>1, <1>2 DEF LegacyInv, CountersFollow
<1>7. LeftLate'
  <2>1. ltasks = << >> => ToSet(ltasks) = {}
    BY DEF ToSet
  <2>2. QED
    BY <1>1, <1>4, <2>1 DEF LegacyInv, LeftLate, StaysOutside
<1>8. GapCounted'
  BY <1>1 DEF LegacyInv, GapCounted
<1>9. QED
  BY <1>3, <1>5, <1>6, <1>7, <1>8 DEF LegacyInv

\* Waking, sleeping, leaving, starting and joining workers, and what a client
\* does besides Enqueue and WaitAll's return.
LEMMA MovesOutside ==
    ASSUME LegacyTypes,
           \/ \E w \in LWorkers : WorkerReturn(w) \/ WorkerWait(w) \/ WorkerNotify(w)
           \/ \E c \in Clients : \/ EnqueueNotify(c) \/ WaitAllSleep(c)
                                 \/ Pause(c) \/ Resume(c)
           \/ Resize \/ Shutdown \/ Spurious
    PROVE  StaysOutside
<1>1. wpc \in [LWorkers -> Places] /\ lstop \in BOOLEAN
  BY DEF LegacyTypes
<1>2. ASSUME UNCHANGED wpc
      PROVE  /\ wpc' \in [LWorkers -> Places]
             /\ \A w \in LWorkers : wpc'[w] = wpc[w]
             /\ In(Leavers)' = In(Leavers)
  BY <1>1, <1>2 DEF In
<1>3. ASSUME WakeAll
      PROVE  /\ wpc' \in [LWorkers -> Places]
             /\ \A w \in LWorkers : \/ wpc'[w] = wpc[w]
                                    \/ wpc[w] \in Outside /\ wpc'[w] \in Outside
             /\ In(Leavers)' = In(Leavers)
  BY <1>1, <1>3 DEF WakeAll, Asleep, In, Leavers, Outside, Places
<1>4. ASSUME NEW w \in LWorkers, NEW to \in {"top", "tosleep", "asleep"},
             wpc[w] \in {"none", "top", "tosleep", "asleep", "done"},
             wpc' = [wpc EXCEPT ![w] = to]
      PROVE  /\ wpc' \in [LWorkers -> Places]
             /\ \A v \in LWorkers : \/ wpc'[v] = wpc[v]
                                    \/ wpc[v] \in Outside /\ wpc'[v] \in Outside
             /\ In(Leavers)' = In(Leavers)
  BY <1>1, <1>4 DEF In, Leavers, Outside, Places
<1>5. ASSUME NEW w \in LWorkers, WorkerReturn(w) PROVE StaysOutside
  <2>1. /\ wpc[w] = "top" /\ wpc' = [wpc EXCEPT ![w] = "joinable"]
        /\ lstop /\ ltasks = << >> /\ lstop' = lstop
    BY <1>5 DEF WorkerReturn, Woken
  <2>2. wpc' \in [LWorkers -> Places]
    BY <1>1, <2>1 DEF Outside, Places
  <2>3. \A v \in LWorkers : \/ wpc'[v] = wpc[v]
                            \/ wpc[v] \in Outside /\ wpc'[v] \in Outside
    BY <1>1, <2>1 DEF Outside
  <2>4. QED
    BY <1>1, <1>5, <2>1, <2>2, <2>3 DEF StaysOutside, WorkerReturn, Quiet
<1>6. ASSUME NEW w \in LWorkers, WorkerWait(w) PROVE StaysOutside
  BY <1>1, <1>4, <1>6 DEF StaysOutside, WorkerWait, Woken, Quiet
<1>7. ASSUME NEW w \in LWorkers, WorkerNotify(w) PROVE StaysOutside
  BY <1>1, <1>4, <1>7 DEF StaysOutside, WorkerNotify, Goes, Quiet
<1>8. ASSUME NEW c \in Clients, EnqueueNotify(c) PROVE StaysOutside
  <2>1. CASE UNCHANGED wpc
    BY <1>1, <1>2, <1>8, <2>1 DEF StaysOutside, EnqueueNotify, Quiet
  <2>2. CASE \E w \in Asleep : wpc' = [wpc EXCEPT ![w] = "top"]
    BY <1>1, <1>4, <1>8, <2>2 DEF StaysOutside, EnqueueNotify, Quiet, Asleep
  <2>3. QED
    BY <1>8, <2>1, <2>2 DEF EnqueueNotify
<1>9. ASSUME NEW c \in Clients, WaitAllSleep(c) PROVE StaysOutside
  BY <1>1, <1>2, <1>9 DEF StaysOutside, WaitAllSleep, Quiet
<1>10. ASSUME NEW c \in Clients, Pause(c) PROVE StaysOutside
  BY <1>1, <1>2, <1>10 DEF StaysOutside, Pause, Quiet
<1>11. ASSUME NEW c \in Clients, Resume(c) PROVE StaysOutside
  BY <1>1, <1>2, <1>3, <1>11 DEF StaysOutside, Resume, Quiet
<1>12. CASE Resize
  BY <1>1, <1>4, <1>12 DEF StaysOutside, Resize, Quiet
<1>13. CASE Shutdown
  <2>1. UNCHANGED <<ltasks, lmade, lactive, lqueued, lcompleted, wtask, lran, llate, lgap>>
    BY <1>13 DEF Shutdown, Quiet
  <2>2. lstop' \in BOOLEAN /\ (lstop => lstop')
    <3>1. (lstop') = TRUE \/ lstop' = lstop
      BY <1>13 DEF Shutdown
    <3>2. QED
      BY <1>1, <3>1
  <2>3. CASE UNCHANGED wpc
    BY <1>2, <2>1, <2>2, <2>3 DEF StaysOutside
  <2>4. CASE WakeAll
    BY <1>3, <2>1, <2>2, <2>4 DEF StaysOutside
  <2>5. CASE wpc' = [w \in LWorkers |-> IF wpc[w] = "joinable" THEN "gone" ELSE wpc[w]]
    <3>1. /\ wpc' \in [LWorkers -> Places]
          /\ \A w \in LWorkers : \/ wpc'[w] = wpc[w]
                                 \/ wpc[w] \in Outside /\ wpc'[w] \in Outside
      BY <1>1, <2>5 DEF Outside, Places
    <3>2. In(Leavers)' = In(Leavers)
      BY <1>1, <2>5 DEF In, Leavers
    <3>3. QED
      BY <2>1, <2>2, <3>1, <3>2 DEF StaysOutside
  <2>6. QED
    BY <1>13, <2>3, <2>4, <2>5 DEF Shutdown
<1>14. CASE Spurious
  <2>1. CASE UNCHANGED wpc
    BY <1>1, <1>2, <1>14, <2>1 DEF StaysOutside, Spurious, Quiet
  <2>2. CASE \E w \in LWorkers : Goes(w, "asleep", "top")
    BY <1>1, <1>4, <1>14, <2>2 DEF StaysOutside, Spurious, Goes, Quiet
  <2>3. QED
    BY <1>14, <2>1, <2>2 DEF Spurious
<1>15. QED
  BY <1>5, <1>6, <1>7, <1>8, <1>9, <1>10, <1>11, <1>12, <1>13, <1>14

\* A popped task goes from the queue to the worker.
LEMMA WorkerPopInv ==
    ASSUME LegacyInv, NEW w \in LWorkers, WorkerPop(w)
    PROVE  LegacyInv'
<1>1. /\ wpc[w] = "top" /\ ltasks # << >> /\ wtask' = [wtask EXCEPT ![w] = Head(ltasks)]
      /\ ltasks' = Tail(ltasks) /\ wpc' = [wpc EXCEPT ![w] = "popped"]
      /\ UNCHANGED <<lmade, lstop, lactive, lqueued, lcompleted, lran, llate, lgap>>
  BY DEF WorkerPop, Woken, Quiet
<1>2. LegacyTypes /\ ltasks \in Seq(Nat) /\ wpc \in [LWorkers -> Places]
      /\ wtask \in [LWorkers -> Nat] /\ Len(ltasks) \in Nat
  BY DEF LegacyInv, LegacyTypes
<1>3. /\ Head(ltasks) \in ToSet(ltasks) /\ Head(ltasks) \in Nat
      /\ ToSet(ltasks)' = ToSet(ltasks) \ {Head(ltasks)}
      /\ \A i, j \in 1 .. Len(ltasks') : ltasks'[i] = ltasks'[j] => i = j
  <2>1. \A i, j \in 1 .. Len(ltasks) : ltasks[i] = ltasks[j] => i = j
    BY DEF LegacyInv, TasksOnce
  <2>2. ToSet(ltasks)' = ToSet(Tail(ltasks))
    BY <1>1
  <2>3. QED
    BY <1>1, <1>2, <2>1, <2>2, QueueSets
<1>4. ltasks' \in Seq(Nat) /\ Len(ltasks') = Len(ltasks) - 1
  BY <1>1, <1>2
<1>5. wpc' \in [LWorkers -> Places] /\ wtask' \in [LWorkers -> Nat]
  BY <1>1, <1>2, <1>3 DEF Places, Holders
<1>6. /\ In(Holders)' = In(Holders) \cup {w} /\ w \notin In(Holders)
      /\ Cardinality(In(Queuers)') = Cardinality(In(Queuers)) + 1
      /\ In(Actives)' = In(Actives) /\ In(Enders)' = In(Enders)
      /\ In(Leavers)' = In(Leavers)
  <2>1. In(Holders)' = In(Holders) \cup {w} /\ w \notin In(Holders)
    BY <1>1, <1>2 DEF In, Holders
  <2>2. Cardinality(In(Queuers)') = Cardinality(In(Queuers)) + 1
    <3>1. In(Queuers)' = In(Queuers) \cup {w} /\ w \notin In(Queuers)
      BY <1>1, <1>2 DEF In, Queuers
    <3>2. QED
      BY <3>1, InNumbers
  <2>3. In(Actives)' = In(Actives) /\ In(Enders)' = In(Enders)
    BY <1>1, <1>2 DEF In, Actives, Enders
  <2>4. In(Leavers)' = In(Leavers)
    BY <1>1, <1>2 DEF In, Leavers
  <2>5. QED
    BY <2>1, <2>2, <2>3, <2>4
<1>7. LegacyTypes'
  BY <1>1, <1>4, <1>5 DEF LegacyInv, LegacyTypes
<1>8. wtask'[w] = Head(ltasks) /\ \A v \in In(Holders) : wtask'[v] = wtask[v]
  BY <1>1, <1>2, <1>6 DEF In
<1>9. TasksOnce'
  <2> DEFINE left == (1 .. lmade) \ (ToSet(ltasks) \cup lran)
  <2>1. Head(ltasks) \in 1 .. lmade /\ Head(ltasks) \notin lran /\ Head(ltasks) \notin left
    BY <1>3 DEF LegacyInv, TasksOnce
  <2>2. (1 .. lmade') \ (ToSet(ltasks)' \cup lran') = left \cup {Head(ltasks)}
    BY <1>1, <1>3, <2>1
  <2>3. /\ \A v \in In(Holders) : wtask[v] \in left
        /\ \A u, v \in In(Holders) : wtask[u] = wtask[v] => u = v
        /\ \A k \in left : \E v \in In(Holders) : wtask[v] = k
    BY DEF LegacyInv, TasksOnce
  <2>4. /\ ToSet(ltasks)' \subseteq 1 .. lmade' /\ lran' \subseteq 1 .. lmade'
        /\ ToSet(ltasks)' \cap lran' = {}
    BY <1>1, <1>3 DEF LegacyInv, TasksOnce
  <2> HIDE DEF left
  <2>5. \A v \in In(Holders)' : wtask'[v] \in left \cup {Head(ltasks)}
    BY <1>6, <1>8, <2>3
  <2>6. \A u, v \in In(Holders)' : wtask'[u] = wtask'[v] => u = v
    BY <1>6, <1>8, <2>1, <2>3
  <2>7. \A k \in left \cup {Head(ltasks)} : \E v \in In(Holders)' : wtask'[v] = k
    BY <1>6, <1>8, <2>3
  <2>8. QED
    BY <1>3, <2>2, <2>4, <2>5, <2>6, <2>7 DEF TasksOnce
<1>10. CountersFollow'
  <2>1. Cardinality(In(Queuers)) \in Nat
    BY InNumbers
  <2>2. lqueued' = Len(ltasks') + Cardinality(In(Queuers)')
    BY <1>1, <1>2, <1>4, <1>6, <2>1 DEF LegacyInv, CountersFollow
  <2>3. QED
    BY <1>1, <1>6, <2>2 DEF LegacyInv, CountersFollow
<1>11. LeftLate' /\ GapCounted'
  BY <1>1, <1>3, <1>6 DEF LegacyInv, LeftLate, GapCounted
<1>12. QED
  BY <1>7, <1>9, <1>10, <1>11 DEF LegacyInv

\* What a step inside WorkerLoop's body leaves alone.
LEMMA WorkerRunFrame ==
    ASSUME LegacyInv, NEW w \in LWorkers, WorkerRun(w),
           NEW from \in Places, NEW to \in Places, Goes(w, from, to),
           from \notin Leavers, to \notin Leavers,
           lactive' \in Int, lqueued' \in Int, lcompleted' \in Int,
           wtask' \in [LWorkers -> Nat]
    PROVE  LegacyTypes' /\ LeftLate' /\ GapCounted'
<1>1. /\ wpc[w] = from /\ wpc' = [wpc EXCEPT ![w] = to]
      /\ UNCHANGED <<ltasks, lmade, lstop, llate, lgap>>
  BY DEF WorkerRun, Goes
<1>2. LegacyTypes /\ wpc' \in [LWorkers -> Places]
  BY <1>1 DEF LegacyInv, LegacyTypes
<1>3. In(Leavers)' = In(Leavers)
  BY <1>1, <1>2 DEF In, LegacyInv, LegacyTypes, Leavers
<1>4. LegacyTypes'
  BY <1>1, <1>2 DEF LegacyTypes
<1>5. ToSet(ltasks)' = ToSet(ltasks)
  BY <1>1
<1>6. QED
  BY <1>1, <1>3, <1>4, <1>5 DEF LegacyInv, LeftLate, GapCounted

\* Counting a task in active_, out of queued_, running it, counting it in
\* completed_ and out of active_.
LEMMA WorkerRunInv ==
    ASSUME LegacyInv, NEW w \in LWorkers, WorkerRun(w)
    PROVE  LegacyInv'
<1>1. /\ LegacyTypes /\ lactive \in Int /\ lqueued \in Int /\ lcompleted \in Int
      /\ wtask \in [LWorkers -> Nat] /\ lmade \in Nat
  BY DEF LegacyInv, LegacyTypes
<1>2. UNCHANGED <<ltasks, lmade, llate, lgap>>
  BY DEF WorkerRun
<1>3. ToSet(ltasks)' = ToSet(ltasks)
  BY <1>2
<1>4. /\ Cardinality(In(Queuers)) \in Nat /\ Cardinality(In(Actives)) \in Nat
      /\ Cardinality(In(Enders)) \in Nat /\ Len(ltasks) \in Nat
  BY InNumbers DEF LegacyInv, LegacyTypes
<1>5. {"popped", "active", "running", "ran", "completed", "done"} \subseteq Places
  BY DEF Places, Outside, Holders, Actives
<1>6. CASE /\ Goes(w, "popped", "active") /\ lactive' = lactive + 1
           /\ UNCHANGED <<lqueued, lcompleted, lran, wtask>>
  <2>1. LegacyTypes' /\ LeftLate' /\ GapCounted'
    BY <1>1, <1>5, <1>6, WorkerRunFrame DEF Leavers
  <2>2. /\ In(Holders)' = In(Holders) /\ In(Queuers)' = In(Queuers)
        /\ Cardinality(In(Actives)') = Cardinality(In(Actives)) + 1
        /\ In(Enders)' = In(Enders)
    <3>1. wpc[w] = "popped" /\ wpc' = [wpc EXCEPT ![w] = "active"]
      BY <1>6 DEF Goes
    <3>2. In(Holders)' = In(Holders)
      BY <1>1, <3>1 DEF In, Holders, LegacyTypes
    <3>3. In(Queuers)' = In(Queuers)
      BY <1>1, <3>1 DEF In, Queuers, LegacyTypes
    <3>4. Cardinality(In(Actives)') = Cardinality(In(Actives)) + 1
      <4>1. In(Actives)' = In(Actives) \cup {w} /\ w \notin In(Actives)
        BY <1>1, <3>1 DEF In, Actives, LegacyTypes
      <4>2. QED
        BY <4>1, InNumbers
    <3>5. In(Enders)' = In(Enders)
      BY <1>1, <3>1 DEF In, Enders, LegacyTypes
    <3>6. QED
      BY <3>2, <3>3, <3>4, <3>5
  <2>3. TasksOnce'
    BY <1>2, <1>3, <1>6, <2>2 DEF LegacyInv, TasksOnce
  <2>4. CountersFollow'
    BY <1>1, <1>2, <1>4, <1>6, <2>2 DEF LegacyInv, CountersFollow
  <2>5. QED
    BY <2>1, <2>3, <2>4 DEF LegacyInv
<1>7. CASE /\ Goes(w, "active", "running") /\ lqueued' = lqueued - 1
           /\ UNCHANGED <<lactive, lcompleted, lran, wtask>>
  <2>1. LegacyTypes' /\ LeftLate' /\ GapCounted'
    BY <1>1, <1>5, <1>7, WorkerRunFrame DEF Leavers
  <2>2. /\ In(Holders)' = In(Holders) /\ In(Actives)' = In(Actives)
        /\ Cardinality(In(Queuers)') = Cardinality(In(Queuers)) - 1
        /\ In(Enders)' = In(Enders)
    <3>1. wpc[w] = "active" /\ wpc' = [wpc EXCEPT ![w] = "running"]
      BY <1>7 DEF Goes
    <3>2. In(Holders)' = In(Holders)
      BY <1>1, <3>1 DEF In, Holders, LegacyTypes
    <3>3. Cardinality(In(Queuers)') = Cardinality(In(Queuers)) - 1
      <4>1. In(Queuers)' = In(Queuers) \ {w} /\ w \in In(Queuers)
        BY <1>1, <3>1 DEF In, Queuers, LegacyTypes
      <4>2. QED
        BY <4>1, InNumbers
    <3>4. In(Actives)' = In(Actives)
      BY <1>1, <3>1 DEF In, Actives, LegacyTypes
    <3>5. In(Enders)' = In(Enders)
      BY <1>1, <3>1 DEF In, Enders, LegacyTypes
    <3>6. QED
      BY <3>2, <3>3, <3>4, <3>5
  <2>3. TasksOnce'
    BY <1>2, <1>3, <1>7, <2>2 DEF LegacyInv, TasksOnce
  <2>4. CountersFollow'
    BY <1>1, <1>2, <1>4, <1>7, <2>2 DEF LegacyInv, CountersFollow
  <2>5. QED
    BY <2>1, <2>3, <2>4 DEF LegacyInv
<1>8. CASE /\ Goes(w, "running", "ran") /\ lran' = lran \cup {wtask[w]}
           /\ UNCHANGED <<lactive, lqueued, lcompleted, wtask>>
  <2>1. LegacyTypes' /\ LeftLate' /\ GapCounted'
    BY <1>1, <1>5, <1>8, WorkerRunFrame DEF Leavers
  <2>2. /\ In(Holders)' = In(Holders) \ {w} /\ w \in In(Holders)
        /\ In(Queuers)' = In(Queuers) /\ In(Actives)' = In(Actives)
        /\ Cardinality(In(Enders)') = Cardinality(In(Enders)) + 1
    <3>1. wpc[w] = "running" /\ wpc' = [wpc EXCEPT ![w] = "ran"]
      BY <1>8 DEF Goes
    <3>2. In(Holders)' = In(Holders) \ {w} /\ w \in In(Holders)
      BY <1>1, <3>1 DEF In, Holders, LegacyTypes
    <3>3. In(Queuers)' = In(Queuers)
      BY <1>1, <3>1 DEF In, Queuers, LegacyTypes
    <3>4. In(Actives)' = In(Actives)
      BY <1>1, <3>1 DEF In, Actives, LegacyTypes
    <3>5. Cardinality(In(Enders)') = Cardinality(In(Enders)) + 1
      <4>1. In(Enders)' = In(Enders) \cup {w} /\ w \notin In(Enders)
        BY <1>1, <3>1 DEF In, Enders, LegacyTypes
      <4>2. QED
        BY <4>1, InNumbers
    <3>6. QED
      BY <3>2, <3>3, <3>4, <3>5
  <2> DEFINE left == (1 .. lmade) \ (ToSet(ltasks) \cup lran)
  <2>3. wtask[w] \in left
    BY <2>2 DEF LegacyInv, TasksOnce
  <2>4. (1 .. lmade') \ (ToSet(ltasks)' \cup lran') = left \ {wtask[w]}
    BY <1>2, <1>3, <1>8
  <2>5. TasksOnce'
    <3>1. /\ \A v \in In(Holders) : wtask[v] \in left
          /\ \A u, v \in In(Holders) : wtask[u] = wtask[v] => u = v
          /\ \A k \in left : \E v \in In(Holders) : wtask[v] = k
      BY DEF LegacyInv, TasksOnce
    <3>2. lran' \subseteq 1 .. lmade' /\ ToSet(ltasks)' \cap lran' = {}
      <4>1. lran \subseteq 1 .. lmade /\ ToSet(ltasks) \cap lran = {}
        BY DEF LegacyInv, TasksOnce
      <4>2. wtask[w] \in 1 .. lmade /\ wtask[w] \notin ToSet(ltasks)
        BY <2>3
      <4>3. QED
        BY <1>2, <1>3, <1>8, <4>1, <4>2
    <3>3. \A v \in In(Holders)' : wtask'[v] \in left \ {wtask[w]}
      BY <1>8, <2>2, <3>1
    <3>4. \A u, v \in In(Holders)' : wtask'[u] = wtask'[v] => u = v
      BY <1>8, <2>2, <3>1
    <3>5. \A k \in left \ {wtask[w]} : \E v \in In(Holders)' : wtask'[v] = k
      BY <1>8, <2>2, <3>1
    <3>6. QED
      BY <1>2, <1>3, <2>4, <3>2, <3>3, <3>4, <3>5 DEF LegacyInv, TasksOnce
  <2>6. Cardinality(lran') = Cardinality(lran) + 1 /\ Cardinality(lran) \in Nat
    <3>1. IsFiniteSet(lran)
      <4>1. lran \subseteq 1 .. lmade
        BY DEF LegacyInv, TasksOnce
      <4>2. IsFiniteSet(1 .. lmade)
        BY <1>1, FS_Interval
      <4>3. QED
        BY <4>1, <4>2, FS_Subset
    <3>2. wtask[w] \notin lran
      BY <2>3
    <3>3. QED
      BY <1>8, <3>1, <3>2, FS_AddElement, FS_CardinalityType
  <2>7. CountersFollow'
    BY <1>1, <1>2, <1>4, <1>8, <2>2, <2>6 DEF LegacyInv, CountersFollow
  <2>8. QED
    BY <2>1, <2>5, <2>7 DEF LegacyInv
<1>9. CASE /\ Goes(w, "ran", "completed") /\ lcompleted' = lcompleted + 1
           /\ UNCHANGED <<lactive, lqueued, lran, wtask>>
  <2>1. LegacyTypes' /\ LeftLate' /\ GapCounted'
    BY <1>1, <1>5, <1>9, WorkerRunFrame DEF Leavers
  <2>2. /\ In(Holders)' = In(Holders) /\ In(Queuers)' = In(Queuers)
        /\ In(Actives)' = In(Actives)
        /\ Cardinality(In(Enders)') = Cardinality(In(Enders)) - 1
    <3>1. wpc[w] = "ran" /\ wpc' = [wpc EXCEPT ![w] = "completed"]
      BY <1>9 DEF Goes
    <3>2. In(Holders)' = In(Holders)
      BY <1>1, <3>1 DEF In, Holders, LegacyTypes
    <3>3. In(Queuers)' = In(Queuers)
      BY <1>1, <3>1 DEF In, Queuers, LegacyTypes
    <3>4. In(Actives)' = In(Actives)
      BY <1>1, <3>1 DEF In, Actives, LegacyTypes
    <3>5. Cardinality(In(Enders)') = Cardinality(In(Enders)) - 1
      <4>1. In(Enders)' = In(Enders) \ {w} /\ w \in In(Enders)
        BY <1>1, <3>1 DEF In, Enders, LegacyTypes
      <4>2. QED
        BY <4>1, InNumbers
    <3>6. QED
      BY <3>2, <3>3, <3>4, <3>5
  <2>3. TasksOnce'
    BY <1>2, <1>3, <1>9, <2>2 DEF LegacyInv, TasksOnce
  <2>4. CountersFollow'
    BY <1>1, <1>2, <1>4, <1>9, <2>2 DEF LegacyInv, CountersFollow
  <2>5. QED
    BY <2>1, <2>3, <2>4 DEF LegacyInv
<1>10. CASE /\ Goes(w, "completed", "done") /\ lactive' = lactive - 1
            /\ wtask' = [wtask EXCEPT ![w] = 0]
            /\ UNCHANGED <<lqueued, lcompleted, lran>>
  <2>1. LegacyTypes' /\ LeftLate' /\ GapCounted'
    BY <1>1, <1>5, <1>10, WorkerRunFrame DEF Leavers
  <2>2. /\ In(Holders)' = In(Holders) /\ In(Queuers)' = In(Queuers)
        /\ Cardinality(In(Actives)') = Cardinality(In(Actives)) - 1
        /\ In(Enders)' = In(Enders)
    <3>1. wpc[w] = "completed" /\ wpc' = [wpc EXCEPT ![w] = "done"]
      BY <1>10 DEF Goes
    <3>2. In(Holders)' = In(Holders)
      BY <1>1, <3>1 DEF In, Holders, LegacyTypes
    <3>3. In(Queuers)' = In(Queuers)
      BY <1>1, <3>1 DEF In, Queuers, LegacyTypes
    <3>4. Cardinality(In(Actives)') = Cardinality(In(Actives)) - 1
      <4>1. In(Actives)' = In(Actives) \ {w} /\ w \in In(Actives)
        BY <1>1, <3>1 DEF In, Actives, LegacyTypes
      <4>2. QED
        BY <4>1, InNumbers
    <3>5. In(Enders)' = In(Enders)
      BY <1>1, <3>1 DEF In, Enders, LegacyTypes
    <3>6. QED
      BY <3>2, <3>3, <3>4, <3>5
  <2>3. \A v \in In(Holders) : wtask'[v] = wtask[v]
    BY <1>1, <1>10 DEF Goes, In, Holders
  <2>4. TasksOnce'
    BY <1>2, <1>3, <1>10, <2>2, <2>3 DEF LegacyInv, TasksOnce
  <2>5. CountersFollow'
    BY <1>1, <1>2, <1>4, <1>10, <2>2 DEF LegacyInv, CountersFollow
  <2>6. QED
    BY <2>1, <2>4, <2>5 DEF LegacyInv
<1>11. QED
  BY <1>6, <1>7, <1>8, <1>9, <1>10 DEF WorkerRun

\* A new task is the only one of its number.
LEMMA EnqueueInv ==
    ASSUME LegacyInv, NEW c \in Clients, Enqueue(c)
    PROVE  LegacyInv'
<1>1. /\ lmade' = lmade + 1 /\ ltasks' = Append(ltasks, lmade + 1) /\ lqueued' = lqueued + 1
      /\ llate' = IF lstop THEN llate \cup {lmade + 1} ELSE llate
      /\ UNCHANGED <<lstop, lactive, lcompleted, wpc, wtask, lran, lgap>>
  BY DEF Enqueue
<1>2. /\ ltasks \in Seq(Nat) /\ lmade \in Nat /\ lmade + 1 \in Nat /\ lqueued \in Int
      /\ Len(ltasks) \in Nat
  BY DEF LegacyInv, LegacyTypes
<1>3. lmade + 1 \notin 1 .. lmade /\ 1 .. (lmade + 1) = (1 .. lmade) \cup {lmade + 1}
  BY <1>2
<1>4. /\ ToSet(ltasks)' = ToSet(ltasks) \cup {lmade + 1}
      /\ \A i, j \in 1 .. Len(ltasks') : ltasks'[i] = ltasks'[j] => i = j
  <2>1. \A i, j \in 1 .. Len(ltasks) : ltasks[i] = ltasks[j] => i = j
    BY DEF LegacyInv, TasksOnce
  <2>2. lmade + 1 \notin ToSet(ltasks)
    BY <1>3 DEF LegacyInv, TasksOnce
  <2>3. ToSet(ltasks)' = ToSet(Append(ltasks, lmade + 1))
    BY <1>1
  <2>4. QED
    BY <1>1, <1>2, <2>1, <2>2, <2>3, QueueSets
<1>5. ltasks' \in Seq(Nat) /\ Len(ltasks') = Len(ltasks) + 1
  BY <1>1, <1>2
<1>6. LegacyTypes'
  BY <1>1, <1>2, <1>5 DEF LegacyInv, LegacyTypes
<1>7. /\ In(Holders)' = In(Holders) /\ In(Queuers)' = In(Queuers)
      /\ In(Actives)' = In(Actives) /\ In(Enders)' = In(Enders)
      /\ In(Leavers)' = In(Leavers)
  BY <1>1 DEF In
<1>8. TasksOnce'
  <2>1. /\ ToSet(ltasks) \subseteq 1 .. lmade /\ lran \subseteq 1 .. lmade
        /\ ToSet(ltasks) \cap lran = {}
    BY DEF LegacyInv, TasksOnce
  <2>2. 1 .. lmade' = (1 .. lmade) \cup {lmade + 1}
    BY <1>1, <1>3
  <2>3. (1 .. lmade') \ (ToSet(ltasks)' \cup lran')
            = (1 .. lmade) \ (ToSet(ltasks) \cup lran)
    BY <1>1, <1>3, <1>4, <2>1, <2>2
  <2>4. /\ ToSet(ltasks)' \subseteq 1 .. lmade' /\ lran' \subseteq 1 .. lmade'
        /\ ToSet(ltasks)' \cap lran' = {}
    BY <1>1, <1>3, <1>4, <2>1, <2>2
  <2>5. QED
    BY <1>1, <1>4, <1>7, <2>3, <2>4 DEF LegacyInv, TasksOnce
<1>9. CountersFollow'
  <2>1. Cardinality(In(Queuers)) \in Nat
    BY InNumbers
  <2>2. QED
    BY <1>1, <1>2, <1>5, <1>7, <2>1 DEF LegacyInv, CountersFollow
<1>10. LeftLate' /\ GapCounted'
  BY <1>1, <1>4, <1>7 DEF LegacyInv, LeftLate, GapCounted
<1>11. QED
  BY <1>6, <1>8, <1>9, <1>10 DEF LegacyInv

\* With no queue and active_ at 0, a task that has not ended is with a worker
\* that has popped it and not counted it yet.
LEMMA WaitAllReturnInv ==
    ASSUME LegacyInv, NEW c \in Clients, WaitAllReturn(c)
    PROVE  LegacyInv'
<1>1. /\ ltasks = << >> /\ lactive = 0
      /\ lgap' = [running |-> (1 .. lmade) \ lran,
                  uncounted |-> {wtask[w] : w \in {v \in LWorkers : wpc[v] = "popped"}}]
      /\ UNCHANGED <<ltasks, lmade, lstop, lactive, lqueued, lcompleted, wpc, wtask, lran,
                     llate>>
  BY DEF WaitAllReturn
<1>2. In(Actives) = {}
  <2>1. IsFiniteSet(In(Actives))
    BY LegacyAssumption, FS_Subset DEF In
  <2>2. Cardinality(In(Actives)) = 0
    BY <1>1 DEF LegacyInv, CountersFollow
  <2>3. QED
    BY <2>1, <2>2, FS_EmptySet
<1>3. \A w \in In(Holders) : w \in LWorkers /\ wpc[w] = "popped"
  BY <1>2 DEF In, Holders, Actives
<1>4. ToSet(ltasks) = {}
  BY <1>1 DEF ToSet
<1>5. \A k \in (1 .. lmade) \ lran : \E w \in In(Holders) : wtask[w] = k
  BY <1>4 DEF LegacyInv, TasksOnce
<1>6. GapCounted'
  BY <1>1, <1>3, <1>5 DEF GapCounted
<1>7. /\ In(Holders)' = In(Holders) /\ In(Queuers)' = In(Queuers)
      /\ In(Actives)' = In(Actives) /\ In(Enders)' = In(Enders)
      /\ In(Leavers)' = In(Leavers) /\ ToSet(ltasks)' = ToSet(ltasks)
  BY <1>1 DEF In
<1>8. LegacyTypes'
  BY <1>1 DEF LegacyInv, LegacyTypes
<1>9. TasksOnce'
  BY <1>1, <1>7 DEF LegacyInv, TasksOnce
<1>10. CountersFollow' /\ LeftLate'
  BY <1>1, <1>7 DEF LegacyInv, CountersFollow, LeftLate
<1>11. QED
  BY <1>6, <1>8, <1>9, <1>10 DEF LegacyInv

\* When another part of MCWork moves, or none, the pool stays as it is.
LEMMA LegacyInvStep ==
    ASSUME part = "legacy pool" => LegacyInv, [Next]_vars
    PROVE  (part = "legacy pool" => LegacyInv)'
<1>1. part' = part
  BY DEF Next, RestOf, vars
<1>2. SUFFICES ASSUME part = "legacy pool" PROVE LegacyInv'
  BY <1>1
<1>3. LegacyNext \/ UNCHANGED legacyVars
  BY <1>2 DEF Next, RestOf, vars
<1>4. LegacyInv /\ LegacyTypes
  BY <1>2 DEF LegacyInv
<1>5. CASE UNCHANGED legacyVars
  <2>1. StaysOutside
    BY <1>4, <1>5 DEF StaysOutside, legacyVars, LegacyTypes, In
  <2>2. QED
    BY <1>4, <2>1, OutsideInv
<1>6. CASE LegacyNext
  BY <1>4, <1>6, OutsideInv, MovesOutside, WorkerPopInv, WorkerRunInv, EnqueueInv,
     WaitAllReturnInv DEF LegacyNext
<1>7. QED
  BY <1>3, <1>5, <1>6

\* LegacyThreadPool, with any number of workers and clients: WaitAll leaves
\* behind only tasks that were popped and not yet counted in active_, no task is
\* lost or run twice, the counters say where the tasks are, and after a Shutdown
\* only tasks enqueued behind it remain.
THEOREM LegacyPoolKept == Spec => []LegacyKept
<1>1. Init => (part = "legacy pool" => LegacyInv)
  BY LegacyInvInit DEF Init
<1>2. (part = "legacy pool" => LegacyInv) => LegacyKept
  BY LegacyInvSound DEF LegacyKept
<1>3. QED
  BY <1>1, <1>2, LegacyInvStep, PTL DEF Spec

-----------------------------------------------------------------------------
(* TaskGraphs.  An edge is counted, not only looked up: remove_task erases  *)
(* every copy from both maps, so what erase leaves is first described      *)
(* position by position.                                                   *)

\* Finitely many positions.
Positions(s) == s \subseteq Int /\ IsFiniteSet(s)

\* Some of them are such positions too.
LEMMA PositionsIn ==
    ASSUME NEW s, Positions(s), NEW t, t \subseteq s
    PROVE  Positions(t)
BY FS_Subset DEF Positions

\* The last of them.
LEMMA MaxIn ==
    ASSUME NEW s, Positions(s), s # {}
    PROVE  Max(s) \in s
<1> DEFINE HasMax(W) == \E x \in W : \A y \in W : x >= y
           B == {W \in SUBSET s : W # {} /\ ~HasMax(W)}
<1>1. B = {}
  <2> SUFFICES ASSUME B # {} PROVE FALSE
    OBVIOUS
  <2>1. PICK T \in B : \A W \in B : W \subseteq T => W = T
    <3>1. B \in SUBSET (SUBSET s)
      OBVIOUS
    <3>2. IsFiniteSet(s)
      BY DEF Positions
    <3> HIDE DEF B
    <3>3. QED
      BY <3>1, <3>2, SubsetMin
  <2>2. PICK x \in T : TRUE
    BY <2>1
  <2>3. T \ {x} \notin B
    BY <2>1, <2>2
  <2>4. CASE T \ {x} = {}
    <3>1. T = {x} /\ x \in Int
      BY <2>1, <2>2, <2>4 DEF Positions
    <3>2. \A y \in T : x >= y
      BY <3>1
    <3>3. QED
      BY <2>1, <2>2, <3>2
  <2>5. CASE T \ {x} # {}
    <3>1. PICK m \in T \ {x} : \A y \in T \ {x} : m >= y
      BY <2>1, <2>3, <2>5
    <3>2. x \in Int /\ m \in Int /\ \A y \in T : y \in Int
      BY <2>1, <3>1 DEF Positions
    <3>3. IF x >= m THEN \A y \in T : x >= y ELSE \A y \in T : m >= y
      BY <3>1, <3>2
    <3>4. QED
      BY <2>1, <2>2, <3>1, <3>3
  <2>6. QED
    BY <2>4, <2>5
<1>2. HasMax(s)
  BY <1>1
<1>3. QED
  BY <1>2 DEF Max

\* g gives what is left of seq without id, at each set of positions.
KeptAt(g, seq, id, s) ==
    IF s = {} THEN << >>
    ELSE IF seq[Max(s)] = id THEN g[s \ {Max(s)}]
    ELSE Append(g[s \ {Max(s)}], seq[Max(s)])

Keeps(g, seq, id, S) == g = [s \in SUBSET S |-> KeptAt(g, seq, id, s)]

\* Erased is such a function at all the positions of the sequence.
LEMMA ErasedIs ==
    ASSUME NEW seq, NEW id
    PROVE  Erased(seq, id) = (CHOOSE g : Keeps(g, seq, id, DOMAIN seq))[DOMAIN seq]
BY DEF Erased, Keeps, KeptAt, FoldLeft, MapThenFoldSet

\* What Keeps says at a set.
LEMMA KeepsAt ==
    ASSUME NEW seq, NEW id, NEW S, Positions(S), NEW g,
           Keeps(g, seq, id, S), NEW s \in SUBSET S
    PROVE  /\ g[s] = KeptAt(g, seq, id, s)
           /\ s # {} => Max(s) \in s /\ s \ {Max(s)} \in SUBSET S
<1>1. g[s] = KeptAt(g, seq, id, s)
  BY DEF Keeps
<1>2. s # {} => Max(s) \in s
  BY MaxIn, PositionsIn
<1>3. QED
  BY <1>1, <1>2

\* Two such functions agree where both are defined.
LEMMA KeepsAgree ==
    ASSUME NEW seq, NEW id, NEW S, NEW U, Positions(S),
           Positions(U), NEW g, NEW k, Keeps(g, seq, id, S), Keeps(k, seq, id, U),
           NEW V, V \subseteq S, V \subseteq U
    PROVE  g[V] = k[V]
<1> DEFINE B == {W \in SUBSET V : g[W] # k[W]}
<1> SUFFICES ASSUME B # {} PROVE FALSE
  OBVIOUS
<1>1. PICK T \in B : \A W \in B : W \subseteq T => W = T
  <2>1. B \in SUBSET (SUBSET V)
    OBVIOUS
  <2>2. IsFiniteSet(V)
    BY PositionsIn DEF Positions
  <2> HIDE DEF B
  <2>3. QED
    BY <2>1, <2>2, SubsetMin
<1>2. T \in SUBSET S /\ T \in SUBSET U /\ T \in SUBSET V /\ g[T] # k[T]
  BY <1>1
<1>3. g[T] = KeptAt(g, seq, id, T) /\ k[T] = KeptAt(k, seq, id, T)
  BY <1>2 DEF Keeps
<1>4. T # {} /\ Max(T) \in T
  <2>1. T # {}
    BY <1>2, <1>3 DEF KeptAt
  <2>2. QED
    BY <1>2, <2>1, MaxIn, PositionsIn
<1>5. g[T \ {Max(T)}] = k[T \ {Max(T)}]
  BY <1>1, <1>2, <1>4
<1>6. QED
  BY <1>2, <1>3, <1>4, <1>5 DEF KeptAt

\* There is one.
LEMMA KeepsExists ==
    ASSUME NEW seq, NEW id, NEW S, Positions(S)
    PROVE  \E g : Keeps(g, seq, id, S)
<1> DEFINE B == {W \in SUBSET S : ~ \E g : Keeps(g, seq, id, W)}
<1> SUFFICES ASSUME B # {} PROVE FALSE
  OBVIOUS
<1>1. PICK T \in B : \A W \in B : W \subseteq T => W = T
  <2>1. B \in SUBSET (SUBSET S)
    OBVIOUS
  <2>2. IsFiniteSet(S)
    BY PositionsIn DEF Positions
  <2> HIDE DEF B
  <2>3. QED
    BY <2>1, <2>2, SubsetMin
<1>2. \A W \in SUBSET T : W # T => \E g : Keeps(g, seq, id, W)
  BY <1>1
<1>3. Positions(T)
  BY <1>1, PositionsIn
<1> DEFINE piece(W) == CHOOSE g : Keeps(g, seq, id, W)
           d(s) == KeptAt([W \in SUBSET T |-> piece(W)[W]], seq, id, s)
           G == [s \in SUBSET T |-> d(s)]
<1>4. \A W \in SUBSET T : W # T => Keeps(piece(W), seq, id, W)
  BY <1>2
<1> HIDE DEF piece
<1>5. ASSUME NEW s \in SUBSET T, s # {}
      PROVE  Max(s) \in s /\ s \ {Max(s)} \in SUBSET T /\ s \ {Max(s)} # T
  <2>1. Positions(s)
    BY <1>3, PositionsIn
  <2>2. Max(s) \in s
    BY <1>5, <2>1, MaxIn
  <2>3. QED
    BY <2>2
<1>6. ASSUME NEW W \in SUBSET T, W # T
      PROVE  d(W) = piece(W)[W]
  <2>1. Keeps(piece(W), seq, id, W) /\ Positions(W)
    BY <1>3, <1>4, <1>6, PositionsIn
  <2>2. piece(W)[W] = KeptAt(piece(W), seq, id, W)
    BY <2>1 DEF Keeps
  <2>3. CASE W = {}
    BY <2>2, <2>3 DEF KeptAt
  <2>4. CASE W # {}
    <3> DEFINE V == W \ {Max(W)}
    <3>1. V \in SUBSET T /\ V # T /\ V \subseteq W /\ Positions(V)
      BY <1>5, <2>1, <2>4, PositionsIn
    <3>2. Keeps(piece(V), seq, id, V)
      BY <1>4, <3>1
    <3> HIDE DEF V
    <3>3. piece(V)[V] = piece(W)[V]
      <4>1. V \subseteq V
        OBVIOUS
      <4>2. QED
        BY <2>1, <3>1, <3>2, <4>1, KeepsAgree
    <3>4. [X \in SUBSET T |-> piece(X)[X]][V] = piece(V)[V]
      BY <3>1
    <3>5. QED
      BY <2>2, <2>4, <3>3, <3>4 DEF KeptAt, V
  <2>5. QED
    BY <2>3, <2>4
<1>7. ASSUME NEW s \in SUBSET T
      PROVE  d(s) = KeptAt(G, seq, id, s)
  <2>1. CASE s = {}
    BY <2>1 DEF KeptAt
  <2>2. CASE s # {}
    <3> DEFINE V == s \ {Max(s)}
    <3>1. V \in SUBSET T /\ V # T
      BY <1>5, <2>2
    <3>2. [X \in SUBSET T |-> piece(X)[X]][V] = piece(V)[V]
      BY <3>1
    <3>3. d(V) = piece(V)[V]
      BY <1>6, <3>1
    <3>4. G[V] = [X \in SUBSET T |-> piece(X)[X]][V]
      <4> HIDE DEF d, V
      <4>1. G[V] = d(V)
        BY <3>1
      <4>2. QED
        BY <3>2, <3>3, <4>1
    <3> HIDE DEF G
    <3>5. QED
      BY <2>2, <3>4 DEF KeptAt
  <2>3. QED
    BY <2>1, <2>2
<1>8. Keeps(G, seq, id, T)
  <2> HIDE DEF d
  <2>1. G = [s \in SUBSET T |-> d(s)]
    OBVIOUS
  <2> HIDE DEF G
  <2>2. [s \in SUBSET T |-> d(s)] = [s \in SUBSET T |-> KeptAt(G, seq, id, s)]
    BY <1>7 DEF G
  <2>3. QED
    BY <2>1, <2>2 DEF Keeps
<1>9. QED
  BY <1>1, <1>8

\* Counting in a sequence that is one longer.
LEMMA CountAppend ==
    ASSUME NEW S, NEW s \in Seq(S), NEW x \in S, NEW y
    PROVE  /\ Count(s, y) \in Nat
           /\ Count(Append(s, x), y) = Count(s, y) + (IF x = y THEN 1 ELSE 0)
<1> DEFINE n == Len(s)
           P == {i \in 1 .. n : s[i] = y}
           Q == {i \in 1 .. (n + 1) : Append(s, x)[i] = y}
<1>1. n \in Nat /\ DOMAIN s = 1 .. n /\ DOMAIN Append(s, x) = 1 .. (n + 1)
  OBVIOUS
<1>2. Count(s, y) = Cardinality(P) /\ Count(Append(s, x), y) = Cardinality(Q)
  BY <1>1 DEF Count
<1>3. Append(s, x)[n + 1] = x /\ \A i \in 1 .. n : Append(s, x)[i] = s[i]
  OBVIOUS
<1>4. IsFiniteSet(P) /\ Cardinality(P) \in Nat
  <2>1. IsFiniteSet(1 .. n)
    BY <1>1, FS_Interval
  <2>2. QED
    BY <2>1, FS_Subset, FS_CardinalityType
<1>5. n + 1 \notin P /\ Q = (IF x = y THEN P \cup {n + 1} ELSE P)
  BY <1>1, <1>3
<1> HIDE DEF P, Q, n
<1>6. Cardinality(P \cup {n + 1}) = Cardinality(P) + 1
  BY <1>4, <1>5, FS_AddElement
<1>7. QED
  BY <1>2, <1>4, <1>5, <1>6

\* Nothing to count.
LEMMA CountEmpty ==
    ASSUME NEW y
    PROVE  Count(<< >>, y) = 0
<1>1. {i \in DOMAIN << >> : << >>[i] = y} = {}
  OBVIOUS
<1>2. QED
  BY <1>1, FS_EmptySet DEF Count

\* What is in a sequence counts.
LEMMA CountPositive ==
    ASSUME NEW S, NEW s \in Seq(S), NEW y
    PROVE  Count(s, y) > 0 <=> y \in ToSet(s)
<1> DEFINE P == {i \in DOMAIN s : s[i] = y}
<1>1. IsFiniteSet(P)
  <2>1. Len(s) \in Nat /\ DOMAIN s = 1 .. Len(s)
    OBVIOUS
  <2>2. IsFiniteSet(1 .. Len(s))
    BY <2>1, FS_Interval
  <2>3. QED
    BY <2>1, <2>2, FS_Subset
<1>2. Cardinality(P) \in Nat /\ (Cardinality(P) = 0 <=> P = {})
  BY <1>1, FS_CardinalityType, FS_EmptySet
<1>3. P # {} <=> y \in ToSet(s)
  BY DEF ToSet
<1>4. Count(s, y) = Cardinality(P)
  BY DEF Count
<1> HIDE DEF P
<1>5. QED
  BY <1>2, <1>3, <1>4

\* How often x is at the positions V of q.
CountIn(q, V, x) == Cardinality({i \in V : q[i] = x})

\* What is kept, counted at each set of positions.
LEMMA KeepsCount ==
    ASSUME NEW S, NEW q \in Seq(S), NEW id, NEW g, Keeps(g, q, id, DOMAIN q), Positions(DOMAIN q),
           NEW V \in SUBSET (DOMAIN q), NEW x
    PROVE  /\ g[V] \in Seq(S)
           /\ Count(g[V], x) = (IF x = id THEN 0 ELSE CountIn(q, V, x))
<1> DEFINE C(W) == CountIn(q, W, x)
           OK(W) == g[W] \in Seq(S) /\ Count(g[W], x) = (IF x = id THEN 0 ELSE C(W))
           B == {W \in SUBSET (DOMAIN q) : ~OK(W)}
<1> SUFFICES ASSUME B # {} PROVE FALSE
  OBVIOUS
<1>1. PICK T \in B : \A W \in B : W \subseteq T => W = T
  <2>1. B \in SUBSET (SUBSET (DOMAIN q))
    OBVIOUS
  <2>2. IsFiniteSet(DOMAIN q)
    BY DEF Positions
  <2> HIDE DEF B
  <2>3. QED
    BY <2>1, <2>2, SubsetMin
<1>2. T \in SUBSET (DOMAIN q) /\ ~OK(T) /\ Positions(T)
  BY <1>1, PositionsIn
<1>3. g[T] = KeptAt(g, q, id, T)
  BY <1>2 DEF Keeps
<1>4. CASE T = {}
  <2>1. g[T] = << >> /\ Count(g[T], x) = 0
    BY <1>3, <1>4, CountEmpty DEF KeptAt
  <2>2. {i \in T : q[i] = x} = {}
    BY <1>4
  <2>3. C(T) = 0
    BY <2>2, FS_EmptySet DEF CountIn
  <2>4. QED
    BY <1>2, <2>1, <2>3
<1>5. CASE T # {}
  <2>1. PICK m : m = Max(T)
    OBVIOUS
  <2>2. m \in T /\ m \in DOMAIN q /\ q[m] \in S
    <3>1. m \in T
      BY <1>2, <1>5, <2>1, MaxIn
    <3>2. QED
      BY <1>2, <3>1
  <2> DEFINE W == T \ {m}
  <2>3. OK(W)
    <3>1. W \notin B /\ W \in SUBSET (DOMAIN q)
      BY <1>1, <1>2, <2>2
    <3> HIDE DEF OK
    <3>2. QED
      BY <3>1
  <2>4. g[T] = IF q[m] = id THEN g[W] ELSE Append(g[W], q[m])
    BY <1>3, <1>5, <2>1 DEF KeptAt
  <2>5. g[T] \in Seq(S)
    BY <2>2, <2>3, <2>4
  <2>6. C(W) \in Nat /\ C(T) = C(W) + (IF q[m] = x THEN 1 ELSE 0)
    <3> DEFINE P == {i \in W : q[i] = x}
               Q == {i \in T : q[i] = x}
    <3>1. Q = (IF q[m] = x THEN P \cup {m} ELSE P) /\ m \notin P
      BY <2>2
    <3>2. IsFiniteSet(P) /\ Cardinality(P) \in Nat
      <4>1. IsFiniteSet(T) /\ P \subseteq T
        BY <1>2 DEF Positions
      <4>2. QED
        BY <4>1, FS_Subset, FS_CardinalityType
    <3>3. Cardinality(P \cup {m}) = Cardinality(P) + 1
      BY <3>1, <3>2, FS_AddElement
    <3>4. C(W) = Cardinality(P) /\ C(T) = Cardinality(Q)
      BY DEF CountIn
    <3> HIDE DEF P, Q, C
    <3>5. QED
      BY <3>1, <3>2, <3>3, <3>4
  <2>7. Count(g[T], x) = (IF x = id THEN 0 ELSE C(T))
    <3> HIDE DEF C, W
    <3>1. Count(Append(g[W], q[m]), x) = Count(g[W], x) + (IF q[m] = x THEN 1 ELSE 0)
      BY <2>2, <2>3, CountAppend
    <3>2. CASE q[m] = id
      BY <2>3, <2>4, <2>6, <3>2
    <3>3. CASE q[m] # id
      BY <2>3, <2>4, <2>6, <3>1, <3>3
    <3>4. QED
      BY <3>2, <3>3
  <2>8. QED
    BY <1>2, <2>5, <2>7
<1>6. QED
  BY <1>4, <1>5

\* remove_task's erase: the id is gone, the others are as often there as before.
LEMMA ErasedCount ==
    ASSUME NEW S, NEW q \in Seq(S), NEW id, NEW x
    PROVE  /\ Erased(q, id) \in Seq(S)
           /\ Count(Erased(q, id), x) = (IF x = id THEN 0 ELSE Count(q, x))
<1>1. Positions(DOMAIN q)
  <2>1. Len(q) \in Nat /\ DOMAIN q = 1 .. Len(q)
    OBVIOUS
  <2>2. QED
    BY <2>1, FS_Interval DEF Positions
<1> DEFINE g == CHOOSE h : Keeps(h, q, id, DOMAIN q)
<1>2. Keeps(g, q, id, DOMAIN q)
  BY <1>1, KeepsExists
<1>3. Erased(q, id) = g[DOMAIN q]
  BY ErasedIs
<1> HIDE DEF g
<1>4. PICK V \in SUBSET (DOMAIN q) : V = DOMAIN q
  OBVIOUS
<1>5. g[V] \in Seq(S)
  BY <1>1, <1>2, KeepsCount
<1>6. Count(g[V], x) = (IF x = id THEN 0 ELSE CountIn(q, V, x))
  BY <1>1, <1>2, KeepsCount
<1>7. Count(q, x) = CountIn(q, V, x)
  BY <1>4 DEF Count, CountIn
<1>8. QED
  BY <1>3, <1>4, <1>5, <1>6, <1>7

-----------------------------------------------------------------------------
\* A map from ids to ids.
EdgeMap == [TaskIds -> Seq(TaskIds)]

\* Counted, the two maps are one, and in a build with asserts an edge has its tasks.
Mirrored(E, R) == \A f, t \in TaskIds : Count(E[f], t) = Count(R[t], f)

Anchored(E, ids) == \A f, t \in TaskIds : Count(E[f], t) > 0 => f \in ids /\ t \in ids

EdgeOK(checked, ids, E, R) ==
    E \in EdgeMap /\ R \in EdgeMap /\ Mirrored(E, R) /\ (checked => Anchored(E, ids))

\* Where there is an edge there is an entry, and in such a build an entry has its
\* task.
KeysOK(checked, ids, entries, E) ==
    /\ \A f, t \in TaskIds : Count(E[f], t) > 0 => f \in entries
    /\ checked => entries \subseteq ids

EdgeInv == EdgeOK(asserts, tasks, edges, revEdges) /\ KeysOK(asserts, tasks, keys, edges)

\* The invariant says what the property says.
LEMMA EdgeInvSound ==
    ASSUME EdgeInv
    PROVE  EdgesAgree
<1>1. ASSUME asserts, Dangling PROVE FALSE
  <2>1. PICK f \in TaskIds : edges[f] # << >> /\ ({f} \cup ToSet(edges[f])) \ tasks # {}
    BY <1>1 DEF Dangling
  <2>2. edges[f] \in Seq(TaskIds)
    BY DEF EdgeInv, EdgeOK, EdgeMap
  <2>3. edges[f][1] \in ToSet(edges[f]) /\ ToSet(edges[f]) \subseteq TaskIds
    BY <2>1, <2>2 DEF ToSet
  <2>4. \A t \in ToSet(edges[f]) : f \in tasks /\ t \in tasks
    BY <1>1, <2>2, <2>3, CountPositive DEF EdgeInv, EdgeOK, Anchored
  <2>5. QED
    BY <2>1, <2>3, <2>4
<1>2. QED
  BY <1>1 DEF EdgesAgree, EdgeInv, EdgeOK, KeysOK, Mirrored

\* A graph without edges.
LEMMA NoEdgesOK ==
    ASSUME NEW checked, NEW ids
    PROVE  EdgeOK(checked, ids, NoEdges, NoEdges) /\ KeysOK(checked, ids, {}, NoEdges)
<1>1. NoEdges \in EdgeMap /\ \A f, t \in TaskIds : Count(NoEdges[f], t) = 0
  BY CountEmpty DEF NoEdges, EdgeMap
<1>2. QED
  BY <1>1 DEF EdgeOK, KeysOK, Mirrored, Anchored

\* erase in every entry of a map.
LEMMA ErasedMap ==
    ASSUME NEW E \in EdgeMap, NEW id \in TaskIds, NEW F,
           F = [f \in TaskIds |-> IF f = id THEN << >> ELSE Erased(E[f], id)]
    PROVE  /\ F \in EdgeMap
           /\ \A f, t \in TaskIds :
                Count(F[f], t) = (IF f = id \/ t = id THEN 0 ELSE Count(E[f], t))
<1>1. ASSUME NEW f \in TaskIds
      PROVE  F[f] \in Seq(TaskIds)
  <2>1. E[f] \in Seq(TaskIds)
    BY DEF EdgeMap
  <2>2. Erased(E[f], id) \in Seq(TaskIds)
    BY <2>1, ErasedCount
  <2>3. F[f] = IF f = id THEN << >> ELSE Erased(E[f], id)
    OBVIOUS
  <2>4. QED
    BY <2>2, <2>3
<1>2. ASSUME NEW f \in TaskIds, NEW t \in TaskIds
      PROVE  Count(F[f], t) = (IF f = id \/ t = id THEN 0 ELSE Count(E[f], t))
  <2>1. E[f] \in Seq(TaskIds)
    BY DEF EdgeMap
  <2>2. Count(Erased(E[f], id), t) = (IF t = id THEN 0 ELSE Count(E[f], t))
    BY <2>1, ErasedCount
  <2>3. F[f] = IF f = id THEN << >> ELSE Erased(E[f], id)
    OBVIOUS
  <2>4. QED
    BY <2>2, <2>3, CountEmpty
<1>3. F \in EdgeMap
  BY <1>1 DEF EdgeMap
<1>4. QED
  BY <1>2, <1>3

\* remove_task.
LEMMA RemoveTaskInv ==
    ASSUME EdgeInv, NEW id \in TaskIds, RemoveTask(id)
    PROVE  EdgeInv'
<1>1. PICK E, R, F, T, ids, out, had, has, checked :
        /\ E = edges /\ R = revEdges /\ F = edges' /\ T = revEdges'
        /\ ids = tasks /\ out = tasks' /\ checked = asserts
        /\ had = keys /\ has = keys'
  OBVIOUS
<1>2. EdgeOK(checked, ids, E, R) /\ KeysOK(checked, ids, had, E) /\ E \in EdgeMap /\ R \in EdgeMap
  BY <1>1 DEF EdgeInv, EdgeOK
<1>3. /\ out = ids \ {id} /\ has = had \ {id} /\ asserts' = checked
      /\ F = [f \in TaskIds |-> IF f = id THEN << >> ELSE Erased(E[f], id)]
      /\ T = [t \in TaskIds |-> IF t = id THEN << >> ELSE Erased(R[t], id)]
  BY <1>1 DEF RemoveTask
<1>4. /\ F \in EdgeMap
      /\ \A f, t \in TaskIds :
           Count(F[f], t) = (IF f = id \/ t = id THEN 0 ELSE Count(E[f], t))
  BY <1>2, <1>3, ErasedMap
<1>5. /\ T \in EdgeMap
      /\ \A f, t \in TaskIds :
           Count(T[f], t) = (IF f = id \/ t = id THEN 0 ELSE Count(R[f], t))
  BY <1>2, <1>3, ErasedMap
<1>6. EdgeOK(checked, out, F, T)
  BY <1>2, <1>3, <1>4, <1>5 DEF EdgeOK, Mirrored, Anchored
<1>7. KeysOK(checked, out, has, F)
  BY <1>2, <1>3, <1>4 DEF KeysOK
<1>8. QED
  BY <1>1, <1>3, <1>6, <1>7 DEF EdgeInv

\* F is E with one edge more.
OneMore(E, F, a, b) ==
    F \in EdgeMap /\ F[a] = Append(E[a], b) /\ \A f \in TaskIds : f # a => F[f] = E[f]

\* The edges of one map after the addition.
LEMMA EdgeCounted ==
    ASSUME NEW E \in EdgeMap, NEW a \in TaskIds, NEW b \in TaskIds, NEW F, OneMore(E, F, a, b),
           NEW f \in TaskIds, NEW t \in TaskIds
    PROVE  /\ Count(E[f], t) \in Nat
           /\ Count(F[f], t) = Count(E[f], t) + (IF f = a /\ t = b THEN 1 ELSE 0)
<1>1. E[f] \in Seq(TaskIds)
  BY DEF EdgeMap
<1>2. /\ Count(E[f], t) \in Nat
      /\ Count(Append(E[f], b), t) = Count(E[f], t) + (IF b = t THEN 1 ELSE 0)
  BY <1>1, CountAppend
<1>3. F[f] = IF f = a THEN Append(E[f], b) ELSE E[f]
  BY DEF OneMore
<1>4. Count(F[f], t) = Count(E[f], t) + (IF f = a /\ t = b THEN 1 ELSE 0)
  <2>1. CASE f = a
    BY <1>2, <1>3, <2>1
  <2>2. CASE f # a
    BY <1>2, <1>3, <2>2
  <2>3. QED
    BY <2>1, <2>2
<1>5. QED
  BY <1>2, <1>4

\* Adding an edge to both maps.
LEMMA EdgeAdded ==
    ASSUME NEW checked, NEW ids, NEW E, NEW R, EdgeOK(checked, ids, E, R),
           NEW a \in TaskIds, NEW b \in TaskIds, checked => a \in ids /\ b \in ids,
           NEW F, NEW T, OneMore(E, F, a, b), OneMore(R, T, b, a)
    PROVE  EdgeOK(checked, ids, F, T)
<1>1. E \in EdgeMap /\ R \in EdgeMap /\ Mirrored(E, R) /\ (checked => Anchored(E, ids))
  BY DEF EdgeOK
<1>2. ASSUME NEW f \in TaskIds, NEW t \in TaskIds
      PROVE  /\ Count(E[f], t) \in Nat
             /\ Count(F[f], t) = Count(E[f], t) + (IF f = a /\ t = b THEN 1 ELSE 0)
  <2>1. Count(E[f], t) \in Nat
    BY <1>1, <1>2, EdgeCounted
  <2>2. Count(F[f], t) = Count(E[f], t) + (IF f = a /\ t = b THEN 1 ELSE 0)
    BY <1>1, <1>2, EdgeCounted
  <2>3. QED
    BY <2>1, <2>2
<1>3. ASSUME NEW f \in TaskIds, NEW t \in TaskIds
      PROVE  Count(T[t], f) = Count(R[t], f) + (IF t = b /\ f = a THEN 1 ELSE 0)
  BY <1>1, EdgeCounted
<1>4. Mirrored(F, T)
  BY <1>1, <1>2, <1>3 DEF Mirrored
<1>5. ASSUME checked PROVE Anchored(F, ids)
  BY <1>1, <1>2, <1>5 DEF Anchored
<1>6. QED
  BY <1>4, <1>5 DEF EdgeOK, OneMore

\* And to the entries of edges_.
LEMMA KeysAdded ==
    ASSUME NEW checked, NEW ids, NEW entries, NEW E \in EdgeMap, KeysOK(checked, ids, entries, E),
           NEW a \in TaskIds, NEW b \in TaskIds, checked => a \in ids,
           NEW F, OneMore(E, F, a, b)
    PROVE  KeysOK(checked, ids, entries \cup {a}, F)
<1>1. ASSUME NEW f \in TaskIds, NEW t \in TaskIds, Count(F[f], t) > 0
      PROVE  f \in entries \cup {a}
  <2>1. /\ Count(E[f], t) \in Nat
        /\ Count(F[f], t) = Count(E[f], t) + (IF f = a /\ t = b THEN 1 ELSE 0)
    BY EdgeCounted
  <2>2. CASE f # a
    BY <1>1, <2>1, <2>2 DEF KeysOK
  <2>3. QED
    BY <2>2
<1>2. QED
  BY <1>1 DEF KeysOK

\* Appending to one entry of a map is such an addition.
LEMMA OneMoreIs ==
    ASSUME NEW E \in EdgeMap, NEW a \in TaskIds, NEW b \in TaskIds, NEW F,
           F = [E EXCEPT ![a] = Append(@, b)]
    PROVE  OneMore(E, F, a, b)
BY DEF OneMore, EdgeMap

\* add_edge.
LEMMA AddEdgeInv ==
    ASSUME EdgeInv, NEW a \in TaskIds, NEW b \in TaskIds, AddEdge(a, b)
    PROVE  EdgeInv'
<1>1. PICK E, R, F, T, ids, had, has, checked :
        /\ E = edges /\ R = revEdges /\ F = edges' /\ T = revEdges'
        /\ ids = tasks /\ checked = asserts /\ had = keys /\ has = keys'
  OBVIOUS
<1>2. EdgeOK(checked, ids, E, R) /\ KeysOK(checked, ids, had, E) /\ E \in EdgeMap /\ R \in EdgeMap
  BY <1>1 DEF EdgeInv, EdgeOK
<1>3. /\ F = [E EXCEPT ![a] = Append(@, b)] /\ T = [R EXCEPT ![b] = Append(@, a)]
      /\ asserts' = checked /\ tasks' = ids /\ has = had \cup {a}
      /\ (checked => a \in ids /\ b \in ids)
  BY <1>1 DEF AddEdge
<1>4. OneMore(E, F, a, b) /\ OneMore(R, T, b, a)
  BY <1>2, <1>3, OneMoreIs
<1>5. EdgeOK(checked, ids, F, T)
  BY <1>2, <1>3, <1>4, EdgeAdded
<1>6. KeysOK(checked, ids, has, F)
  BY <1>2, <1>3, <1>4, KeysAdded
<1>7. QED
  BY <1>1, <1>3, <1>5, <1>6 DEF EdgeInv

\* add_edges: add_edge twice from one task, the two targets may be the same.
LEMMA AddEdgesInv ==
    ASSUME EdgeInv, NEW a \in TaskIds, NEW b \in TaskIds, NEW c \in TaskIds, AddEdges(a, b, c)
    PROVE  EdgeInv'
<1>1. PICK E, R, F, T, ids, had, has, checked :
        /\ E = edges /\ R = revEdges /\ F = edges' /\ T = revEdges'
        /\ ids = tasks /\ checked = asserts /\ had = keys /\ has = keys'
  OBVIOUS
<1>2. EdgeOK(checked, ids, E, R) /\ KeysOK(checked, ids, had, E) /\ E \in EdgeMap /\ R \in EdgeMap
  BY <1>1 DEF EdgeInv, EdgeOK
<1>3. /\ F = [E EXCEPT ![a] = @ \o <<b, c>>]
      /\ T = IF b = c THEN [R EXCEPT ![b] = @ \o <<a, a>>]
             ELSE [R EXCEPT ![b] = Append(@, a), ![c] = Append(@, a)]
      /\ asserts' = checked /\ tasks' = ids /\ has = had \cup {a}
      /\ (checked => a \in ids /\ b \in ids /\ c \in ids)
  BY <1>1 DEF AddEdges
<1>4. PICK E1, R1 : /\ E1 = [E EXCEPT ![a] = Append(@, b)]
                    /\ R1 = [R EXCEPT ![b] = Append(@, a)]
  OBVIOUS
<1>5. OneMore(E, E1, a, b) /\ OneMore(R, R1, b, a)
  BY <1>2, <1>4, OneMoreIs
<1>6. EdgeOK(checked, ids, E1, R1)
  BY <1>2, <1>3, <1>5, EdgeAdded
<1>7. OneMore(E1, F, a, c)
  <2>1. E[a] \in Seq(TaskIds) /\ E1 \in EdgeMap /\ E1[a] = Append(E[a], b)
    BY <1>2, <1>5 DEF EdgeMap, OneMore
  <2>2. E[a] \o <<b, c>> = Append(Append(E[a], b), c) /\ E[a] \o <<b, c>> \in Seq(TaskIds)
    BY <2>1
  <2>3. F \in EdgeMap /\ F[a] = Append(Append(E[a], b), c) /\ \A f \in TaskIds : f # a => F[f] = E[f]
    BY <1>2, <1>3, <2>2 DEF EdgeMap
  <2>4. QED
    BY <1>5, <2>1, <2>3 DEF OneMore
<1>8. OneMore(R1, T, c, a)
  <2>1. R[b] \in Seq(TaskIds) /\ R[c] \in Seq(TaskIds) /\ R1 \in EdgeMap /\ R1[b] = Append(R[b], a)
    BY <1>2, <1>5 DEF EdgeMap, OneMore
  <2>2. R[b] \o <<a, a>> = Append(Append(R[b], a), a) /\ R[b] \o <<a, a>> \in Seq(TaskIds)
    BY <2>1
  <2>3. CASE b = c
    <3>1. /\ T \in EdgeMap /\ T[c] = Append(Append(R[b], a), a)
          /\ \A f \in TaskIds : f # c => T[f] = R[f]
      BY <1>2, <1>3, <2>2, <2>3 DEF EdgeMap
    <3>2. QED
      BY <1>5, <2>1, <2>3, <3>1 DEF OneMore
  <2>4. CASE b # c
    <3>1. T = [R1 EXCEPT ![c] = Append(@, a)]
      BY <1>3, <1>4, <2>4
    <3>2. QED
      BY <2>1, <3>1, OneMoreIs
  <2>5. QED
    BY <2>3, <2>4
<1>9. EdgeOK(checked, ids, F, T)
  BY <1>3, <1>6, <1>7, <1>8, EdgeAdded
<1>10. KeysOK(checked, ids, has, F)
  <2>1. KeysOK(checked, ids, had \cup {a}, E1) /\ E1 \in EdgeMap
    BY <1>2, <1>3, <1>5, KeysAdded DEF OneMore
  <2>2. KeysOK(checked, ids, (had \cup {a}) \cup {a}, F)
    BY <1>3, <1>7, <2>1, KeysAdded
  <2>3. (had \cup {a}) \cup {a} = has
    BY <1>3
  <2>4. QED
    BY <2>2, <2>3
<1>11. QED
  BY <1>1, <1>3, <1>9, <1>10 DEF EdgeInv

\* Every edit.
LEMMA EdgeInvStep ==
    ASSUME part = "task graph" => EdgeInv, [Next]_vars
    PROVE  (part = "task graph" => EdgeInv)'
<1>1. part' = part
  BY DEF Next, RestOf, vars
<1>2. SUFFICES ASSUME part = "task graph" PROVE EdgeInv'
  BY <1>1
<1>3. EdgeInv
  BY <1>2
<1>4. GraphNext \/ UNCHANGED tgVars
  BY <1>2 DEF Next, RestOf, vars
<1>5. CASE UNCHANGED tgVars
  BY <1>3, <1>5 DEF tgVars, EdgeInv
<1>6. CASE GraphNext
  <2>1. ASSUME ClearGraph PROVE EdgeInv'
    BY <2>1, NoEdgesOK DEF ClearGraph, EdgeInv
  <2>2. ASSUME NEW a \in TaskIds, AddTask(a) PROVE EdgeInv'
    <3>1. PICK ids, out : ids = tasks /\ out = tasks'
      OBVIOUS
    <3>2. /\ out = ids \cup {a}
          /\ asserts' = asserts /\ edges' = edges /\ keys' = keys /\ revEdges' = revEdges
      BY <2>2, <3>1 DEF AddTask
    <3>3. EdgeOK(asserts, out, edges, revEdges) /\ KeysOK(asserts, out, keys, edges)
      BY <1>3, <3>1, <3>2 DEF EdgeInv, EdgeOK, KeysOK, Anchored
    <3>4. QED
      BY <3>1, <3>2, <3>3 DEF EdgeInv
  <2>3. QED
    BY <1>3, <1>6, <2>1, <2>2, AddEdgeInv, AddEdgesInv, RemoveTaskInv DEF GraphNext
<1>7. QED
  BY <1>4, <1>5, <1>6

\* What EdgesAgree says of the task graph of MCWork.
EdgesKept == part = "task graph" => EdgesAgree

\* After any sequence of add_task, add_edge, add_edges, remove_task and clear the
\* forward and the reverse map of a TaskGraph hold the same edges equally often,
\* and where add_edge asserts its two tasks no edge, and no entry of edges_, names a
\* task that is gone.
THEOREM TaskGraphEdgesKept == Spec => []EdgesKept
<1>1. Init => (part = "task graph" => EdgeInv)
  BY NoEdgesOK DEF Init, GraphInit, EdgeInv
<1>2. (part = "task graph" => EdgeInv) => EdgesKept
  BY EdgeInvSound DEF EdgesKept
<1>3. QED
  BY <1>1, <1>2, EdgeInvStep, PTL DEF Spec

-----------------------------------------------------------------------------
(* Folds, and the states that one goes through                             *)

\* The last of the first n + 1 positions.
LEMMA MaxLast ==
    ASSUME NEW n \in Nat, NEW s \in SUBSET (1 .. (n + 1)), n + 1 \in s
    PROVE  Max(s) = n + 1
<1>1. \E x \in s : \A y \in s : x >= y
  BY n + 1 \in s
<1>2. Max(s) \in s /\ \A y \in s : Max(s) >= y
  BY <1>1 DEF Max
<1>3. Max(s) \in 1 .. (n + 1) /\ Max(s) >= n + 1
  BY <1>2
<1>4. QED
  BY <1>3

\* The last of some positions is one of them.
LEMMA MaxBelow ==
    ASSUME NEW n \in Nat, NEW s \in SUBSET (1 .. n), s # {}
    PROVE  Max(s) \in s
<1> DEFINE S == {k \in Nat : \A t \in SUBSET (1 .. k) : t # {} => Max(t) \in t}
<1>1. 0 \in S
  <2>1. 1 .. 0 = {}
    OBVIOUS
  <2>2. QED
    BY <2>1
<1>2. ASSUME NEW k \in Nat, k \in S PROVE k + 1 \in S
  <2>1. ASSUME NEW t \in SUBSET (1 .. (k + 1)), t # {} PROVE Max(t) \in t
    <3>1. CASE k + 1 \in t
      BY <3>1, MaxLast
    <3>2. CASE k + 1 \notin t
      <4>1. t \in SUBSET (1 .. k)
        BY <3>2
      <4>2. QED
        BY <1>2, <2>1, <4>1
    <3>3. QED
      BY <3>1, <3>2
  <2>2. QED
    BY <2>1
<1>3. n \in S
  <2> HIDE DEF S
  <2>1. QED
    BY <1>1, <1>2, NatInduct
<1>4. QED
  BY <1>3

\* A loop with step F over the sequence q: what FoldLeft holds for each set of positions.
IsFold(g, U, F, base, q) ==
    /\ g \in [SUBSET (1 .. Len(q)) -> U]
    /\ g = [s \in SUBSET (1 .. Len(q)) |->
             IF s = {} THEN base ELSE F[g[s \ {Max(s)}]][q[Max(s)]]]

\* There is one for every step.
LEMMA FoldExists ==
    ASSUME NEW U, NEW A, NEW F \in [U -> [A -> U]], NEW base \in U, NEW q \in Seq(A)
    PROVE  \E g : IsFold(g, U, F, base, q)
<1> DEFINE Folds(g, k) == /\ g \in [SUBSET (1 .. k) -> U]
                          /\ \A s \in SUBSET (1 .. k) :
                               g[s] = IF s = {} THEN base ELSE F[g[s \ {Max(s)}]][q[Max(s)]]
           S == {k \in Nat : k <= Len(q) => \E g : Folds(g, k)}
<1>1. 0 \in S
  <2> DEFINE g == [s \in SUBSET (1 .. 0) |-> base]
  <2>1. Folds(g, 0)
    OBVIOUS
  <2>2. QED
    BY <2>1
<1>2. ASSUME NEW k \in Nat, k \in S PROVE k + 1 \in S
  <2> SUFFICES ASSUME k + 1 <= Len(q) PROVE \E g : Folds(g, k + 1)
    <3> HIDE DEF Folds
    <3> QED OBVIOUS
  <2>1. PICK g : Folds(g, k)
    <3> HIDE DEF Folds
    <3>1. k <= Len(q)
      OBVIOUS
    <3>2. QED
      BY <1>2, <3>1
  <2> DEFINE h == [s \in SUBSET (1 .. (k + 1)) |->
                    IF k + 1 \in s THEN F[g[s \ {k + 1}]][q[k + 1]] ELSE g[s]]
  <2>2. q[k + 1] \in A
    OBVIOUS
  <2>3. ASSUME NEW s \in SUBSET (1 .. (k + 1))
        PROVE  /\ h[s] \in U
               /\ h[s] = IF s = {} THEN base ELSE F[h[s \ {Max(s)}]][q[Max(s)]]
    <3>1. CASE k + 1 \in s
      <4>1. s \ {k + 1} \in SUBSET (1 .. k) /\ Max(s) = k + 1
        BY <3>1, MaxLast
      <4>2. g[s \ {k + 1}] \in U /\ h[s \ {k + 1}] = g[s \ {k + 1}]
        BY <2>1, <4>1
      <4>3. h[s] = F[g[s \ {k + 1}]][q[k + 1]]
        BY <3>1
      <4>4. QED
        BY <2>2, <3>1, <4>1, <4>2, <4>3
    <3>2. CASE k + 1 \notin s
      <4>1. s \in SUBSET (1 .. k)
        BY <3>2
      <4>2. s # {} => s \ {Max(s)} \in SUBSET (1 .. k)
        BY <4>1
      <4>3. h[s] = g[s] /\ (s # {} => h[s \ {Max(s)}] = g[s \ {Max(s)}])
        BY <3>2, <4>1, <4>2
      <4>4. g[s] \in U /\ g[s] = IF s = {} THEN base ELSE F[g[s \ {Max(s)}]][q[Max(s)]]
        BY <2>1, <4>1
      <4>5. QED
        BY <4>3, <4>4
    <3>3. QED
      BY <3>1, <3>2
  <2>4. h \in [SUBSET (1 .. (k + 1)) -> U]
    <3>1. \A s \in SUBSET (1 .. (k + 1)) : h[s] \in U
      BY <2>3
    <3>2. h = [s \in SUBSET (1 .. (k + 1)) |-> h[s]]
      OBVIOUS
    <3> HIDE DEF h
    <3>3. QED
      BY <3>1, <3>2
  <2>5. Folds(h, k + 1)
    <3>1. \A s \in SUBSET (1 .. (k + 1)) :
             h[s] = IF s = {} THEN base ELSE F[h[s \ {Max(s)}]][q[Max(s)]]
      BY <2>3
    <3> HIDE DEF h
    <3>2. QED
      BY <2>4, <3>1
  <2>6. QED
    BY <2>5
<1>3. Len(q) \in S
  <2>1. Len(q) \in Nat
    OBVIOUS
  <2> HIDE DEF S
  <2>2. QED
    BY <1>1, <1>2, <2>1, NatInduct
<1>4. PICK g : Folds(g, Len(q))
  <2> HIDE DEF Folds
  <2>1. QED
    BY <1>3
<1>5. g = [s \in SUBSET (1 .. Len(q)) |->
            IF s = {} THEN base ELSE F[g[s \ {Max(s)}]][q[Max(s)]]]
  <2>1. g = [s \in SUBSET (1 .. Len(q)) |-> g[s]]
    BY <1>4
  <2>2. QED
    BY <1>4, <2>1
<1>6. QED
  BY <1>4, <1>5 DEF IsFold

\* The first k positions: their last, and what is left without it.
LEMMA FoldPrefix ==
    ASSUME NEW n \in Nat, NEW g, NEW k \in 1 .. n
    PROVE  /\ 1 .. k \in SUBSET (1 .. n) /\ 1 .. k # {}
           /\ Max(1 .. k) = k /\ (1 .. k) \ {k} = 1 .. (k - 1)
           /\ 1 .. (k - 1) \in SUBSET (1 .. n)
<1>1. k - 1 \in Nat /\ 1 .. k \in SUBSET (1 .. (k - 1 + 1)) /\ k - 1 + 1 \in 1 .. k
  OBVIOUS
<1>2. Max(1 .. k) = k - 1 + 1
  BY <1>1, MaxLast
<1>3. QED
  BY <1>2

-----------------------------------------------------------------------------
\* The loops over dependencies and over tasks, for any dfs.
Loop(f, base, q) == FoldLeft(LAMBDA s, id : IF s.ok THEN f[id][s] ELSE s, base, q)

\* The states a loop goes through, all in U.
LoopSteps(f, base, q, U, tr) ==
    /\ tr \in [0 .. Len(q) -> U]
    /\ tr[0] = base
    /\ \A k \in 1 .. Len(q) : tr[k] = IF tr[k - 1].ok THEN f[q[k]][tr[k - 1]] ELSE tr[k - 1]

\* A loop whose steps stay in U.
LEMMA LoopTrace ==
    ASSUME NEW U, NEW f, \A s \in U, id \in TaskIds : s.ok => f[id][s] \in U,
           NEW base \in U, NEW q \in Seq(TaskIds)
    PROVE  \E tr : LoopSteps(f, base, q, U, tr) /\ Loop(f, base, q) = tr[Len(q)]
<1> DEFINE n == Len(q)
           F == [s \in U |-> [id \in TaskIds |-> IF s.ok THEN f[id][s] ELSE s]]
           Eqn(g) == g = [s \in SUBSET (DOMAIN q) |->
                       IF s = {} THEN base
                       ELSE IF g[s \ {Max(s)}].ok THEN f[q[Max(s)]][g[s \ {Max(s)}]]
                            ELSE g[s \ {Max(s)}]]
           it == CHOOSE g : Eqn(g)
<1>0. n \in Nat /\ DOMAIN q = 1 .. n /\ \A k \in 1 .. n : q[k] \in TaskIds
  OBVIOUS
<1>1. \E g : Eqn(g)
  <2>1. F \in [U -> [TaskIds -> U]]
    OBVIOUS
  <2>2. PICK g : IsFold(g, U, F, base, q)
    <3> HIDE DEF F
    <3>1. QED
      BY <2>1, FoldExists
  <2>3. ASSUME NEW s \in SUBSET (1 .. n)
        PROVE  (IF s = {} THEN base ELSE F[g[s \ {Max(s)}]][q[Max(s)]]) =
               (IF s = {} THEN base
                       ELSE IF g[s \ {Max(s)}].ok THEN f[q[Max(s)]][g[s \ {Max(s)}]]
                            ELSE g[s \ {Max(s)}])
    <3>1. s # {} => Max(s) \in 1 .. n /\ s \ {Max(s)} \in SUBSET (1 .. n)
      BY <1>0, MaxBelow
    <3>2. s # {} => q[Max(s)] \in TaskIds /\ g[s \ {Max(s)}] \in U
      BY <1>0, <2>2, <3>1 DEF IsFold
    <3>3. QED
      BY <3>2
  <2>4. Eqn(g)
    BY <1>0, <2>2, <2>3 DEF IsFold
  <2>5. QED
    BY <2>4
<1>2. Eqn(it)
  BY <1>1
<1>3. Loop(f, base, q) = it[1 .. n]
  BY <1>0 DEF Loop, FoldLeft, MapThenFoldSet
<1> DEFINE tr == [k \in 0 .. n |-> it[1 .. k]]
<1>4. it[{}] = base /\ \A k \in 1 .. n :
         it[1 .. k] = IF it[1 .. (k - 1)].ok THEN f[q[k]][it[1 .. (k - 1)]] ELSE it[1 .. (k - 1)]
  <2>1. it[{}] = base
    BY <1>2
  <2>2. ASSUME NEW k \in 1 .. n
        PROVE it[1 .. k] = IF it[1 .. (k - 1)].ok THEN f[q[k]][it[1 .. (k - 1)]]
                           ELSE it[1 .. (k - 1)]
    <3>1. /\ 1 .. k \in SUBSET (DOMAIN q) /\ 1 .. k # {}
          /\ Max(1 .. k) = k /\ (1 .. k) \ {k} = 1 .. (k - 1)
      BY <1>0, FoldPrefix
    <3>2. \A s \in SUBSET (DOMAIN q) : s # {} =>
             it[s] = IF it[s \ {Max(s)}].ok THEN f[q[Max(s)]][it[s \ {Max(s)}]]
                     ELSE it[s \ {Max(s)}]
      <4> HIDE DEF it
      <4>1. QED
        BY <1>2
    <3> HIDE DEF it
    <3>3. QED
      BY <3>1, <3>2
  <2>3. QED
    BY <2>1, <2>2
<1> HIDE DEF it
<1>5. tr[0] = base /\ \A k \in 1 .. n : tr[k] = IF tr[k - 1].ok THEN f[q[k]][tr[k - 1]] ELSE tr[k - 1]
  <2>1. 1 .. 0 = {}
    OBVIOUS
  <2>2. QED
    BY <1>0, <1>4, <2>1
<1> DEFINE S == {j \in Nat : j <= n => tr[j] \in U}
<1>6. \A k \in Nat : k \in S
  <2>1. 0 \in S
    BY <1>5
  <2>2. ASSUME NEW k \in Nat, k \in S PROVE k + 1 \in S
    <3> SUFFICES ASSUME k + 1 <= n PROVE tr[k + 1] \in U
      OBVIOUS
    <3>1. k + 1 \in 1 .. n /\ tr[k] \in U /\ q[k + 1] \in TaskIds
      BY <1>0, <2>2
    <3> HIDE DEF tr
    <3>2. tr[k + 1] = IF tr[k].ok THEN f[q[k + 1]][tr[k]] ELSE tr[k]
      BY <1>5, <3>1
    <3>3. QED
      BY <3>1, <3>2
  <2> HIDE DEF S
  <2>3. QED
    BY <2>1, <2>2, NatInduct
<1>7. tr \in [0 .. n -> U]
  <2>1. \A k \in 0 .. n : tr[k] \in U
    <3> HIDE DEF tr
    <3>1. QED
      BY <1>0, <1>6
  <2>2. QED
    BY <2>1
<1>8. Loop(f, base, q) = tr[n]
  BY <1>0, <1>3
<1>9. QED
  <2> HIDE DEF tr
  <2>1. QED
    BY <1>5, <1>7, <1>8 DEF LoopSteps

-----------------------------------------------------------------------------
(* dfs                                                                     *)

Entered(st, id) == [st EXCEPT !.visited = @ \cup {id}, !.stack = @ \cup {id}]

Left(st, id) == [st EXCEPT !.stack = @ \ {id}, !.result = Append(@, id)]

Failed(st) == [st EXCEPT !.ok = FALSE]

\* What these do to the marks.
LEMMA EnteredIs ==
    ASSUME NEW st \in Marks, NEW id \in TaskIds
    PROVE  /\ Entered(st, id) \in Marks
           /\ Entered(st, id).ok = st.ok
           /\ Entered(st, id).visited = st.visited \cup {id}
           /\ Entered(st, id).stack = st.stack \cup {id}
           /\ Entered(st, id).result = st.result
BY DEF Entered, Marks

\* Leaving id.
LEMMA LeftIs ==
    ASSUME NEW st \in Marks, NEW id \in TaskIds
    PROVE  /\ Left(st, id) \in Marks
           /\ Left(st, id).ok = st.ok
           /\ Left(st, id).visited = st.visited
           /\ Left(st, id).stack = st.stack \ {id}
           /\ Left(st, id).result = Append(st.result, id)
<1>1. PICK ext : ext = Append(st.result, id)
  OBVIOUS
<1>2. ext \in Seq(TaskIds)
  <2>1. st.result \in Seq(TaskIds)
    BY DEF Marks
  <2>2. QED
    BY <1>1, <2>1
<1>3. Left(st, id) = [st EXCEPT !.stack = @ \ {id}, !.result = ext]
  BY <1>1 DEF Left
<1>4. QED
  BY <1>1, <1>2, <1>3 DEF Marks

\* A cycle.
LEMMA FailedIs ==
    ASSUME NEW st \in Marks
    PROVE  /\ Failed(st) \in Marks
           /\ Failed(st).ok = FALSE
           /\ Failed(st).visited = st.visited
BY DEF Failed, Marks

\* The types of the marks.
LEMMA MarksAre ==
    ASSUME NEW st \in Marks
    PROVE  /\ st.ok \in BOOLEAN /\ st.visited \in SUBSET TaskIds /\ st.stack \in SUBSET TaskIds
           /\ st.result \in Seq(TaskIds)
BY DEF Marks

\* One call, with f for the calls it makes.
DfsBody(f, id, st) ==
    IF id \in st.stack THEN Failed(st)
    ELSE IF id \in st.visited THEN st
    ELSE IF Loop(f, Entered(st, id), edges[id]).ok THEN Left(Loop(f, Entered(st, id), edges[id]), id)
    ELSE Loop(f, Entered(st, id), edges[id])

Calls(f) == f = [id \in TaskIds |-> [st \in Marks |-> DfsBody(f, id, st)]]

\* dfs makes its own calls.
LEMMA DfsIs == Dfs = CHOOSE f : Calls(f)
BY DEF Dfs, Calls, DfsBody, Loop, Entered, Left, Failed

\* How deep calls may go: fewer than n ids are not visited.
Fewer(st, n) == Cardinality(TaskIds \ st.visited) < n

\* Entering an id leaves one fewer.
LEMMA FewerNext ==
    ASSUME NEW st \in Marks, NEW id \in TaskIds \ st.visited, NEW n \in Nat, Fewer(st, n + 1),
           NEW s \in Marks, st.visited \cup {id} \subseteq s.visited
    PROVE  Fewer(s, n)
<1> DEFINE A == TaskIds \ st.visited
           B == TaskIds \ s.visited
<1>1. IsFiniteSet(A) /\ IsFiniteSet(B)
  BY TaskAssumption, FS_Difference
<1>2. Cardinality(A) \in Nat /\ Cardinality(B) \in Nat
  BY <1>1, FS_CardinalityType
<1>3. IsFiniteSet(A \ {id}) /\ Cardinality(A \ {id}) = Cardinality(A) - 1
  BY <1>1, FS_RemoveElement
<1>4. B \in SUBSET (A \ {id})
  OBVIOUS
<1>5. Cardinality(B) <= Cardinality(A \ {id})
  BY <1>3, <1>4, FS_Subset
<1>6. Cardinality(A) < n + 1
  BY DEF Fewer
<1>7. Cardinality(B) < n
  <2> HIDE DEF A, B
  <2>1. QED
    BY <1>2, <1>3, <1>5, <1>6
<1>8. QED
  BY <1>7 DEF Fewer

\* f gives marks, and no visit is forgotten, for calls of depth below n.
Grows(f, n) ==
    \A st \in Marks, id \in TaskIds :
       Fewer(st, n) => f[id][st] \in Marks /\ st.visited \subseteq f[id][st].visited

\* The states after id was entered.
After(st, id) == {s \in Marks : st.visited \cup {id} \subseteq s.visited}

\* The calls of a loop stay after its entry.
LEMMA AfterSteps ==
    ASSUME NEW n \in Nat, NEW f, Grows(f, n), NEW st \in Marks, Fewer(st, n + 1),
           NEW id \in TaskIds \ st.visited
    PROVE  /\ Entered(st, id) \in After(st, id)
           /\ \A s \in After(st, id), x \in TaskIds : Fewer(s, n) /\ f[x][s] \in After(st, id)
<1>1. Entered(st, id) \in After(st, id)
  BY EnteredIs DEF After
<1>2. ASSUME NEW s \in After(st, id), NEW x \in TaskIds
      PROVE  Fewer(s, n) /\ f[x][s] \in After(st, id)
  <2>1. s \in Marks /\ st.visited \cup {id} \subseteq s.visited
    BY DEF After
  <2>2. Fewer(s, n)
    BY <2>1, FewerNext
  <2>3. f[x][s] \in Marks /\ s.visited \subseteq f[x][s].visited
    BY <2>1, <2>2 DEF Grows
  <2>4. QED
    BY <2>1, <2>2, <2>3 DEF After
<1>3. QED
  BY <1>1, <1>2

\* So does the call one deeper.
LEMMA BodyGrows ==
    ASSUME edges \in EdgeMap, NEW n \in Nat, NEW f, Grows(f, n),
           NEW st \in Marks, Fewer(st, n + 1), NEW id \in TaskIds
    PROVE  DfsBody(f, id, st) \in Marks /\ st.visited \subseteq DfsBody(f, id, st).visited
<1>1. CASE id \in st.stack
  BY <1>1, FailedIs DEF DfsBody
<1>2. CASE id \notin st.stack /\ id \in st.visited
  BY <1>2 DEF DfsBody
<1>3. CASE id \notin st.stack /\ id \notin st.visited
  <2>1. PICK U : U = After(st, id)
    OBVIOUS
  <2>2. Entered(st, id) \in U /\ \A s \in U, x \in TaskIds : f[x][s] \in U
    BY <1>3, <2>1, AfterSteps
  <2>3. edges[id] \in Seq(TaskIds)
    BY DEF EdgeMap
  <2>4. PICK base, q : base = Entered(st, id) /\ q = edges[id]
    OBVIOUS
  <2>5. PICK tr : LoopSteps(f, base, q, U, tr) /\ Loop(f, base, q) = tr[Len(q)]
    BY <2>2, <2>3, <2>4, LoopTrace
  <2>6. Loop(f, base, q) \in U
    BY <2>3, <2>4, <2>5 DEF LoopSteps
  <2>7. PICK inner : inner = Loop(f, base, q)
    OBVIOUS
  <2>8. inner \in Marks /\ st.visited \cup {id} \subseteq inner.visited
    BY <2>1, <2>6, <2>7 DEF After
  <2>9. DfsBody(f, id, st) = IF inner.ok THEN Left(inner, id) ELSE inner
    BY <1>3, <2>4, <2>7 DEF DfsBody
  <2>10. QED
    BY <2>8, <2>9, LeftIs
<1>4. QED
  BY <1>1, <1>2, <1>3

\* Only shallower calls matter.
LEMMA BodySame ==
    ASSUME edges \in EdgeMap, NEW n \in Nat, NEW f, Grows(f, n), NEW h,
           \A s \in Marks, x \in TaskIds : Fewer(s, n) => h[x][s] = f[x][s],
           NEW st \in Marks, Fewer(st, n + 1), NEW id \in TaskIds
    PROVE  DfsBody(h, id, st) = DfsBody(f, id, st)
<1>1. CASE id \in st.stack \/ id \in st.visited
  BY <1>1 DEF DfsBody
<1>2. CASE id \notin st.stack /\ id \notin st.visited
  <2>1. PICK U : U = After(st, id)
    OBVIOUS
  <2>2. /\ Entered(st, id) \in U
        /\ \A s \in U, x \in TaskIds : Fewer(s, n) /\ f[x][s] \in U
    BY <1>2, <2>1, AfterSteps
  <2>3. \A s \in U, x \in TaskIds : h[x][s] = f[x][s]
    BY <2>1, <2>2 DEF After
  <2>4. edges[id] \in Seq(TaskIds)
    BY DEF EdgeMap
  <2>5. PICK base, q : base = Entered(st, id) /\ q = edges[id]
    OBVIOUS
  <2>6. PICK tr : LoopSteps(f, base, q, U, tr) /\ Loop(f, base, q) = tr[Len(q)]
    BY <2>2, <2>4, <2>5, LoopTrace
  <2>7. PICK tr2 : LoopSteps(h, base, q, U, tr2) /\ Loop(h, base, q) = tr2[Len(q)]
    BY <2>2, <2>3, <2>4, <2>5, LoopTrace
  <2> DEFINE S == {k \in Nat : k <= Len(q) => tr2[k] = tr[k]}
  <2>8. 0 \in S
    BY <2>6, <2>7 DEF LoopSteps
  <2>9. ASSUME NEW k \in Nat, k \in S PROVE k + 1 \in S
    <3> SUFFICES ASSUME k + 1 <= Len(q) PROVE tr2[k + 1] = tr[k + 1]
      OBVIOUS
    <3>1. Len(q) \in Nat /\ k + 1 \in 1 .. Len(q) /\ q[k + 1] \in TaskIds
      BY <2>4, <2>5
    <3>2. tr2[k] = tr[k] /\ tr[k] \in U
      BY <2>6, <2>9, <3>1 DEF LoopSteps
    <3>3. /\ tr[k + 1] = IF tr[k].ok THEN f[q[k + 1]][tr[k]] ELSE tr[k]
          /\ tr2[k + 1] = IF tr2[k].ok THEN h[q[k + 1]][tr2[k]] ELSE tr2[k]
      BY <2>6, <2>7, <3>1 DEF LoopSteps
    <3>4. QED
      BY <2>3, <3>1, <3>2, <3>3
  <2>10. Len(q) \in S
    <3>1. Len(q) \in Nat
      BY <2>4, <2>5
    <3> HIDE DEF S
    <3>2. QED
      BY <2>8, <2>9, <3>1, NatInduct
  <2>11. Loop(h, base, q) = Loop(f, base, q)
    BY <2>6, <2>7, <2>10
  <2>12. QED
    BY <2>5, <2>11 DEF DfsBody
<1>3. QED
  BY <1>1, <1>2

\* The recursion of dfs ends: there is such a function.
LEMMA CallsExist ==
    ASSUME edges \in EdgeMap
    PROVE  \E f : Calls(f)
<1> DEFINE Upto(f, n) == /\ Grows(f, n)
                         /\ \A st \in Marks, id \in TaskIds :
                              Fewer(st, n) => f[id][st] = DfsBody(f, id, st)
           S == {n \in Nat : \E f : Upto(f, n)}
<1>1. 0 \in S
  <2>1. \A st \in Marks : ~Fewer(st, 0)
    <3> SUFFICES ASSUME NEW st \in Marks PROVE ~Fewer(st, 0)
      OBVIOUS
    <3>1. Cardinality(TaskIds \ st.visited) \in Nat
      BY TaskAssumption, FS_Difference, FS_CardinalityType
    <3>2. QED
      BY <3>1 DEF Fewer
  <2>2. Upto(<< >>, 0)
    BY <2>1 DEF Grows
  <2>3. QED
    BY <2>2
<1>2. ASSUME NEW n \in Nat, n \in S PROVE n + 1 \in S
  <2>1. PICK f : Upto(f, n)
    <3> HIDE DEF Upto
    <3>1. QED
      BY <1>2
  <2> DEFINE h == [id \in TaskIds |-> [st \in Marks |-> DfsBody(f, id, st)]]
  <2>2. \A st \in Marks, id \in TaskIds : h[id][st] = DfsBody(f, id, st)
    OBVIOUS
  <2> HIDE DEF h
  <2>3. Grows(h, n + 1)
    <3>1. ASSUME NEW st \in Marks, NEW id \in TaskIds, Fewer(st, n + 1)
          PROVE  DfsBody(f, id, st) \in Marks /\ st.visited \subseteq DfsBody(f, id, st).visited
      BY <2>1, <3>1, BodyGrows
    <3>2. QED
      BY <2>2, <3>1 DEF Grows
  <2>4. \A st \in Marks, id \in TaskIds : Fewer(st, n) => h[id][st] = f[id][st]
    BY <2>1, <2>2
  <2>5. ASSUME NEW st \in Marks, NEW id \in TaskIds, Fewer(st, n + 1)
        PROVE  h[id][st] = DfsBody(h, id, st)
    <3>1. DfsBody(h, id, st) = DfsBody(f, id, st)
      BY <2>1, <2>4, <2>5, BodySame
    <3>2. QED
      BY <2>2, <3>1
  <2>6. Upto(h, n + 1)
    BY <2>3, <2>5
  <2> HIDE DEF Upto
  <2>7. QED
    BY <2>6
<1>3. PICK n \in Nat : \A st \in Marks : Fewer(st, n)
  <2> DEFINE n == Cardinality(TaskIds) + 1
  <2>1. Cardinality(TaskIds) \in Nat
    BY TaskAssumption, FS_CardinalityType
  <2>2. ASSUME NEW st \in Marks PROVE Fewer(st, n)
    <3>1. TaskIds \ st.visited \in SUBSET TaskIds
      OBVIOUS
    <3>2. Cardinality(TaskIds \ st.visited) <= Cardinality(TaskIds)
      BY <3>1, TaskAssumption, FS_Subset
    <3>3. Cardinality(TaskIds \ st.visited) \in Nat
      BY TaskAssumption, FS_Difference, FS_CardinalityType
    <3>4. QED
      BY <2>1, <3>2, <3>3 DEF Fewer
  <2>3. QED
    BY <2>1, <2>2
<1>4. n \in S
  <2> HIDE DEF S
  <2>1. QED
    BY <1>1, <1>2, NatInduct
<1>5. PICK f : Upto(f, n)
  <2> HIDE DEF Upto
  <2>1. QED
    BY <1>4
<1> DEFINE h == [id \in TaskIds |-> [st \in Marks |-> DfsBody(f, id, st)]]
<1>6. \A st \in Marks, id \in TaskIds : h[id][st] = DfsBody(f, id, st)
  OBVIOUS
<1>7. ASSUME NEW st \in Marks, NEW id \in TaskIds PROVE DfsBody(h, id, st) = DfsBody(f, id, st)
  <2>1. \A s \in Marks, x \in TaskIds : Fewer(s, n) => h[x][s] = f[x][s]
    BY <1>5, <1>6
  <2>2. Fewer(st, n + 1)
    <3>1. Fewer(st, n) /\ Cardinality(TaskIds \ st.visited) \in Nat
      BY <1>3, TaskAssumption, FS_Difference, FS_CardinalityType
    <3>2. QED
      BY <3>1 DEF Fewer
  <2> HIDE DEF h
  <2>3. QED
    BY <1>5, <2>1, <2>2, BodySame
<1>8. h = [id \in TaskIds |-> [st \in Marks |-> DfsBody(h, id, st)]]
  BY <1>7
<1>9. QED
  BY <1>8 DEF Calls

\* What the calls give, to any depth.
LEMMA CallsGrow ==
    ASSUME edges \in EdgeMap, NEW f, Calls(f)
    PROVE  \A n \in Nat : Grows(f, n)
<1> DEFINE S == {n \in Nat : Grows(f, n)}
<1>0. \A st \in Marks, id \in TaskIds : f[id][st] = DfsBody(f, id, st)
  BY DEF Calls
<1>1. 0 \in S
  <2>1. ASSUME NEW st \in Marks PROVE ~Fewer(st, 0)
    <3>1. Cardinality(TaskIds \ st.visited) \in Nat
      BY TaskAssumption, FS_Difference, FS_CardinalityType
    <3>2. QED
      BY <3>1 DEF Fewer
  <2>2. QED
    BY <2>1 DEF Grows
<1>2. ASSUME NEW n \in Nat, n \in S PROVE n + 1 \in S
  <2>1. ASSUME NEW st \in Marks, NEW id \in TaskIds, Fewer(st, n + 1)
        PROVE  DfsBody(f, id, st) \in Marks /\ st.visited \subseteq DfsBody(f, id, st).visited
    BY <1>2, <2>1, BodyGrows
  <2>2. Grows(f, n + 1)
    BY <1>0, <2>1 DEF Grows
  <2>3. QED
    BY <2>2
<1>3. \A n \in Nat : n \in S
  <2> HIDE DEF S
  <2>1. QED
    BY <1>1, <1>2, NatInduct
<1>4. QED
  BY <1>3

\* Enough depth for every state.
LEMMA FewerAll == \E n \in Nat : \A st \in Marks : Fewer(st, n)
<1> DEFINE n == Cardinality(TaskIds) + 1
<1>1. Cardinality(TaskIds) \in Nat
  BY TaskAssumption, FS_CardinalityType
<1>2. ASSUME NEW st \in Marks PROVE Fewer(st, n)
  <2>1. TaskIds \ st.visited \in SUBSET TaskIds
    OBVIOUS
  <2>2. Cardinality(TaskIds \ st.visited) <= Cardinality(TaskIds)
    BY <2>1, TaskAssumption, FS_Subset
  <2>3. Cardinality(TaskIds \ st.visited) \in Nat
    BY TaskAssumption, FS_Difference, FS_CardinalityType
  <2>4. QED
    BY <1>1, <2>2, <2>3 DEF Fewer
<1>3. QED
  BY <1>1, <1>2

-----------------------------------------------------------------------------
(* What dfs finds                                                          *)

\* Edges are paths.
LEMMA PathEdge ==
    ASSUME NEW a, NEW b \in ToSet(edges[a])
    PROVE  Path(a, b)
BY DEF Path

\* Paths continue.
LEMMA PathTrans ==
    ASSUME NEW a \in TaskIds, NEW b \in TaskIds, NEW c \in TaskIds, Path(a, b), Path(b, c)
    PROVE  Path(a, c)
<1> SUFFICES ASSUME NEW S \in SUBSET TaskIds, ToSet(edges[a]) \subseteq S,
                    \A x \in S : ToSet(edges[x]) \subseteq S
             PROVE  c \in S
  BY DEF Path
<1>1. b \in S
  BY DEF Path
<1>2. ToSet(edges[b]) \subseteq S
  BY <1>1
<1>3. QED
  BY <1>2 DEF Path

\* id and all that is reached from it.
Tree(id) == {id} \cup {b \in TaskIds : Path(id, b)}

\* An edge leads into the tree.
LEMMA TreeEdge ==
    ASSUME NEW a \in TaskIds, NEW b \in TaskIds, b \in ToSet(edges[a])
    PROVE  Tree(b) \subseteq Tree(a)
BY PathEdge, PathTrans DEF Tree

\* Each id once, and after all that it points to.
InOrder(t) ==
    /\ \A i, j \in 1 .. Len(t) : i # j => t[i] # t[j]
    /\ \A i \in 1 .. Len(t) : ToSet(edges[t[i]]) \subseteq {t[j] : j \in 1 .. (i - 1)}

\* The result has the ids that dfs is done with, in this order.
Sorted(st) ==
    /\ st.stack \subseteq st.visited
    /\ ToSet(st.result) = st.visited \ st.stack
    /\ InOrder(st.result)

\* When a call is made: what is on the stack leads to id.
Ready(id, st) == st.ok /\ Sorted(st) /\ \A x \in st.stack : Path(x, id)

\* A cycle among the ids reached from id.
Cycle(id) == \E x \in Tree(id) : Path(x, x)

\* What it returns: id is done, or there is a cycle.
Met(id, st, r) ==
    /\ r.visited \subseteq st.visited \cup Tree(id)
    /\ r.ok => Sorted(r) /\ r.stack = st.stack /\ id \in r.visited \ r.stack
    /\ ~r.ok => Cycle(id)

\* Inside the call, after k of the ids that id points to.
Within(id, st, q, k, s) ==
    /\ s.visited \subseteq st.visited \cup Tree(id)
    /\ s.ok => /\ Sorted(s) /\ s.stack = st.stack \cup {id}
               /\ \A j \in 1 .. k : q[j] \in s.visited \ s.stack
    /\ ~s.ok => Cycle(id)

\* id is entered.
LEMMA WithinFirst ==
    ASSUME NEW st \in Marks, NEW id \in TaskIds \ st.visited, Ready(id, st), NEW q
    PROVE  Within(id, st, q, 0, Entered(st, id))
<1>1. PICK s : s = Entered(st, id)
  OBVIOUS
<1>2. /\ s.ok = st.ok /\ s.visited = st.visited \cup {id}
      /\ s.stack = st.stack \cup {id} /\ s.result = st.result
  BY <1>1, EnteredIs
<1>3. Sorted(st) /\ st.ok
  BY DEF Ready
<1>4. Sorted(s)
  <2>1. ToSet(s.result) = st.visited \ st.stack /\ InOrder(s.result) /\ st.stack \subseteq st.visited
    BY <1>2, <1>3 DEF Sorted
  <2>2. s.visited \ s.stack = st.visited \ st.stack
    BY <1>2
  <2>3. s.stack \subseteq s.visited
    BY <1>2, <2>1
  <2>4. QED
    BY <2>1, <2>2, <2>3 DEF Sorted
<1>5. s.visited \subseteq st.visited \cup Tree(id)
  BY <1>2 DEF Tree
<1>6. QED
  BY <1>1, <1>2, <1>3, <1>4, <1>5 DEF Within

\* One more of them.
LEMMA WithinNext ==
    ASSUME NEW st \in Marks, NEW id \in TaskIds \ st.visited, Ready(id, st),
           NEW q \in Seq(TaskIds), q = edges[id], NEW k \in Nat, k + 1 <= Len(q),
           NEW s \in Marks, Within(id, st, q, k, s),
           NEW r \in Marks, s.ok => s.visited \subseteq r.visited /\ (Ready(q[k + 1], s) => Met(q[k + 1], s, r)),
           ~s.ok => r = s
    PROVE  Within(id, st, q, k + 1, r)
<1>1. CASE ~s.ok
  BY <1>1 DEF Within
<1>2. CASE s.ok
  <2>1. PICK d \in TaskIds : d = q[k + 1] /\ d \in ToSet(edges[id])
    BY DEF ToSet
  <2>2. Sorted(s) /\ s.stack = st.stack \cup {id} /\ \A j \in 1 .. k : q[j] \in s.visited \ s.stack
    BY <1>2 DEF Within
  <2>3. st.stack \in SUBSET TaskIds
    BY MarksAre
  <2>4. \A x \in st.stack : Path(x, id)
    BY DEF Ready
  <2>5. Path(id, d)
    BY <2>1, PathEdge
  <2>6. \A x \in s.stack : Path(x, d)
    BY <2>2, <2>3, <2>4, <2>5, PathTrans
  <2>7. Ready(d, s)
    BY <1>2, <2>2, <2>6 DEF Ready
  <2>8. Met(d, s, r) /\ s.visited \subseteq r.visited
    BY <1>2, <2>1, <2>7
  <2>9. Tree(d) \subseteq Tree(id)
    BY <2>1, TreeEdge
  <2>10. r.visited \subseteq st.visited \cup Tree(id)
    BY <2>8, <2>9 DEF Met, Within
  <2>11. ~r.ok => Cycle(id)
    BY <2>8, <2>9 DEF Met, Cycle
  <2>12. ASSUME r.ok
         PROVE  /\ Sorted(r) /\ r.stack = st.stack \cup {id}
                /\ \A j \in 1 .. (k + 1) : q[j] \in r.visited \ r.stack
    <3>1. Sorted(r) /\ r.stack = s.stack /\ d \in r.visited \ r.stack
      BY <2>8, <2>12 DEF Met
    <3>2. ASSUME NEW j \in 1 .. (k + 1) PROVE q[j] \in r.visited \ r.stack
      <4>1. CASE j = k + 1
        BY <2>1, <3>1, <4>1
      <4>2. CASE j # k + 1
        <5>1. j \in 1 .. k
          BY <4>2
        <5>2. QED
          BY <2>2, <2>8, <3>1, <5>1
      <4>3. QED
        BY <4>1, <4>2
    <3>3. QED
      BY <2>2, <3>1, <3>2
  <2>13. QED
    BY <2>10, <2>11, <2>12 DEF Within
<1>3. QED
  BY <1>1, <1>2

\* id is left.
LEMMA WithinLast ==
    ASSUME edges \in EdgeMap, NEW st \in Marks, NEW id \in TaskIds \ st.visited, Ready(id, st),
           NEW q \in Seq(TaskIds), q = edges[id],
           NEW s \in Marks, st.visited \cup {id} \subseteq s.visited, Within(id, st, q, Len(q), s),
           NEW r, r = IF s.ok THEN Left(s, id) ELSE s
    PROVE  Met(id, st, r)
<1>1. CASE ~s.ok
  BY <1>1 DEF Within, Met
<1>2. CASE s.ok
  <2>1. /\ r.ok = s.ok /\ r.visited = s.visited
        /\ r.stack = s.stack \ {id} /\ r.result = Append(s.result, id)
    BY <1>2, LeftIs
  <2>2. Sorted(s) /\ s.stack = st.stack \cup {id}
        /\ \A j \in 1 .. Len(q) : q[j] \in s.visited \ s.stack
    BY <1>2 DEF Within
  <2>3. id \notin st.stack /\ st.stack \subseteq st.visited
    BY DEF Ready, Sorted
  <2>4. r.stack = st.stack
    <3>1. r.stack = (st.stack \cup {id}) \ {id}
      BY <2>1, <2>2
    <3>2. (st.stack \cup {id}) \ {id} = st.stack
      BY <2>3
    <3>3. QED
      BY <3>1, <3>2
  <2>5. PICK t, u : t = s.result /\ u = r.result
    OBVIOUS
  <2>6. /\ t \in Seq(TaskIds) /\ u = Append(t, id) /\ Len(u) = Len(t) + 1 /\ Len(t) \in Nat
        /\ u[Len(t) + 1] = id /\ \A i \in 1 .. Len(t) : u[i] = t[i]
    BY <2>1, <2>5, MarksAre
  <2>7. ToSet(t) = s.visited \ s.stack
    BY <2>2, <2>5 DEF Sorted
  <2>8. ToSet(t) = {t[i] : i \in 1 .. Len(t)} /\ ToSet(u) = {u[i] : i \in 1 .. Len(u)}
    BY <2>6 DEF ToSet
  <2>9. ToSet(u) = ToSet(t) \cup {id}
    <3>1. ASSUME NEW x PROVE x \in ToSet(u) <=> x \in ToSet(t) \/ x = id
      <4>1. x \in ToSet(u) <=> \E i \in 1 .. (Len(t) + 1) : x = u[i]
        BY <2>6, <2>8
      <4>2. (\E i \in 1 .. (Len(t) + 1) : x = u[i]) <=> (\E i \in 1 .. Len(t) : x = t[i]) \/ x = id
        BY <2>6
      <4>3. QED
        BY <2>8, <4>1, <4>2
    <3>2. QED
      BY <3>1
  <2>10. ToSet(u) = r.visited \ r.stack
    BY <2>1, <2>2, <2>3, <2>4, <2>7, <2>9
  <2>17. InOrder(t)
    BY <2>2, <2>5 DEF Sorted
  <2>11. \A i, j \in 1 .. Len(u) : i # j => u[i] # u[j]
    <3>1. \A i \in 1 .. Len(t) : t[i] # id
      BY <2>2, <2>7, <2>8
    <3>2. \A i, j \in 1 .. Len(t) : i # j => t[i] # t[j]
      BY <2>17 DEF InOrder
    <3>3. \A i \in 1 .. Len(u) : i \in 1 .. Len(t) \/ i = Len(t) + 1
      BY <2>6
    <3>4. QED
      BY <2>6, <3>1, <3>2, <3>3
  <2>12. ASSUME NEW i \in 1 .. Len(u)
         PROVE  ToSet(edges[u[i]]) \subseteq {u[j] : j \in 1 .. (i - 1)}
    <3>1. CASE i = Len(t) + 1
      <4>1. ToSet(q) \subseteq ToSet(t)
        BY <2>2, <2>7 DEF ToSet
      <4>2. {u[j] : j \in 1 .. (i - 1)} = {t[j] : j \in 1 .. Len(t)}
        BY <2>6, <3>1
      <4>3. QED
        BY <2>6, <2>8, <3>1, <4>1, <4>2
    <3>2. CASE i # Len(t) + 1
      <4>1. i \in 1 .. Len(t) /\ u[i] = t[i]
        BY <2>6, <3>2
      <4>2. ToSet(edges[t[i]]) \subseteq {t[j] : j \in 1 .. (i - 1)}
        BY <2>17, <4>1 DEF InOrder
      <4>3. \A j \in 1 .. (i - 1) : u[j] = t[j]
        BY <2>6, <4>1
      <4>4. QED
        BY <4>1, <4>2, <4>3
    <3>3. QED
      BY <3>1, <3>2
  <2>18. InOrder(u)
    BY <2>11, <2>12 DEF InOrder
  <2>13. Sorted(r)
    BY <2>1, <2>3, <2>4, <2>5, <2>10, <2>18 DEF Sorted
  <2>14. r.visited \subseteq st.visited \cup Tree(id)
    BY <2>1 DEF Within
  <2>15. id \in r.visited \ r.stack
    BY <2>1, <2>3, <2>4
  <2>16. QED
    BY <1>2, <2>1, <2>4, <2>13, <2>14, <2>15 DEF Met
<1>3. QED
  BY <1>1, <1>2

\* Every call that is made when it may be gives what it should.
LEMMA DfsMeets ==
    ASSUME edges \in EdgeMap, NEW f, Calls(f)
    PROVE  \A st \in Marks, id \in TaskIds : Ready(id, st) => Met(id, st, f[id][st])
<1> DEFINE S == {n \in Nat : \A st \in Marks, id \in TaskIds :
                               Fewer(st, n) /\ Ready(id, st) => Met(id, st, f[id][st])}
<1>0. \A n \in Nat : Grows(f, n)
  BY CallsGrow
<1>1. 0 \in S
  <2>1. ASSUME NEW st \in Marks PROVE ~Fewer(st, 0)
    <3>1. Cardinality(TaskIds \ st.visited) \in Nat
      BY TaskAssumption, FS_Difference, FS_CardinalityType
    <3>2. QED
      BY <3>1 DEF Fewer
  <2>2. QED
    BY <2>1
<1>2. ASSUME NEW n \in Nat, n \in S PROVE n + 1 \in S
  <2> SUFFICES ASSUME NEW st \in Marks, NEW id \in TaskIds, Fewer(st, n + 1), Ready(id, st)
               PROVE  Met(id, st, f[id][st])
    OBVIOUS
  <2>1. PICK r : r = f[id][st]
    OBVIOUS
  <2>2. r = DfsBody(f, id, st)
    BY <2>1 DEF Calls
  <2>3. CASE id \in st.stack
    <3>1. r.ok = FALSE /\ r.visited = st.visited
      BY <2>2, <2>3, FailedIs DEF DfsBody
    <3>2. Path(id, id)
      BY <2>3 DEF Ready
    <3>3. Cycle(id)
      BY <3>2 DEF Cycle, Tree
    <3>4. QED
      BY <2>1, <3>1, <3>3 DEF Met
  <2>4. CASE id \notin st.stack /\ id \in st.visited
    <3>1. r = st
      BY <2>2, <2>4 DEF DfsBody
    <3>2. QED
      BY <2>1, <2>4, <3>1 DEF Met, Ready
  <2>5. CASE id \notin st.stack /\ id \notin st.visited
    <3>1. PICK U, base, q : U = After(st, id) /\ base = Entered(st, id) /\ q = edges[id]
      OBVIOUS
    <3>2. base \in U /\ \A s \in U, x \in TaskIds : Fewer(s, n) /\ f[x][s] \in U
      BY <1>0, <2>5, <3>1, AfterSteps
    <3>3. q \in Seq(TaskIds) /\ Len(q) \in Nat
      BY <3>1 DEF EdgeMap
    <3>4. PICK tr : LoopSteps(f, base, q, U, tr) /\ Loop(f, base, q) = tr[Len(q)]
      BY <3>2, <3>3, LoopTrace
    <3>5. \A k \in 0 .. Len(q) : tr[k] \in U /\ tr[k] \in Marks
      BY <3>1, <3>4 DEF LoopSteps, After
    <3> DEFINE T == {k \in Nat : k <= Len(q) => Within(id, st, q, k, tr[k])}
    <3>6. 0 \in T
      BY <2>5, <3>1, <3>4, WithinFirst DEF LoopSteps
    <3>7. ASSUME NEW k \in Nat, k \in T PROVE k + 1 \in T
      <4> SUFFICES ASSUME k + 1 <= Len(q) PROVE Within(id, st, q, k + 1, tr[k + 1])
        OBVIOUS
      <4>1. PICK s, t, d : s = tr[k] /\ t = tr[k + 1] /\ d = q[k + 1]
        OBVIOUS
      <4>2. d \in TaskIds /\ s \in U /\ s \in Marks /\ t \in Marks
        BY <3>3, <3>5, <4>1
      <4>3. t = IF s.ok THEN f[d][s] ELSE s
        <5>1. k + 1 \in 1 .. Len(q) /\ k + 1 - 1 = k
          BY <3>3
        <5>2. QED
          BY <3>4, <4>1, <5>1 DEF LoopSteps
      <4>4. Within(id, st, q, k, s)
        BY <3>3, <3>7, <4>1
      <4>5. Fewer(s, n)
        BY <3>2, <4>2
      <4>6. s.visited \subseteq f[d][s].visited
        BY <1>0, <4>2, <4>5 DEF Grows
      <4>7. Ready(d, s) => Met(d, s, f[d][s])
        BY <1>2, <4>2, <4>5
      <4>8. Within(id, st, q, k + 1, t)
        BY <2>5, <3>1, <3>3, <4>1, <4>2, <4>3, <4>4, <4>6, <4>7, WithinNext
      <4>9. QED
        BY <4>1, <4>8
    <3>8. Len(q) \in T
      <4> HIDE DEF T
      <4>1. QED
        BY <3>3, <3>6, <3>7, NatInduct
    <3>9. PICK s : s = tr[Len(q)]
      OBVIOUS
    <3>10. s \in Marks /\ st.visited \cup {id} \subseteq s.visited
      BY <3>1, <3>3, <3>5, <3>9 DEF After
    <3>11. r = IF s.ok THEN Left(s, id) ELSE s
      BY <2>2, <2>5, <3>1, <3>4, <3>9 DEF DfsBody
    <3>12. Within(id, st, q, Len(q), s)
      BY <3>3, <3>8, <3>9
    <3>13. Met(id, st, r)
      BY <2>5, <3>1, <3>3, <3>10, <3>11, <3>12, WithinLast
    <3>14. QED
      BY <2>1, <3>13
  <2>6. QED
    BY <2>3, <2>4, <2>5
<1>3. PICK n \in Nat : \A st \in Marks : Fewer(st, n)
  BY FewerAll
<1>4. n \in S
  <2> HIDE DEF S
  <2>1. QED
    BY <1>1, <1>2, NatInduct
<1>5. QED
  BY <1>3, <1>4

-----------------------------------------------------------------------------
(* The walk over all tasks                                                 *)

NoMarks == [ok |-> TRUE, visited |-> {}, stack |-> {}, result |-> << >>]

Seen == tasks \cup {b \in TaskIds : \E a \in tasks : Path(a, b)}

Cyclic == \E id \in Seen : Path(id, id)

\* The walk ends with all that it gets to in order, or with a cycle.
LEMMA WalkFinds ==
    ASSUME edges \in EdgeMap, tasks \in SUBSET TaskIds, NEW order \in Seq(tasks), ToSet(order) = tasks
    PROVE  /\ Walk(order) \in Marks
           /\ Walk(order).ok => /\ InOrder(Walk(order).result)
                                /\ ToSet(Walk(order).result) = Walk(order).visited
                                /\ tasks \subseteq Walk(order).visited
                                /\ Walk(order).visited \subseteq Seen
           /\ ~Walk(order).ok => Cyclic
<1>1. PICK f : f = Dfs
  OBVIOUS
<1>2. Calls(f)
  BY <1>1, DfsIs, CallsExist
<1>3. Walk(order) = Loop(f, NoMarks, order)
  BY <1>1 DEF Walk, Loop, NoMarks
<1>4. \A st \in Marks, id \in TaskIds : Ready(id, st) => Met(id, st, f[id][st])
  BY <1>2, DfsMeets
<1>5. \A st \in Marks, id \in TaskIds : f[id][st] \in Marks /\ st.visited \subseteq f[id][st].visited
  <2>1. \A n \in Nat : Grows(f, n)
    BY <1>2, CallsGrow
  <2>2. PICK n \in Nat : \A st \in Marks : Fewer(st, n)
    BY FewerAll
  <2>3. QED
    BY <2>1, <2>2 DEF Grows
<1>6. NoMarks \in Marks
  BY DEF NoMarks, Marks
<1>7. order \in Seq(TaskIds) /\ Len(order) \in Nat /\ \A k \in 1 .. Len(order) : order[k] \in tasks
  OBVIOUS
<1>8. PICK tr : LoopSteps(f, NoMarks, order, Marks, tr) /\ Loop(f, NoMarks, order) = tr[Len(order)]
  BY <1>5, <1>6, <1>7, LoopTrace
<1> DEFINE At(k, s) == /\ s.visited \subseteq Seen
                       /\ s.ok => /\ Sorted(s) /\ s.stack = {}
                                  /\ \A j \in 1 .. k : order[j] \in s.visited
                       /\ ~s.ok => Cyclic
           S == {k \in Nat : k <= Len(order) => At(k, tr[k])}
<1>9. 0 \in S
  <2>1. tr[0] = NoMarks
    BY <1>8 DEF LoopSteps
  <2>2. InOrder(<< >>) /\ ToSet(<< >>) = {}
    BY DEF InOrder, ToSet
  <2>3. At(0, NoMarks)
    BY <2>2 DEF NoMarks, Sorted
  <2>4. QED
    BY <2>1, <2>3
<1>10. ASSUME NEW k \in Nat, k \in S PROVE k + 1 \in S
  <2> SUFFICES ASSUME k + 1 <= Len(order) PROVE At(k + 1, tr[k + 1])
    OBVIOUS
  <2>1. PICK s, t, d : s = tr[k] /\ t = tr[k + 1] /\ d = order[k + 1]
    OBVIOUS
  <2>2. d \in TaskIds /\ d \in tasks /\ s \in Marks /\ t \in Marks
    <3>1. tr \in [0 .. Len(order) -> Marks]
      BY <1>8 DEF LoopSteps
    <3>2. k \in 0 .. Len(order) /\ k + 1 \in 0 .. Len(order) /\ k + 1 \in 1 .. Len(order)
      BY <1>7
    <3>3. tr[k] \in Marks /\ tr[k + 1] \in Marks
      BY <3>1, <3>2
    <3>4. order[k + 1] \in TaskIds /\ order[k + 1] \in tasks
      BY <1>7, <3>2
    <3>5. QED
      BY <2>1, <3>3, <3>4
  <2>3. t = IF s.ok THEN f[d][s] ELSE s
    <3>1. k + 1 \in 1 .. Len(order) /\ k + 1 - 1 = k
      BY <1>7
    <3>2. \A i \in 1 .. Len(order) : tr[i] = IF tr[i - 1].ok THEN f[order[i]][tr[i - 1]] ELSE tr[i - 1]
      BY <1>8 DEF LoopSteps
    <3>3. tr[k + 1] = IF tr[k].ok THEN f[order[k + 1]][tr[k]] ELSE tr[k]
      BY <3>1, <3>2
    <3>4. QED
      BY <2>1, <3>3
  <2>4. At(k, s)
    BY <1>7, <1>10, <2>1
  <2>5. CASE ~s.ok
    BY <2>1, <2>3, <2>4, <2>5
  <2>6. CASE s.ok
    <3>1. Sorted(s) /\ s.stack = {} /\ \A j \in 1 .. k : order[j] \in s.visited
      BY <2>4, <2>6
    <3>2. Ready(d, s)
      BY <2>6, <3>1 DEF Ready
    <3>3. Met(d, s, t) /\ s.visited \subseteq t.visited
      BY <1>4, <1>5, <2>2, <2>3, <2>6, <3>2
    <3>4. Tree(d) \subseteq Seen
      BY <2>2 DEF Tree, Seen
    <3>5. t.visited \subseteq Seen
      BY <2>4, <3>3, <3>4 DEF Met
    <3>6. ~t.ok => Cyclic
      BY <3>3, <3>4 DEF Met, Cycle, Cyclic
    <3>7. ASSUME t.ok
          PROVE  Sorted(t) /\ t.stack = {} /\ \A j \in 1 .. (k + 1) : order[j] \in t.visited
      <4>1. Sorted(t) /\ t.stack = {} /\ d \in t.visited
        BY <3>1, <3>3, <3>7 DEF Met
      <4>2. ASSUME NEW j \in 1 .. (k + 1) PROVE order[j] \in t.visited
        <5>1. CASE j = k + 1
          BY <2>1, <4>1, <5>1
        <5>2. CASE j # k + 1
          <6>1. j \in 1 .. k
            BY <5>2
          <6>2. QED
            BY <3>1, <3>3, <6>1
        <5>3. QED
          BY <5>1, <5>2
      <4>3. QED
        BY <4>1, <4>2
    <3>8. QED
      BY <2>1, <3>5, <3>6, <3>7
  <2>7. QED
    BY <2>5, <2>6
<1>11. Len(order) \in S
  <2> HIDE DEF S
  <2>1. QED
    BY <1>7, <1>9, <1>10, NatInduct
<1>12. PICK w : w = Walk(order)
  OBVIOUS
<1>13. w = tr[Len(order)] /\ w \in Marks
  BY <1>3, <1>7, <1>8, <1>12 DEF LoopSteps
<1>14. At(Len(order), w)
  BY <1>7, <1>11, <1>13
<1>15. ASSUME w.ok PROVE InOrder(w.result) /\ ToSet(w.result) = w.visited /\ tasks \subseteq w.visited
  <2>1. Sorted(w) /\ w.stack = {} /\ \A j \in 1 .. Len(order) : order[j] \in w.visited
    BY <1>14, <1>15
  <2>2. tasks \subseteq w.visited
    BY <1>7, <2>1 DEF ToSet
  <2>3. QED
    BY <2>1, <2>2 DEF Sorted
<1>16. QED
  BY <1>12, <1>13, <1>14, <1>15

\* What is in order has no path back.
LEMMA InOrderPath ==
    ASSUME edges \in EdgeMap, NEW t \in Seq(TaskIds), InOrder(t),
           NEW i \in 1 .. Len(t), NEW b \in TaskIds, Path(t[i], b)
    PROVE  \E j \in 1 .. (i - 1) : b = t[j]
<1> DEFINE S == {t[j] : j \in 1 .. (i - 1)}
<1>1. S \in SUBSET TaskIds
  OBVIOUS
<1>2. ToSet(edges[t[i]]) \subseteq S
  BY DEF InOrder
<1>3. ASSUME NEW x \in S PROVE ToSet(edges[x]) \subseteq S
  <2>1. PICK j \in 1 .. (i - 1) : x = t[j]
    OBVIOUS
  <2>5. j \in 1 .. Len(t)
    OBVIOUS
  <2>2. ToSet(edges[x]) \subseteq {t[k] : k \in 1 .. (j - 1)}
    BY <2>1, <2>5 DEF InOrder
  <2>3. {t[k] : k \in 1 .. (j - 1)} \subseteq S
    BY <2>1
  <2>4. QED
    BY <2>2, <2>3
<1>4. b \in S
  <2> HIDE DEF S
  <2>1. QED
    BY <1>1, <1>2, <1>3 DEF Path
<1>5. QED
  BY <1>4

\* is_dag and topological_sort.
LEMMA SortFinds ==
    ASSUME edges \in EdgeMap, tasks \in SUBSET TaskIds, NEW order \in SetToSeqs(tasks),
           NEW sorted, sorted = TopologicalSort(order)
    PROVE  /\ IsDag(order) <=> ~Cyclic
           /\ ToSet(sorted) = (IF Cyclic THEN {} ELSE Seen)
           /\ \A i, j \in DOMAIN sorted : Path(sorted[i], sorted[j]) => i < j
           /\ Len(sorted) = Cardinality(ToSet(sorted))
<1>1. IsFiniteSet(tasks) /\ Cardinality(tasks) \in Nat
  BY TaskAssumption, FS_Subset, FS_CardinalityType
<1>2. order \in [1 .. Cardinality(tasks) -> tasks]
      /\ \A i, j \in 1 .. Cardinality(tasks) : i # j => order[i] # order[j]
  BY DEF SetToSeqs
<1>3. order \in Seq(tasks)
  BY <1>1, <1>2
<1>4. ToSet(order) = tasks
  <2>1. order \in Injection(1 .. Cardinality(tasks), tasks)
    BY <1>2 DEF Injection, IsInjective
  <2>2. Cardinality(1 .. Cardinality(tasks)) = Cardinality(tasks)
    BY <1>1, FS_Interval
  <2>3. order \in Surjection(1 .. Cardinality(tasks), tasks)
    BY <1>1, <2>1, <2>2, FS_Injection
  <2>4. QED
    BY <1>2, <2>3 DEF Surjection, ToSet
<1>5. PICK w, t : w = Walk(order) /\ t = w.result
  OBVIOUS
<1>6. /\ w \in Marks
      /\ w.ok => /\ InOrder(t) /\ ToSet(t) = w.visited
                 /\ tasks \subseteq w.visited /\ w.visited \subseteq Seen
      /\ ~w.ok => Cyclic
  BY <1>3, <1>4, <1>5, WalkFinds
<1>7. t \in Seq(TaskIds) /\ Len(t) \in Nat /\ w.ok \in BOOLEAN /\ w.visited \in SUBSET TaskIds
  BY <1>5, <1>6, MarksAre
<1>8. ASSUME w.ok PROVE ~Cyclic /\ ToSet(t) = Seen
  <2>1. InOrder(t) /\ ToSet(t) = {t[i] : i \in 1 .. Len(t)}
    BY <1>6, <1>7, <1>8 DEF ToSet
  <2>2. ASSUME NEW x \in ToSet(t), NEW y \in TaskIds, Path(x, y) PROVE y \in ToSet(t)
    <3>1. PICK i \in 1 .. Len(t) : x = t[i]
      BY <2>1
    <3>2. \E j \in 1 .. (i - 1) : y = t[j]
      BY <1>7, <2>1, <2>2, <3>1, InOrderPath
    <3>3. QED
      BY <1>7, <2>1, <3>1, <3>2
  <2>3. Seen \subseteq ToSet(t)
    BY <1>6, <1>8, <2>2 DEF Seen
  <2>4. ToSet(t) = Seen
    BY <1>6, <1>8, <2>3
  <2>5. ASSUME NEW x \in Seen, Path(x, x) PROVE FALSE
    <3>1. PICK i \in 1 .. Len(t) : x = t[i]
      BY <2>1, <2>4
    <3>2. PICK j \in 1 .. (i - 1) : x = t[j]
      BY <1>7, <2>1, <2>5, <3>1, InOrderPath
    <3>3. j \in 1 .. Len(t) /\ j # i
      BY <1>7, <3>1
    <3>4. QED
      BY <2>1, <3>1, <3>2, <3>3 DEF InOrder
  <2>6. QED
    BY <2>4, <2>5 DEF Cyclic
<1>9. IsDag(order) <=> ~Cyclic
  BY <1>5, <1>6, <1>8 DEF IsDag
<1>10. CASE ~w.ok
  <2>1. sorted = << >>
    BY <1>5, <1>10 DEF TopologicalSort
  <2>2. Cyclic
    BY <1>6, <1>10
  <2>3. ToSet(sorted) = {} /\ DOMAIN sorted = {} /\ Len(sorted) = 0
    BY <2>1 DEF ToSet
  <2>4. QED
    BY <1>9, <2>2, <2>3, FS_EmptySet
<1>11. CASE w.ok
  <2>1. sorted = Reverse(t)
    BY <1>5, <1>11 DEF TopologicalSort
  <2> DEFINE n == Len(t)
  <2>2. sorted = [i \in 1 .. n |-> t[(n - i) + 1]]
    BY <2>1 DEF Reverse
  <2>3. /\ DOMAIN sorted = 1 .. n
        /\ \A i \in 1 .. n : (n - i) + 1 \in 1 .. n /\ sorted[i] = t[(n - i) + 1]
    BY <1>7, <2>2
  <2>4. sorted \in [1 .. n -> TaskIds] /\ sorted \in Seq(TaskIds) /\ Len(sorted) = n
    BY <1>7, <2>2
  <2>5. ToSet(sorted) = ToSet(t)
    <3>1. ToSet(t) = {t[i] : i \in 1 .. n} /\ ToSet(sorted) = {sorted[i] : i \in 1 .. n}
      BY <1>7, <2>3 DEF ToSet
    <3>2. \A i \in 1 .. n : t[i] = sorted[(n - i) + 1]
      BY <1>7, <2>3
    <3>3. QED
      BY <2>3, <3>1, <3>2
  <2>6. InOrder(t)
    BY <1>6, <1>11
  <2>7. ASSUME NEW i \in DOMAIN sorted, NEW j \in DOMAIN sorted, Path(sorted[i], sorted[j]) PROVE i < j
    <3>1. PICK a, b : a = (n - i) + 1 /\ b = (n - j) + 1
      OBVIOUS
    <3>2. a \in 1 .. n /\ b \in 1 .. n /\ sorted[i] = t[a] /\ sorted[j] = t[b] /\ t[b] \in TaskIds
      BY <1>7, <2>3, <3>1
    <3>3. PICK c \in 1 .. (a - 1) : t[b] = t[c]
      BY <1>7, <2>6, <2>7, <3>2, InOrderPath
    <3>4. c \in 1 .. n
      BY <1>7, <3>2
    <3>5. b = c
      <4>1. \A x, y \in 1 .. n : x # y => t[x] # t[y]
        BY <2>6 DEF InOrder
      <4>2. t[b] = t[c] /\ b \in 1 .. n
        BY <3>2, <3>3
      <4>3. QED
        BY <3>4, <4>1, <4>2
    <3>6. b < a /\ i \in Int /\ j \in Int /\ n \in Int
      BY <1>7, <2>3, <3>2, <3>3, <3>5
    <3>7. QED
      BY <3>1, <3>6
  <2>8. Len(sorted) = Cardinality(ToSet(sorted))
    <3>1. ASSUME NEW i \in 1 .. n, NEW j \in 1 .. n, i # j PROVE sorted[i] # sorted[j]
      <4>1. PICK a, b : a = (n - i) + 1 /\ b = (n - j) + 1
        OBVIOUS
      <4>2. a \in 1 .. n /\ b \in 1 .. n /\ a # b /\ sorted[i] = t[a] /\ sorted[j] = t[b]
        BY <1>7, <2>3, <3>1, <4>1
      <4>3. QED
        BY <2>6, <4>2 DEF InOrder
    <3>2. sorted \in Bijection(1 .. n, ToSet(sorted))
      BY <2>2, <2>3, <3>1 DEF Bijection, Injection, IsInjective, Surjection, ToSet
    <3>3. ExistsBijection(1 .. n, ToSet(sorted))
      BY <3>2 DEF ExistsBijection
    <3>4. IsFiniteSet(1 .. n) /\ Cardinality(1 .. n) = n
      BY <1>7, FS_Interval
    <3>5. QED
      BY <2>4, <3>3, <3>4, FS_Bijection
  <2>9. QED
    BY <1>8, <1>9, <1>11, <2>5, <2>7, <2>8
<1>12. QED
  BY <1>7, <1>10, <1>11

-----------------------------------------------------------------------------
(* depends_on                                                              *)

\* b is met from the queue through ids that were not visited.
Meets(q, v, b) ==
    \A S \in SUBSET TaskIds :
       ToSet(q) \subseteq S /\ (\A x \in S \ v : ToSet(revEdges[x]) \subseteq S) => b \in S

\* The loop of depends_on, with f for the rest of it.
SearchBody(f, q, v, b) ==
    IF q = << >> THEN FALSE
    ELSE IF Head(q) = b THEN TRUE
    ELSE IF Head(q) \in v THEN f[Tail(q)][v]
    ELSE f[Tail(q) \o revEdges[Head(q)]][v \cup {Head(q)}]

Searches(f, b) ==
    f = [q \in Seq(TaskIds) |-> [v \in SUBSET TaskIds |-> SearchBody(f, q, v, b)]]

\* depends_on is some such function.
LEMMA DependsOnIs ==
    ASSUME NEW a, NEW b
    PROVE  DependsOn(a, b) = (CHOOSE f : Searches(f, b))[revEdges[a]][{}]
BY DEF DependsOn, Searches, SearchBody

\* The members of a queue: h is its head and t its tail.
LEMMA HeadTailSets ==
    ASSUME NEW q \in Seq(TaskIds), q # << >>, NEW h, h = Head(q), NEW t, t = Tail(q)
    PROVE  /\ h \in TaskIds /\ t \in Seq(TaskIds)
           /\ ToSet(q) = {h} \cup ToSet(t)
           /\ Len(q) \in Nat \ {0} /\ Len(t) = Len(q) - 1
<1>1. /\ h = q[1] /\ h \in TaskIds /\ t \in Seq(TaskIds) /\ Len(q) \in Nat \ {0}
      /\ Len(t) = Len(q) - 1 /\ \A i \in 1 .. Len(t) : t[i] = q[i + 1]
  OBVIOUS
<1>2. ToSet(q) = {q[i] : i \in 1 .. Len(q)} /\ ToSet(t) = {t[i] : i \in 1 .. Len(t)}
  <2>1. q \in Seq(TaskIds) /\ t \in Seq(TaskIds)
    BY <1>1
  <2>2. ASSUME NEW s \in Seq(TaskIds) PROVE ToSet(s) = {s[i] : i \in 1 .. Len(s)}
    BY DEF ToSet
  <2>3. QED
    BY <2>1, <2>2, Zenon
<1>3. ASSUME NEW x PROVE x \in ToSet(q) <=> x = h \/ x \in ToSet(t)
  <2>1. ASSUME NEW i \in 1 .. Len(q), x = q[i], i # 1 PROVE x \in ToSet(t)
    <3>1. i - 1 \in 1 .. Len(t) /\ t[i - 1] = q[i]
      BY <1>1, <2>1
    <3>2. QED
      BY <1>2, <2>1, <3>1
  <2>2. ASSUME NEW i \in 1 .. Len(t), x = t[i] PROVE x \in ToSet(q)
    <3>1. i + 1 \in 1 .. Len(q) /\ x = q[i + 1]
      BY <1>1, <2>2
    <3>2. QED
      BY <1>2, <3>1
  <2>3. 1 \in 1 .. Len(q)
    BY <1>1
  <2>4. QED
    BY <1>1, <1>2, <2>1, <2>2, <2>3
<1>4. ToSet(q) = {h} \cup ToSet(t)
  BY <1>3
<1>5. QED
  BY <1>1, <1>4

\* The members of a queue and what is put behind it.
LEMMA JoinedSets ==
    ASSUME NEW s \in Seq(TaskIds), NEW t \in Seq(TaskIds)
    PROVE  s \o t \in Seq(TaskIds) /\ ToSet(s \o t) = ToSet(s) \cup ToSet(t)
<1>1. PICK u : u = s \o t
  OBVIOUS
<1>2. /\ u \in Seq(TaskIds) /\ Len(u) = Len(s) + Len(t) /\ Len(s) \in Nat /\ Len(t) \in Nat
      /\ \A i \in 1 .. Len(s) : u[i] = s[i]
      /\ \A i \in 1 .. Len(t) : u[i + Len(s)] = t[i]
  BY <1>1
<1>3. /\ ToSet(u) = {u[i] : i \in 1 .. Len(u)} /\ ToSet(s) = {s[i] : i \in 1 .. Len(s)}
      /\ ToSet(t) = {t[i] : i \in 1 .. Len(t)}
  BY <1>2 DEF ToSet
<1>4. ASSUME NEW x PROVE x \in ToSet(u) <=> x \in ToSet(s) \/ x \in ToSet(t)
  <2>1. ASSUME NEW i \in 1 .. Len(u), x = u[i] PROVE x \in ToSet(s) \/ x \in ToSet(t)
    <3>1. CASE i <= Len(s)
      BY <1>2, <1>3, <2>1, <3>1
    <3>2. CASE i > Len(s)
      <4>1. i - Len(s) \in 1 .. Len(t) /\ t[i - Len(s)] = u[i]
        BY <1>2, <3>2
      <4>2. QED
        BY <1>3, <2>1, <4>1
    <3>3. QED
      BY <1>2, <3>1, <3>2
  <2>2. ASSUME NEW i \in 1 .. Len(s), x = s[i] PROVE x \in ToSet(u)
    <3>1. i \in 1 .. Len(u) /\ x = u[i]
      BY <1>2, <2>2
    <3>2. QED
      BY <1>3, <3>1
  <2>3. ASSUME NEW i \in 1 .. Len(t), x = t[i] PROVE x \in ToSet(u)
    <3>1. i + Len(s) \in 1 .. Len(u)
      BY <1>2
    <3>2. x = u[i + Len(s)]
      BY <1>2, <2>3
    <3>3. QED
      BY <1>3, <3>1, <3>2
  <2>4. QED
    BY <1>3, <2>1, <2>2, <2>3
<1>5. QED
  BY <1>1, <1>2, <1>4

\* What is met, step by step.
LEMMA MeetsSteps ==
    ASSUME revEdges \in EdgeMap, NEW q \in Seq(TaskIds), NEW v \in SUBSET TaskIds, NEW b \in TaskIds
    PROVE  /\ q = << >> => ~Meets(q, v, b)
           /\ q # << >> /\ Head(q) = b => Meets(q, v, b)
           /\ q # << >> /\ Head(q) # b /\ Head(q) \in v => (Meets(q, v, b) <=> Meets(Tail(q), v, b))
           /\ q # << >> /\ Head(q) # b /\ Head(q) \notin v =>
                (Meets(q, v, b) <=> Meets(Tail(q) \o revEdges[Head(q)], v \cup {Head(q)}, b))
<1>1. ASSUME q = << >> PROVE ~Meets(q, v, b)
  <2>1. ToSet(q) = {}
    BY <1>1 DEF ToSet
  <2>2. ToSet(q) \subseteq {} /\ {} \in SUBSET TaskIds /\ \A x \in {} \ v : ToSet(revEdges[x]) \subseteq {}
    BY <2>1
  <2>3. QED
    BY <2>2 DEF Meets
<1>2. PICK h, t : h = Head(q) /\ t = Tail(q)
  OBVIOUS
<1>7. ASSUME q # << >> PROVE h \in TaskIds /\ t \in Seq(TaskIds) /\ ToSet(q) = {h} \cup ToSet(t)
  <2>1. h \in TaskIds /\ t \in Seq(TaskIds)
    BY <1>2, <1>7, HeadTailSets
  <2>2. ToSet(q) = {h} \cup ToSet(t)
    BY <1>2, <1>7, HeadTailSets
  <2>3. QED
    BY <2>1, <2>2
<1>3. ASSUME q # << >>, Head(q) = b PROVE Meets(q, v, b)
  BY <1>2, <1>3, <1>7 DEF Meets
<1>4. ASSUME q # << >>, Head(q) # b, Head(q) \in v PROVE Meets(q, v, b) <=> Meets(Tail(q), v, b)
  <2>1. PICK A, B : A = ToSet(q) /\ B = ToSet(t)
    OBVIOUS
  <2>2. A = {h} \cup B /\ h \in TaskIds /\ h # b /\ h \in v
    BY <1>2, <1>4, <1>7, <2>1
  <2>3. ASSUME Meets(t, v, b) PROVE Meets(q, v, b)
    BY <2>1, <2>2, <2>3 DEF Meets
  <2>4. ASSUME Meets(q, v, b) PROVE Meets(t, v, b)
    <3> SUFFICES ASSUME NEW S \in SUBSET TaskIds, B \subseteq S,
                        \A x \in S \ v : ToSet(revEdges[x]) \subseteq S
                 PROVE  b \in S
      BY <2>1 DEF Meets
    <3>1. /\ S \cup {h} \in SUBSET TaskIds /\ A \subseteq S \cup {h}
          /\ \A x \in (S \cup {h}) \ v : ToSet(revEdges[x]) \subseteq S \cup {h}
      BY <2>2
    <3>2. b \in S \cup {h}
      BY <2>1, <2>4, <3>1 DEF Meets
    <3>3. QED
      BY <2>2, <3>2
  <2>5. QED
    BY <1>2, <2>3, <2>4
<1>5. ASSUME q # << >>, Head(q) # b, Head(q) \notin v
      PROVE  Meets(q, v, b) <=> Meets(Tail(q) \o revEdges[Head(q)], v \cup {Head(q)}, b)
  <2>1. PICK A, B, C, r : /\ A = ToSet(q) /\ B = ToSet(t)
                          /\ C = ToSet(revEdges[h]) /\ r = t \o revEdges[h]
    OBVIOUS
  <2>2. A = {h} \cup B /\ h \in TaskIds /\ h # b /\ h \notin v
    BY <1>2, <1>5, <1>7, <2>1
  <2>3. ToSet(r) = B \cup C
    BY <1>5, <1>7, <2>1, <2>2, JoinedSets DEF EdgeMap
  <2>4. ASSUME Meets(r, v \cup {h}, b) PROVE Meets(q, v, b)
    <3> SUFFICES ASSUME NEW S \in SUBSET TaskIds, A \subseteq S,
                        \A x \in S \ v : ToSet(revEdges[x]) \subseteq S
                 PROVE  b \in S
      BY <2>1 DEF Meets
    <3>1. C \subseteq S
      BY <2>1, <2>2
    <3>2. B \cup C \subseteq S /\ \A x \in S \ (v \cup {h}) : ToSet(revEdges[x]) \subseteq S
      BY <2>2, <3>1
    <3>3. QED
      BY <2>3, <2>4, <3>2 DEF Meets
  <2>5. ASSUME Meets(q, v, b) PROVE Meets(r, v \cup {h}, b)
    <3> SUFFICES ASSUME NEW S \in SUBSET TaskIds, B \cup C \subseteq S,
                        \A x \in S \ (v \cup {h}) : ToSet(revEdges[x]) \subseteq S
                 PROVE  b \in S
      BY <2>3 DEF Meets
    <3>1. /\ S \cup {h} \in SUBSET TaskIds /\ A \subseteq S \cup {h}
          /\ \A x \in (S \cup {h}) \ v : ToSet(revEdges[x]) \subseteq S \cup {h}
      BY <2>1, <2>2
    <3>2. b \in S \cup {h}
      BY <2>1, <2>5, <3>1 DEF Meets
    <3>3. QED
      BY <2>2, <3>2
  <2>6. QED
    BY <1>2, <2>1, <2>4, <2>5
<1>6. QED
  BY <1>1, <1>3, <1>4, <1>5

\* The loop ends: what is met is such a function.
LEMMA SearchExists ==
    ASSUME revEdges \in EdgeMap, NEW b \in TaskIds
    PROVE  \E f : Searches(f, b)
<1> DEFINE f == [q \in Seq(TaskIds) |-> [v \in SUBSET TaskIds |-> Meets(q, v, b)]]
<1>1. \A q \in Seq(TaskIds), v \in SUBSET TaskIds : f[q][v] = Meets(q, v, b)
  OBVIOUS
<1>2. ASSUME NEW q \in Seq(TaskIds), NEW v \in SUBSET TaskIds
      PROVE  SearchBody(f, q, v, b) = Meets(q, v, b)
  <2>1. Meets(q, v, b) \in BOOLEAN
    BY DEF Meets
  <2>2. CASE q = << >>
    BY <2>1, <2>2, MeetsSteps DEF SearchBody
  <2>3. CASE q # << >> /\ Head(q) = b
    BY <2>1, <2>3, MeetsSteps DEF SearchBody
  <2>4. CASE q # << >> /\ Head(q) # b /\ Head(q) \in v
    <3>6. Tail(q) \in Seq(TaskIds)
      BY <2>4
    <3>1. f[Tail(q)][v] = Meets(Tail(q), v, b)
      BY <1>1, <3>6
    <3>2. Meets(Tail(q), v, b) \in BOOLEAN
      BY DEF Meets
    <3>3. Meets(q, v, b) <=> Meets(Tail(q), v, b)
      BY <2>4, MeetsSteps
    <3> HIDE DEF f
    <3>4. SearchBody(f, q, v, b) = f[Tail(q)][v]
      BY <2>4 DEF SearchBody
    <3>5. QED
      BY <2>1, <3>1, <3>2, <3>3, <3>4
  <2>5. CASE q # << >> /\ Head(q) # b /\ Head(q) \notin v
    <3>1. PICK r, w : r = Tail(q) \o revEdges[Head(q)] /\ w = v \cup {Head(q)}
      OBVIOUS
    <3>2. r \in Seq(TaskIds) /\ w \in SUBSET TaskIds
      <4>1. Head(q) \in TaskIds /\ Tail(q) \in Seq(TaskIds)
        BY <2>5
      <4>2. revEdges[Head(q)] \in Seq(TaskIds)
        BY <4>1 DEF EdgeMap
      <4>3. QED
        BY <3>1, <4>1, <4>2
    <3>3. f[r][w] = Meets(r, w, b)
      BY <1>1, <3>2
    <3>4. Meets(r, w, b) \in BOOLEAN
      BY DEF Meets
    <3>5. Meets(q, v, b) <=> Meets(r, w, b)
      BY <2>5, <3>1, MeetsSteps
    <3> HIDE DEF f
    <3>6. SearchBody(f, q, v, b) = f[r][w]
      BY <2>5, <3>1 DEF SearchBody
    <3>7. QED
      BY <2>1, <3>3, <3>4, <3>5, <3>6
  <2>6. QED
    BY <2>2, <2>3, <2>4, <2>5
<1>3. f = [q \in Seq(TaskIds) |-> [v \in SUBSET TaskIds |-> SearchBody(f, q, v, b)]]
  BY <1>2
<1>4. QED
  BY <1>3 DEF Searches

\* One more visited, one fewer left.
LEMMA VisitLeaves ==
    ASSUME NEW v \in SUBSET TaskIds, NEW h \in TaskIds \ v
    PROVE  /\ Cardinality(TaskIds \ v) \in Nat
           /\ Cardinality(TaskIds \ (v \cup {h})) = Cardinality(TaskIds \ v) - 1
<1>1. IsFiniteSet(TaskIds \ v)
  BY TaskAssumption, FS_Difference
<1>2. Cardinality(TaskIds \ v) \in Nat
  BY <1>1, FS_CardinalityType
<1>3. h \in TaskIds \ v
  OBVIOUS
<1>4. Cardinality((TaskIds \ v) \ {h}) = Cardinality(TaskIds \ v) - 1
  BY <1>1, <1>3, FS_RemoveElement
<1>5. (TaskIds \ v) \ {h} = TaskIds \ (v \cup {h})
  OBVIOUS
<1>6. QED
  BY <1>2, <1>4, <1>5

\* Every such function is what is met.
LEMMA SearchMeets ==
    ASSUME revEdges \in EdgeMap, NEW b \in TaskIds, NEW f, Searches(f, b)
    PROVE  \A q \in Seq(TaskIds), v \in SUBSET TaskIds : f[q][v] <=> Meets(q, v, b)
<1>1. \A q \in Seq(TaskIds), v \in SUBSET TaskIds : f[q][v] = SearchBody(f, q, v, b)
  <2> SUFFICES ASSUME NEW q \in Seq(TaskIds) PROVE \A v \in SUBSET TaskIds : f[q][v] = SearchBody(f, q, v, b)
    OBVIOUS
  <2>1. f[q] = [v \in SUBSET TaskIds |-> SearchBody(f, q, v, b)]
    BY Zenon DEF Searches
  <2>2. QED
    BY <2>1, Zenon
<1> DEFINE Right(q, v) == f[q][v] <=> Meets(q, v, b)
           S == {n \in Nat : \A v \in SUBSET TaskIds : Cardinality(TaskIds \ v) < n =>
                                \A q \in Seq(TaskIds) : Right(q, v)}
<1>2. 0 \in S
  <2>1. \A v \in SUBSET TaskIds : Cardinality(TaskIds \ v) \in Nat
    BY TaskAssumption, FS_Difference, FS_CardinalityType
  <2> HIDE DEF Right
  <2>2. \A v \in SUBSET TaskIds : ~(Cardinality(TaskIds \ v) < 0)
    BY <2>1
  <2>3. QED
    BY <2>2
<1>3. ASSUME NEW n \in Nat, n \in S PROVE n + 1 \in S
  <2> SUFFICES ASSUME NEW v \in SUBSET TaskIds, Cardinality(TaskIds \ v) < n + 1
               PROVE  \A q \in Seq(TaskIds) : Right(q, v)
    OBVIOUS
  <2> DEFINE L == {k \in Nat : \A q \in Seq(TaskIds) : Len(q) = k => Right(q, v)}
  <2>1. ASSUME NEW q \in Seq(TaskIds), q # << >>, Head(q) # b, Head(q) \notin v
        PROVE  Right(q, v)
    <3>1. PICK h, r, w : h = Head(q) /\ r = Tail(q) \o revEdges[h] /\ w = v \cup {h}
      OBVIOUS
    <3>2. h \in TaskIds /\ Tail(q) \in Seq(TaskIds)
      BY <2>1, <3>1
    <3>3. revEdges[h] \in Seq(TaskIds)
      BY <3>2 DEF EdgeMap
    <3>4. r \in Seq(TaskIds) /\ w \in SUBSET TaskIds
      BY <3>1, <3>2, <3>3
    <3>5. Cardinality(TaskIds \ w) < n
      BY <2>1, <3>1, <3>2, VisitLeaves
    <3>6. Right(r, w)
      BY <1>3, <3>4, <3>5
    <3>7. f[q][v] = f[r][w]
      BY <1>1, <2>1, <3>1 DEF SearchBody
    <3>8. Meets(q, v, b) <=> Meets(r, w, b)
      BY <2>1, <3>1, MeetsSteps
    <3>9. QED
      BY <3>6, <3>7, <3>8
  <2>2. 0 \in L
    <3>1. ASSUME NEW q \in Seq(TaskIds), Len(q) = 0 PROVE Right(q, v)
      <4>1. q = << >>
        BY <3>1
      <4>2. f[q][v] = FALSE
        BY <1>1, <4>1 DEF SearchBody
      <4>3. ~Meets(q, v, b)
        BY <4>1, MeetsSteps
      <4>4. QED
        BY <4>2, <4>3
    <3>2. QED
      BY <3>1
  <2>3. ASSUME NEW k \in Nat, k \in L PROVE k + 1 \in L
    <3>1. ASSUME NEW q \in Seq(TaskIds), Len(q) = k + 1 PROVE Right(q, v)
      <4>1. q # << >>
        BY <3>1
      <4>2. CASE Head(q) = b
        <5>1. f[q][v] = TRUE
          BY <1>1, <4>1, <4>2 DEF SearchBody
        <5>2. Meets(q, v, b)
          BY <4>1, <4>2, MeetsSteps
        <5>3. QED
          BY <5>1, <5>2
      <4>3. CASE Head(q) # b /\ Head(q) \in v
        <5>1. PICK t : t = Tail(q)
          OBVIOUS
        <5>2. t \in Seq(TaskIds) /\ Len(t) = k
          BY <3>1, <4>1, <5>1
        <5>3. Right(t, v)
          BY <2>3, <5>2
        <5>4. f[q][v] = f[t][v]
          BY <1>1, <4>1, <4>3, <5>1 DEF SearchBody
        <5>5. Meets(q, v, b) <=> Meets(t, v, b)
          BY <4>1, <4>3, <5>1, MeetsSteps
        <5>6. QED
          BY <5>3, <5>4, <5>5
      <4>4. CASE Head(q) # b /\ Head(q) \notin v
        BY <2>1, <4>1, <4>4
      <4>5. QED
        BY <4>2, <4>3, <4>4
    <3>2. QED
      BY <3>1
  <2>4. \A k \in Nat : k \in L
    <3> HIDE DEF L
    <3>1. QED
      BY <2>2, <2>3, NatInduct
  <2>5. \A q \in Seq(TaskIds) : Len(q) \in Nat
    OBVIOUS
  <2>6. QED
    BY <2>4, <2>5
<1>4. \A n \in Nat : n \in S
  <2> HIDE DEF S
  <2>1. QED
    BY <1>2, <1>3, NatInduct
<1>5. ASSUME NEW q \in Seq(TaskIds), NEW v \in SUBSET TaskIds PROVE f[q][v] <=> Meets(q, v, b)
  <2>1. Cardinality(TaskIds \ v) \in Nat
    BY TaskAssumption, FS_Difference, FS_CardinalityType
  <2>2. PICK n : n \in Nat /\ Cardinality(TaskIds \ v) < n
    BY <2>1, Cardinality(TaskIds \ v) + 1 \in Nat
  <2>3. n \in S
    BY <1>4, <2>2
  <2>4. Right(q, v)
    <3> HIDE DEF Right
    <3>1. QED
      BY <2>2, <2>3
  <2>5. QED
    BY <2>4
<1>6. QED
  BY <1>5

\* Edge by edge, the two maps are one graph.
LEMMA MirrorEdge ==
    ASSUME edges \in EdgeMap, revEdges \in EdgeMap, Mirrored(edges, revEdges),
           NEW x \in TaskIds, NEW y \in TaskIds
    PROVE  y \in ToSet(edges[x]) <=> x \in ToSet(revEdges[y])
<1>1. PICK s, t : s = edges[x] /\ t = revEdges[y]
  OBVIOUS
<1>2. s \in Seq(TaskIds) /\ t \in Seq(TaskIds)
  BY <1>1 DEF EdgeMap
<1>3. Count(s, y) = Count(t, x)
  BY <1>1 DEF Mirrored
<1>4. (Count(s, y) > 0 <=> y \in ToSet(s)) /\ (Count(t, x) > 0 <=> x \in ToSet(t))
  BY <1>2, CountPositive
<1>5. QED
  BY <1>1, <1>3, <1>4

\* Backwards from a, b is met when there is a path from b to a.
LEMMA PathBack ==
    ASSUME edges \in EdgeMap, revEdges \in EdgeMap, Mirrored(edges, revEdges),
           NEW a \in TaskIds, NEW b \in TaskIds
    PROVE  Meets(revEdges[a], {}, b) <=> Path(b, a)
<1>1. \A x, y \in TaskIds : y \in ToSet(edges[x]) <=> x \in ToSet(revEdges[y])
  BY MirrorEdge
<1>2. \A x \in TaskIds : ToSet(edges[x]) \subseteq TaskIds /\ ToSet(revEdges[x]) \subseteq TaskIds
  <2>1. ASSUME NEW s \in Seq(TaskIds) PROVE ToSet(s) \subseteq TaskIds
    BY DEF ToSet
  <2>2. QED
    BY <2>1 DEF EdgeMap
<1>3. ASSUME Path(b, a) PROVE Meets(revEdges[a], {}, b)
  <2> SUFFICES ASSUME NEW S \in SUBSET TaskIds, ToSet(revEdges[a]) \subseteq S,
                      \A x \in S \ {} : ToSet(revEdges[x]) \subseteq S, b \notin S
               PROVE  FALSE
    BY DEF Meets
  <2> DEFINE T == TaskIds \ (S \cup {a})
  <2>1. \A x \in TaskIds : \A y \in ToSet(edges[x]) : x \notin S => y \in T
    BY <1>1, <1>2
  <2>2. ToSet(edges[b]) \subseteq T /\ (\A x \in T : ToSet(edges[x]) \subseteq T) /\ T \in SUBSET TaskIds
    BY <2>1
  <2>3. a \in T
    BY <1>3, <2>2 DEF Path
  <2>4. QED
    BY <2>3
<1>4. ASSUME Meets(revEdges[a], {}, b) PROVE Path(b, a)
  <2> SUFFICES ASSUME NEW S \in SUBSET TaskIds, ToSet(edges[b]) \subseteq S,
                      \A x \in S : ToSet(edges[x]) \subseteq S, a \notin S
               PROVE  FALSE
    BY DEF Path
  <2> DEFINE T == TaskIds \ (S \cup {b})
  <2>1. \A y \in TaskIds : \A x \in ToSet(revEdges[y]) : y \notin S => x \in T
    BY <1>1, <1>2
  <2>2. /\ ToSet(revEdges[a]) \subseteq T /\ T \in SUBSET TaskIds
        /\ \A x \in T \ {} : ToSet(revEdges[x]) \subseteq T
    BY <2>1
  <2>3. b \in T
    BY <1>4, <2>2 DEF Meets
  <2>4. QED
    BY <2>3
<1>5. QED
  BY <1>3, <1>4

\* depends_on is reachability.
LEMMA DependsOnFinds ==
    ASSUME edges \in EdgeMap, revEdges \in EdgeMap, Mirrored(edges, revEdges),
           NEW a \in TaskIds, NEW b \in TaskIds
    PROVE  DependsOn(a, b) <=> Path(b, a)
<1>1. PICK f : f = CHOOSE g : Searches(g, b)
  OBVIOUS
<1>2. Searches(f, b)
  BY <1>1, SearchExists
<1>3. revEdges[a] \in Seq(TaskIds) /\ {} \in SUBSET TaskIds
  BY DEF EdgeMap
<1>4. f[revEdges[a]][{}] <=> Meets(revEdges[a], {}, b)
  BY <1>2, <1>3, SearchMeets
<1>5. DependsOn(a, b) = f[revEdges[a]][{}]
  BY <1>1, DependsOnIs
<1>6. QED
  BY <1>4, <1>5, PathBack

-----------------------------------------------------------------------------
\* is_valid: no cycle, no edge that dangles, and no entry without its task.
LEMMA ValidFinds ==
    ASSUME EdgeInv, tasks \subseteq TaskIds, NEW order
    PROVE  IsValid(order) <=> IsDag(order) /\ ~Dangling /\ keys \subseteq tasks
<1>1. ASSUME NEW f \in TaskIds
      PROVE  f \in tasks /\ ToSet(edges[f]) \subseteq tasks <=> ({f} \cup ToSet(edges[f])) \ tasks = {}
  OBVIOUS
<1>2. ASSUME NEW f \in TaskIds, edges[f] # << >>
      PROVE  f \in keys
  <2>1. edges[f] \in Seq(TaskIds)
    BY DEF EdgeInv, EdgeOK, EdgeMap
  <2>2. edges[f][1] \in ToSet(edges[f]) /\ ToSet(edges[f]) \subseteq TaskIds
    BY <1>2, <2>1 DEF ToSet
  <2>3. Count(edges[f], edges[f][1]) > 0
    BY <2>1, <2>2, CountPositive
  <2>4. QED
    BY <2>2, <2>3 DEF EdgeInv, KeysOK
<1>3. ASSUME NEW f \in TaskIds, edges[f] = << >>
      PROVE  ToSet(edges[f]) = {}
  BY <1>3 DEF ToSet
<1>4. ASSUME IsValid(order) PROVE ~Dangling /\ keys \subseteq tasks
  BY <1>1, <1>2, <1>4 DEF IsValid, Dangling
<1>5. ASSUME ~Dangling, keys \subseteq tasks, NEW f \in keys
      PROVE  f \in tasks /\ ToSet(edges[f]) \subseteq tasks
  BY <1>1, <1>3, <1>5 DEF Dangling
<1>6. QED
  BY <1>4, <1>5 DEF IsValid

\* The queries on edge maps that are one graph.
LEMMA GraphSound ==
    ASSUME EdgeInv, tasks \subseteq TaskIds
    PROVE  GraphConsistent
<1>1. edges \in EdgeMap /\ revEdges \in EdgeMap /\ Mirrored(edges, revEdges)
  BY DEF EdgeInv, EdgeOK
<1>2. \A a, b \in TaskIds : DependsOn(a, b) <=> Path(b, a)
  BY <1>1, DependsOnFinds
<1>3. ASSUME NEW order \in SetToSeqs(tasks), NEW sorted, sorted = TopologicalSort(order)
      PROVE  /\ IsDag(order) <=> ~Cyclic
             /\ IsValid(order) => ~Cyclic /\ ~Dangling
             /\ ~Cyclic /\ ~Dangling => IsValid(order) \/ keys \ tasks # {}
             /\ ToSet(sorted) = (IF Cyclic THEN {} ELSE Seen)
             /\ \A i, j \in DOMAIN sorted : Path(sorted[i], sorted[j]) => i < j
             /\ Len(sorted) = Cardinality(ToSet(sorted))
  <2>1. IsDag(order) <=> ~Cyclic
    BY <1>1, <1>3, SortFinds
  <2>2. /\ IsValid(order) => ~Cyclic /\ ~Dangling
        /\ ~Cyclic /\ ~Dangling => IsValid(order) \/ keys \ tasks # {}
    BY <2>1, ValidFinds
  <2>3. /\ ToSet(sorted) = (IF Cyclic THEN {} ELSE Seen)
        /\ \A i, j \in DOMAIN sorted : Path(sorted[i], sorted[j]) => i < j
        /\ Len(sorted) = Cardinality(ToSet(sorted))
    BY <1>1, <1>3, SortFinds
  <2>4. QED
    BY <2>1, <2>2, <2>3
<1>4. Cyclic <=> \E id \in tasks \cup {b \in TaskIds : \E a \in tasks : Path(a, b)} : Path(id, id)
  BY DEF Cyclic, Seen
<1>5. QED
  BY <1>2, <1>3, <1>4, EdgeInvSound DEF GraphConsistent, Seen

\* Only tasks that add_task was given are in tasks_.
LEMMA TasksStep ==
    ASSUME part = "task graph" => tasks \subseteq TaskIds, [Next]_vars
    PROVE  (part = "task graph" => tasks \subseteq TaskIds)'
<1>1. part' = part
  BY DEF Next, RestOf, vars
<1>2. SUFFICES ASSUME part = "task graph" PROVE tasks' \subseteq TaskIds
  BY <1>1
<1>3. GraphNext \/ UNCHANGED tgVars
  BY <1>2 DEF Next, RestOf, vars
<1>4. CASE UNCHANGED tgVars
  BY <1>2, <1>4 DEF tgVars
<1>5. CASE GraphNext
  BY <1>2, <1>5 DEF GraphNext, ClearGraph, AddTask, RemoveTask, AddEdge, AddEdges
<1>6. QED
  BY <1>3, <1>4, <1>5

\* After any edits of a TaskGraph its queries tell the truth: is_dag is false
\* exactly when a walk from the tasks meets a cycle, topological_sort answers, in
\* whatever order it walks tasks_, with each reachable id once and before what
\* depends on it, depends_on is reachability, and is_valid passes no graph with a
\* cycle or an edge that dangles, and refuses another one only for an entry of edges_
\* whose id is no task, which a build with asserts never has.
THEOREM TaskGraphKept == Spec => []GraphKept
<1>1. Init => (part = "task graph" => EdgeInv) /\ (part = "task graph" => tasks \subseteq TaskIds)
  BY NoEdgesOK DEF Init, GraphInit, EdgeInv
<1>2. (part = "task graph" => EdgeInv) /\ (part = "task graph" => tasks \subseteq TaskIds) => GraphKept
  BY GraphSound DEF GraphKept
<1>3. QED
  BY <1>1, <1>2, EdgeInvStep, TasksStep, PTL DEF Spec

-----------------------------------------------------------------------------
(* Sums, maxima and products over finite sets, as the models take them.    *)

Modes == {"sum", "max", "prod"}

\* What a reduction does with two values, what it starts from, and what it holds.
Join(m, x, y) == IF m = "sum" THEN x + y ELSE IF m = "prod" THEN x * y ELSE IF x > y THEN x ELSE y

Unit(m) == IF m = "sum" THEN 0 ELSE IF m = "prod" THEN 1 ELSE NegInf

Vals(m) == IF m = "max" THEN {x \in Int : x >= NegInf} ELSE Int

ProductOf(f, S) == FoldFunctionOnSet(LAMBDA x, y : x * y, 1, f, S)

Fold(m, f, S) == IF m = "sum" THEN SumOf(f, S) ELSE IF m = "prod" THEN ProductOf(f, S) ELSE MaxOf(f, S)

\* The member that is taken first.
Some(s) == CHOOSE x \in s : TRUE

\* g gives the reduction of f over each subset of S.
Reduces(g, m, f, S) ==
    g = [s \in SUBSET S |-> IF s = {} THEN Unit(m) ELSE Join(m, f[Some(s)], g[s \ {Some(s)}])]

\* Induction over a finite set, in the form of a family of sets.
LEMMA SetInduct ==
    ASSUME NEW S, IsFiniteSet(S), NEW B, {} \in B,
           \A T \in SUBSET S, x \in S : T \in B /\ x \notin T => T \cup {x} \in B
    PROVE  S \in B
<1> DEFINE C == {W \in SUBSET S : W \notin B}
<1> SUFFICES ASSUME C # {} PROVE FALSE
  OBVIOUS
<1>1. PICK T \in C : \A W \in C : W \subseteq T => W = T
  <2>1. C \in SUBSET (SUBSET S)
    OBVIOUS
  <2> HIDE DEF C
  <2>2. QED
    BY <2>1, SubsetMin
<1>2. T # {}
  BY <1>1
<1>3. PICK x \in T : TRUE
  BY <1>2
<1>4. T \ {x} \in SUBSET S /\ x \in S /\ x \notin T \ {x} /\ (T \ {x}) \cup {x} = T
  BY <1>1
<1>5. T \ {x} \in B
  BY <1>1, <1>3, <1>4
<1>6. QED
  BY <1>1, <1>4, <1>5

\* What the reductions do with their values.
LEMMA JoinLaws ==
    ASSUME NEW m \in Modes
    PROVE  /\ Unit(m) \in Vals(m) /\ Vals(m) \subseteq Int
           /\ \A x \in Int, y \in Vals(m) : Join(m, x, y) \in Vals(m)
           /\ \A x \in Vals(m) : Join(m, x, Unit(m)) = x /\ Join(m, Unit(m), x) = x
           /\ \A x, y \in Int, z \in Vals(m) : Join(m, x, Join(m, y, z)) = Join(m, y, Join(m, x, z))
           /\ \A x, y, z \in Int : Join(m, Join(m, x, y), z) = Join(m, x, Join(m, y, z))
           /\ \A x, y \in Int : Join(m, x, y) = Join(m, y, x)
BY DEF Modes, Join, Unit, Vals, NegInf

LEMMA SomeIn ==
    ASSUME NEW s, s # {}
    PROVE  Some(s) \in s
BY DEF Some

\* What Reduces says at a set.
LEMMA ReducesAt ==
    ASSUME NEW m, NEW f, NEW S, NEW g, Reduces(g, m, f, S), NEW s \in SUBSET S
    PROVE  /\ s = {} => g[s] = Unit(m)
           /\ s # {} => /\ Some(s) \in s /\ s \ {Some(s)} \in SUBSET S
                        /\ g[s] = Join(m, f[Some(s)], g[s \ {Some(s)}])
<1> DEFINE d(t) == IF t = {} THEN Unit(m) ELSE Join(m, f[Some(t)], g[t \ {Some(t)}])
<1>1. g = [t \in SUBSET S |-> d(t)]
  BY DEF Reduces
<1> HIDE DEF d
<1>2. g[s] = d(s)
  BY <1>1
<1>3. QED
  BY <1>2, SomeIn DEF d

LEMMA ReducesEmpty ==
    ASSUME NEW m, NEW f, NEW S, NEW g, Reduces(g, m, f, S)
    PROVE  g[{}] = Unit(m)
<1> DEFINE d(t) == IF t = {} THEN Unit(m) ELSE Join(m, f[Some(t)], g[t \ {Some(t)}])
<1>1. g = [t \in SUBSET S |-> d(t)]
  BY DEF Reduces
<1>2. d({}) = Unit(m)
  OBVIOUS
<1> HIDE DEF d
<1>3. {} \in SUBSET S
  OBVIOUS
<1>4. QED
  BY <1>1, <1>2, <1>3

\* Two of them agree wherever both are defined, for values that agree there.
LEMMA ReducesAgree ==
    ASSUME NEW m, NEW S, NEW U, NEW f, NEW h, NEW g, NEW k, Reduces(g, m, f, S), Reduces(k, m, h, U),
           NEW V, IsFiniteSet(V), V \subseteq S, V \subseteq U, \A x \in V : f[x] = h[x]
    PROVE  g[V] = k[V]
<1> DEFINE B == {W \in SUBSET V : g[W] # k[W]}
<1> SUFFICES ASSUME B # {} PROVE FALSE
  OBVIOUS
<1>1. PICK T \in B : \A W \in B : W \subseteq T => W = T
  <2>1. B \in SUBSET (SUBSET V)
    OBVIOUS
  <2> HIDE DEF B
  <2>2. QED
    BY <2>1, SubsetMin
<1>2. T \in SUBSET S /\ T \in SUBSET U /\ T \in SUBSET V /\ g[T] # k[T]
  BY <1>1
<1>3. T # {}
  <2>1. g[{}] = Unit(m) /\ k[{}] = Unit(m)
    BY ReducesEmpty
  <2>2. QED
    BY <1>2, <2>1
<1> DEFINE W == T \ {Some(T)}
<1>4. /\ Some(T) \in T /\ g[T] = Join(m, f[Some(T)], g[W])
      /\ k[T] = Join(m, h[Some(T)], k[W])
  BY <1>2, <1>3, ReducesAt
<1>5. W \notin B /\ W \in SUBSET V
  BY <1>1, <1>2, <1>4
<1>6. f[Some(T)] = h[Some(T)] /\ g[W] = k[W]
  BY <1>2, <1>4, <1>5
<1>7. QED
  BY <1>2, <1>4, <1>6

\* There is one.
LEMMA ReducesExists ==
    ASSUME NEW m, NEW S, IsFiniteSet(S), NEW f
    PROVE  \E g : Reduces(g, m, f, S)
<1> DEFINE B == {W \in SUBSET S : ~ \E g : Reduces(g, m, f, W)}
<1> SUFFICES ASSUME B # {} PROVE FALSE
  OBVIOUS
<1>1. PICK T \in B : \A W \in B : W \subseteq T => W = T
  <2>1. B \in SUBSET (SUBSET S)
    OBVIOUS
  <2> HIDE DEF B
  <2>2. QED
    BY <2>1, SubsetMin
<1>2. \A W \in SUBSET T : W # T => \E g : Reduces(g, m, f, W)
  BY <1>1
<1> DEFINE piece(W) == CHOOSE g : Reduces(g, m, f, W)
           d(s) == IF s = {} THEN Unit(m)
                   ELSE Join(m, f[Some(s)], piece(s \ {Some(s)})[s \ {Some(s)}])
           G == [s \in SUBSET T |-> d(s)]
<1>3. \A W \in SUBSET T : W # T => Reduces(piece(W), m, f, W)
  BY <1>2
<1> HIDE DEF piece
<1>4. ASSUME NEW W \in SUBSET T, W # T
      PROVE  d(W) = piece(W)[W]
  <2>1. Reduces(piece(W), m, f, W)
    BY <1>3, <1>4
  <2>2. CASE W = {}
    <3>1. d(W) = Unit(m)
      BY <2>2
    <3>2. piece(W)[W] = Unit(m)
      BY <2>1, <2>2, ReducesEmpty, Zenon
    <3>3. QED
      BY <3>1, <3>2
  <2>3. CASE W # {}
    <3> DEFINE V == W \ {Some(W)}
    <3>1. /\ Some(W) \in W /\ V \in SUBSET W
          /\ piece(W)[W] = Join(m, f[Some(W)], piece(W)[V])
      BY <2>1, <2>3, ReducesAt
    <3>2. V # T /\ V \in SUBSET T
      BY <3>1, <1>4
    <3>3. Reduces(piece(V), m, f, V)
      BY <1>3, <3>2
    <3>4. IsFiniteSet(V)
      BY <1>1, <3>2, FS_Subset
    <3>5. piece(V)[V] = piece(W)[V]
      BY <2>1, <3>1, <3>3, <3>4, ReducesAgree
    <3>6. QED
      BY <2>3, <3>1, <3>5
  <2>4. QED
    BY <2>2, <2>3
<1>5. ASSUME NEW s \in SUBSET T
      PROVE  d(s) = IF s = {} THEN Unit(m) ELSE Join(m, f[Some(s)], G[s \ {Some(s)}])
  <2>1. CASE s = {}
    BY <2>1
  <2>2. CASE s # {}
    <3>1. Some(s) \in s
      BY <2>2, SomeIn
    <3>2. s \ {Some(s)} \in SUBSET T /\ s \ {Some(s)} # T
      BY <3>1
    <3>3. G[s \ {Some(s)}] = piece(s \ {Some(s)})[s \ {Some(s)}]
      BY <1>4, <3>2
    <3>4. QED
      BY <2>2, <3>3
  <2>3. QED
    BY <2>1, <2>2
<1>6. Reduces(G, m, f, T)
  <2> HIDE DEF d
  <2>1. G = [s \in SUBSET T |-> d(s)]
    OBVIOUS
  <2> HIDE DEF G
  <2>2. [s \in SUBSET T |-> d(s)]
          = [s \in SUBSET T |-> IF s = {} THEN Unit(m) ELSE Join(m, f[Some(s)], G[s \ {Some(s)}])]
    BY <1>5 DEF G
  <2>3. QED
    BY <2>1, <2>2 DEF Reduces
<1>7. QED
  BY <1>1, <1>6

\* So a reduction is the value of such a function.
LEMMA FoldIs ==
    ASSUME NEW m \in Modes, NEW S, IsFiniteSet(S), NEW f
    PROVE  \E g : Reduces(g, m, f, S) /\ Fold(m, f, S) = g[S]
<1>1. CASE m = "sum"
  <2> DEFINE Eqn(g) == g = [s \in SUBSET S |-> IF s = {} THEN 0 ELSE f[Some(s)] + g[s \ {Some(s)}]]
  <2>1. \A g : Eqn(g) <=> Reduces(g, m, f, S)
    BY <1>1 DEF Reduces, Unit, Join
  <2>2. \E g : Eqn(g)
    <3> HIDE DEF Eqn
    <3>1. QED
      BY <2>1, ReducesExists
  <2>3. Fold(m, f, S) = (CHOOSE g : Eqn(g))[S]
    BY <1>1 DEF Fold, SumOf, FoldFunctionOnSet, MapThenFoldSet, Some
  <2> HIDE DEF Eqn
  <2>4. QED
    BY <2>1, <2>2, <2>3
<1>2. CASE m = "max"
  <2> DEFINE Eqn(g) == g = [s \in SUBSET S |-> IF s = {} THEN NegInf
                             ELSE IF f[Some(s)] > g[s \ {Some(s)}] THEN f[Some(s)] ELSE g[s \ {Some(s)}]]
  <2>1. \A g : Eqn(g) <=> Reduces(g, m, f, S)
    BY <1>2 DEF Reduces, Unit, Join
  <2>2. \E g : Eqn(g)
    <3> HIDE DEF Eqn
    <3>1. QED
      BY <2>1, ReducesExists
  <2>3. Fold(m, f, S) = (CHOOSE g : Eqn(g))[S]
    BY <1>2 DEF Fold, MaxOf, FoldFunctionOnSet, MapThenFoldSet, Some
  <2> HIDE DEF Eqn
  <2>4. QED
    BY <2>1, <2>2, <2>3
<1>3. CASE m = "prod"
  <2> DEFINE Eqn(g) == g = [s \in SUBSET S |-> IF s = {} THEN 1 ELSE f[Some(s)] * g[s \ {Some(s)}]]
  <2>1. \A g : Eqn(g) <=> Reduces(g, m, f, S)
    BY <1>3 DEF Reduces, Unit, Join
  <2>2. \E g : Eqn(g)
    <3> HIDE DEF Eqn
    <3>1. QED
      BY <2>1, ReducesExists
  <2>3. Fold(m, f, S) = (CHOOSE g : Eqn(g))[S]
    BY <1>3 DEF Fold, ProductOf, FoldFunctionOnSet, MapThenFoldSet, Some
  <2> HIDE DEF Eqn
  <2>4. QED
    BY <2>1, <2>2, <2>3
<1>4. QED
  BY <1>1, <1>2, <1>3 DEF Modes

\* Integers have such values.
LEMMA ReducesVal ==
    ASSUME NEW m \in Modes, NEW S, IsFiniteSet(S), NEW f, NEW g, Reduces(g, m, f, S),
           \A x \in S : f[x] \in Int, NEW V \in SUBSET S
    PROVE  g[V] \in Vals(m)
<1> DEFINE B == {W \in SUBSET S : ~(g[W] \in Vals(m))}
<1> SUFFICES ASSUME B # {} PROVE FALSE
  OBVIOUS
<1>1. PICK T \in B : \A W \in B : W \subseteq T => W = T
  <2>1. B \in SUBSET (SUBSET S)
    OBVIOUS
  <2> HIDE DEF B
  <2>2. QED
    BY <2>1, SubsetMin
<1>2. T # {}
  <2>1. g[{}] = Unit(m) /\ Unit(m) \in Vals(m)
    BY ReducesEmpty, JoinLaws
  <2>2. QED
    BY <1>1, <2>1
<1>3. Some(T) \in T /\ g[T] = Join(m, f[Some(T)], g[T \ {Some(T)}])
  <2>1. T \in SUBSET S
    BY <1>1
  <2>2. QED
    BY <1>2, <2>1, ReducesAt
<1>4. g[T \ {Some(T)}] \in Vals(m) /\ f[Some(T)] \in Int
  BY <1>1, <1>3
<1>5. Join(m, f[Some(T)], g[T \ {Some(T)}]) \in Vals(m)
  BY <1>4, JoinLaws
<1>6. QED
  BY <1>1, <1>3, <1>5

\* Any member may be taken first.
LEMMA ReducesAny ==
    ASSUME NEW m \in Modes, NEW S, IsFiniteSet(S), NEW f, NEW g, Reduces(g, m, f, S),
           \A x \in S : f[x] \in Int, NEW V \in SUBSET S, NEW x \in V
    PROVE  g[V] = Join(m, f[x], g[V \ {x}])
<1> DEFINE B == {W \in SUBSET S : \E y \in W : g[W] # Join(m, f[y], g[W \ {y}])}
<1> SUFFICES ASSUME B # {} PROVE FALSE
  OBVIOUS
<1>1. PICK T \in B : \A W \in B : W \subseteq T => W = T
  <2>1. B \in SUBSET (SUBSET S)
    OBVIOUS
  <2> HIDE DEF B
  <2>2. QED
    BY <2>1, SubsetMin
<1>2. PICK y \in T : g[T] # Join(m, f[y], g[T \ {y}])
  BY <1>1
<1> DEFINE p == Some(T)
<1>3. p \in T /\ g[T] = Join(m, f[p], g[T \ {p}])
  BY <1>1, <1>2, ReducesAt
<1>4. p # y
  BY <1>2, <1>3
<1> HIDE DEF p
<1>5. T \ {p} \notin B /\ T \ {y} \notin B /\ T \ {p} \in SUBSET S /\ T \ {y} \in SUBSET S
  BY <1>1, <1>2, <1>3
<1>6. g[T \ {p}] = Join(m, f[y], g[(T \ {p}) \ {y}])
  BY <1>2, <1>4, <1>5
<1>7. g[T \ {y}] = Join(m, f[p], g[(T \ {y}) \ {p}])
  BY <1>3, <1>4, <1>5
<1>8. (T \ {p}) \ {y} = (T \ {y}) \ {p}
  OBVIOUS
<1>9. f[p] \in Int /\ f[y] \in Int
  BY <1>1, <1>2, <1>3
<1>10. g[(T \ {y}) \ {p}] \in Vals(m)
  <2>1. (T \ {y}) \ {p} \in SUBSET S
    BY <1>1
  <2>2. QED
    BY <2>1, ReducesVal
<1>11. Join(m, f[p], Join(m, f[y], g[(T \ {y}) \ {p}])) = Join(m, f[y], Join(m, f[p], g[(T \ {y}) \ {p}]))
  BY <1>9, <1>10, JoinLaws
<1>12. QED
  BY <1>2, <1>3, <1>6, <1>7, <1>8, <1>11

\* Two reductions of equal values.
LEMMA FoldAgree ==
    ASSUME NEW m \in Modes, NEW S, IsFiniteSet(S), NEW f, NEW h, \A x \in S : f[x] = h[x]
    PROVE  Fold(m, f, S) = Fold(m, h, S)
<1>1. PICK g : Reduces(g, m, f, S) /\ Fold(m, f, S) = g[S]
  BY FoldIs
<1>2. PICK k : Reduces(k, m, h, S) /\ Fold(m, h, S) = k[S]
  BY FoldIs
<1>3. g[S] = k[S]
  BY <1>1, <1>2, ReducesAgree
<1>4. QED
  BY <1>1, <1>2, <1>3

LEMMA FoldVal ==
    ASSUME NEW m \in Modes, NEW S, IsFiniteSet(S), NEW f, \A x \in S : f[x] \in Int
    PROVE  Fold(m, f, S) \in Vals(m) /\ Fold(m, f, S) \in Int
<1>1. PICK g : Reduces(g, m, f, S) /\ Fold(m, f, S) = g[S]
  BY FoldIs
<1>2. S \in SUBSET S
  OBVIOUS
<1>3. g[S] \in Vals(m)
  BY <1>1, <1>2, ReducesVal
<1>4. QED
  BY <1>1, <1>3, JoinLaws

LEMMA FoldEmpty ==
    ASSUME NEW m \in Modes, NEW f
    PROVE  Fold(m, f, {}) = Unit(m)
<1>1. PICK g : Reduces(g, m, f, {}) /\ Fold(m, f, {}) = g[{}]
  BY FoldIs, FS_EmptySet
<1>2. QED
  BY <1>1, ReducesEmpty

\* One more value.
LEMMA FoldMore ==
    ASSUME NEW m \in Modes, NEW S, IsFiniteSet(S), NEW x, x \notin S, NEW f,
           \A y \in S \cup {x} : f[y] \in Int
    PROVE  Fold(m, f, S \cup {x}) = Join(m, f[x], Fold(m, f, S))
<1> DEFINE T == S \cup {x}
<1>1. IsFiniteSet(T) /\ T \in SUBSET T /\ x \in T /\ T \ {x} = S
  BY FS_AddElement
<1>2. PICK g : Reduces(g, m, f, T) /\ Fold(m, f, T) = g[T]
  BY <1>1, FoldIs
<1>3. PICK k : Reduces(k, m, f, S) /\ Fold(m, f, S) = k[S]
  BY FoldIs
<1>4. g[T] = Join(m, f[x], g[T \ {x}])
  <2>1. \A y \in T : f[y] \in Int
    OBVIOUS
  <2> HIDE DEF T
  <2>2. QED
    BY <1>1, <1>2, <2>1, ReducesAny
<1>5. g[S] = k[S]
  BY <1>2, <1>3, ReducesAgree
<1>6. QED
  BY <1>1, <1>2, <1>3, <1>4, <1>5

LEMMA FoldOne ==
    ASSUME NEW m \in Modes, NEW x, NEW f, f[x] \in Int
    PROVE  Fold(m, f, {x}) = Join(m, f[x], Unit(m))
<1>1. Fold(m, f, {} \cup {x}) = Join(m, f[x], Fold(m, f, {}))
  BY FoldMore, FS_EmptySet
<1>2. {} \cup {x} = {x}
  OBVIOUS
<1>3. QED
  BY <1>1, <1>2, FoldEmpty

\* Two sets that have nothing in common.
LEMMA FoldUnion ==
    ASSUME NEW m \in Modes, NEW A, NEW S, IsFiniteSet(A), IsFiniteSet(S), A \cap S = {}, NEW f,
           \A x \in A \cup S : f[x] \in Int
    PROVE  Fold(m, f, A \cup S) = Join(m, Fold(m, f, A), Fold(m, f, S))
<1> DEFINE B == {T \in SUBSET S : Fold(m, f, A \cup T) = Join(m, Fold(m, f, A), Fold(m, f, T))}
<1>1. {} \in B
  <2>1. A \cup {} = A
    OBVIOUS
  <2>2. Fold(m, f, A) \in Vals(m)
    BY FoldVal
  <2>3. Join(m, Fold(m, f, A), Fold(m, f, {})) = Fold(m, f, A)
    BY <2>2, FoldEmpty, JoinLaws
  <2>4. QED
    BY <2>1, <2>3
<1>2. ASSUME NEW T \in SUBSET S, NEW x \in S, T \in B, x \notin T PROVE T \cup {x} \in B
  <2>1. IsFiniteSet(T) /\ IsFiniteSet(A \cup T)
    BY FS_Subset, FS_Union
  <2>2. A \cup (T \cup {x}) = (A \cup T) \cup {x} /\ x \notin A \cup T
    BY <1>2
  <2>3. Fold(m, f, (A \cup T) \cup {x}) = Join(m, f[x], Fold(m, f, A \cup T))
    BY <2>1, <2>2, FoldMore
  <2>4. Fold(m, f, T \cup {x}) = Join(m, f[x], Fold(m, f, T))
    BY <1>2, <2>1, FoldMore
  <2>5. PICK a, t, y : a = Fold(m, f, A) /\ t = Fold(m, f, T) /\ y = f[x]
    OBVIOUS
  <2>6. a \in Int /\ t \in Int /\ y \in Int
    BY <2>1, <2>5, FoldVal
  <2>7. Join(m, y, Join(m, a, t)) = Join(m, a, Join(m, y, t))
    <3>1. Join(m, Join(m, y, a), t) = Join(m, y, Join(m, a, t)) /\ Join(m, y, a) = Join(m, a, y)
          /\ Join(m, Join(m, a, y), t) = Join(m, a, Join(m, y, t))
      BY <2>6, JoinLaws
    <3>2. QED
      BY <3>1
  <2>8. Fold(m, f, A \cup T) = Join(m, a, t)
    BY <1>2, <2>5
  <2>9. Fold(m, f, A \cup (T \cup {x})) = Join(m, Fold(m, f, A), Fold(m, f, T \cup {x}))
    BY <2>2, <2>3, <2>4, <2>5, <2>7, <2>8
  <2>10. QED
    BY <2>9
<1> HIDE DEF B
<1>3. S \in B
  BY <1>1, <1>2, SetInduct
<1>4. QED
  BY <1>3 DEF B

\* Disjoint parts of a whole, reduced one by one.
LEMMA FoldParts ==
    ASSUME NEW m \in Modes, NEW T, IsFiniteSet(T), NEW P, NEW f, NEW S,
           \A t \in T : IsFiniteSet(P[t]),
           \A t \in T : P[t] \subseteq S,
           \A x \in S : \E t \in T : x \in P[t],
           \A x \in S : f[x] \in Int,
           \A t, u \in T : t # u => P[t] \cap P[u] = {},
           NEW h, \A t \in T : h[t] = Fold(m, f, P[t])
    PROVE  Fold(m, h, T) = Fold(m, f, S)
<1> DEFINE All(U) == UNION {P[t] : t \in U}
           B == {U \in SUBSET T : IsFiniteSet(All(U)) /\ Fold(m, h, U) = Fold(m, f, All(U))}
<1>1. {} \in B
  <2>1. All({}) = {}
    OBVIOUS
  <2> HIDE DEF All
  <2>2. QED
    BY <2>1, FoldEmpty, FS_EmptySet
<1>2. ASSUME NEW U \in SUBSET T, NEW t \in T, U \in B, t \notin U PROVE U \cup {t} \in B
  <2>1. All(U \cup {t}) = All(U) \cup P[t] /\ All(U) \cap P[t] = {}
    BY <1>2
  <2>2. \A x \in All(U) \cup P[t] : f[x] \in Int
    OBVIOUS
  <2>3. \A u \in U \cup {t} : h[u] \in Int
    BY FoldVal
  <2> HIDE DEF All
  <2>4. IsFiniteSet(All(U)) /\ IsFiniteSet(P[t]) /\ IsFiniteSet(U)
    BY <1>2, FS_Subset
  <2>5. IsFiniteSet(All(U) \cup P[t])
    BY <2>4, FS_Union
  <2>6. Fold(m, f, All(U) \cup P[t]) = Join(m, Fold(m, f, All(U)), Fold(m, f, P[t]))
    BY <2>1, <2>2, <2>4, FoldUnion
  <2>7. Fold(m, h, U \cup {t}) = Join(m, h[t], Fold(m, h, U))
    BY <1>2, <2>3, <2>4, FoldMore
  <2>8. Fold(m, h, U) = Fold(m, f, All(U)) /\ h[t] = Fold(m, f, P[t])
    BY <1>2
  <2>9. h[t] \in Int /\ Fold(m, h, U) \in Int
    BY <2>3, <2>4, FoldVal
  <2>10. Join(m, h[t], Fold(m, h, U)) = Join(m, Fold(m, h, U), h[t])
    BY <2>9, JoinLaws
  <2>11. Fold(m, h, U \cup {t}) = Fold(m, f, All(U \cup {t}))
    BY <2>1, <2>6, <2>7, <2>8, <2>10
  <2>12. QED
    BY <2>1, <2>5, <2>11
<1>3. T \in B
  <2> HIDE DEF B
  <2>1. QED
    BY <1>1, <1>2, SetInduct
<1>4. All(T) = S
  OBVIOUS
<1>5. QED
  BY <1>3, <1>4

-----------------------------------------------------------------------------
(* Halving down to one                                                     *)

\* One halving, with g for the rest.
HalfFirst(g, n) == IF n < 2 THEN << >> ELSE <<n \div 2>> \o g[n \div 2]

Halves(g) == g = [n \in Nat |-> HalfFirst(g, n)]

\* g is right up to k.
HalvesTo(g, k) ==
    g \in [0 .. k -> Seq(Nat)] /\ \A n \in 0 .. k : g[n] = HalfFirst(g, n)

LEMMA HalfFirstEnd ==
    ASSUME NEW g, NEW n \in Nat, n < 2
    PROVE  HalfFirst(g, n) = << >> /\ HalfFirst(g, n) \in Seq(Nat)
<1>1. HalfFirst(g, n) = << >> /\ << >> \in Seq(Nat)
  BY DEF HalfFirst
<1>2. QED
  BY <1>1

LEMMA HalfLess ==
    ASSUME NEW n \in Nat, n >= 2
    PROVE  n \div 2 \in Nat /\ n \div 2 < n
OBVIOUS

LEMMA HalfFirstSeq ==
    ASSUME NEW g, NEW n \in Nat, n >= 2 => g[n \div 2] \in Seq(Nat)
    PROVE  HalfFirst(g, n) \in Seq(Nat)
<1>1. CASE n < 2
  BY <1>1, HalfFirstEnd
<1>2. CASE n >= 2
  <2>1. PICK x, q : x = n \div 2 /\ q = g[n \div 2]
    OBVIOUS
  <2>2. x \in Nat /\ q \in Seq(Nat)
    BY <1>2, <2>1
  <2>3. <<x>> \o q \in Seq(Nat)
    BY <2>2
  <2>4. HalfFirst(g, n) = <<x>> \o q
    BY <1>2, <2>1 DEF HalfFirst
  <2>5. QED
    BY <2>3, <2>4
<1>3. QED
  BY <1>1, <1>2

\* Functions that agree on the half agree.
LEMMA HalfFirstSame ==
    ASSUME NEW g, NEW h, NEW n \in Nat, n >= 2 => g[n \div 2] = h[n \div 2]
    PROVE  HalfFirst(g, n) = HalfFirst(h, n)
BY DEF HalfFirst

LEMMA HalvesExist == \E g : Halves(g)
<1> DEFINE S == {k \in Nat : \E g : HalvesTo(g, k)}
<1>1. 0 \in S
  <2> DEFINE g == [n \in 0 .. 0 |-> << >>]
  <2>1. HalfFirst(g, 0) = << >> /\ << >> \in Seq(Nat)
    BY HalfFirstEnd
  <2>2. \A n \in 0 .. 0 : n = 0 /\ g[n] = << >>
    OBVIOUS
  <2>3. g \in [0 .. 0 -> Seq(Nat)]
    BY <2>1
  <2> HIDE DEF g
  <2>4. HalvesTo(g, 0)
    BY <2>1, <2>2, <2>3 DEF HalvesTo
  <2>5. QED
    BY <2>4
<1>2. ASSUME NEW k \in Nat, k \in S PROVE k + 1 \in S
  <2>1. PICK g : HalvesTo(g, k)
    BY <1>2
  <2> DEFINE b(n) == IF n <= k THEN g[n] ELSE HalfFirst(g, n)
             h == [n \in 0 .. (k + 1) |-> b(n)]
  <2>2. ASSUME NEW n \in 0 .. (k + 1) PROVE b(n) \in Seq(Nat) /\ b(n) = HalfFirst(g, n)
    <3>1. CASE n <= k
      BY <2>1, <3>1 DEF HalvesTo
    <3>2. CASE n = k + 1
      <4>1. n >= 2 => n \div 2 \in 0 .. k
        BY <3>2, HalfLess
      <4>2. n >= 2 => g[n \div 2] \in Seq(Nat)
        BY <2>1, <4>1 DEF HalvesTo
      <4>3. HalfFirst(g, n) \in Seq(Nat)
        BY <4>2, HalfFirstSeq
      <4>4. QED
        BY <3>2, <4>3
    <3>3. QED
      BY <3>1, <3>2
  <2>3. ASSUME NEW n \in 0 .. (k + 1), n >= 2 PROVE h[n \div 2] = g[n \div 2]
    <3>1. n \div 2 \in 0 .. k
      BY <2>3, HalfLess
    <3>2. QED
      BY <3>1
  <2>4. h \in [0 .. (k + 1) -> Seq(Nat)] /\ \A n \in 0 .. (k + 1) : h[n] = HalfFirst(g, n)
    <3> HIDE DEF b
    <3>1. QED
      BY <2>2
  <2> HIDE DEF h
  <2>5. \A n \in 0 .. (k + 1) : h[n] = HalfFirst(h, n)
    <3> SUFFICES ASSUME NEW n \in 0 .. (k + 1) PROVE h[n] = HalfFirst(h, n)
      OBVIOUS
    <3>1. HalfFirst(h, n) = HalfFirst(g, n)
      BY <2>3, HalfFirstSame
    <3>2. QED
      BY <2>4, <3>1
  <2>6. HalvesTo(h, k + 1)
    BY <2>4, <2>5 DEF HalvesTo
  <2>7. QED
    BY <2>6
<1>3. \A k \in Nat : k \in S
  <2> HIDE DEF S
  <2>1. QED
    BY <1>1, <1>2, NatInduct
<1>4. ASSUME NEW k \in Nat, NEW j \in Nat, NEW g, NEW h, HalvesTo(g, k), HalvesTo(h, j)
      PROVE  \A n \in Nat : n <= k /\ n <= j => g[n] = h[n]
  <2> DEFINE T == {n \in Nat : \A i \in 0 .. n : i <= k /\ i <= j => g[i] = h[i]}
  <2>1. ASSUME NEW n \in Nat, n <= k, n <= j, \A i \in 0 .. (n - 1) : g[i] = h[i]
        PROVE  g[n] = h[n]
    <3>1. n >= 2 => n \div 2 \in 0 .. (n - 1)
      BY HalfLess
    <3>2. HalfFirst(g, n) = HalfFirst(h, n)
      BY <2>1, <3>1, HalfFirstSame
    <3>3. g[n] = HalfFirst(g, n) /\ h[n] = HalfFirst(h, n)
      BY <1>4, <2>1 DEF HalvesTo
    <3>4. QED
      BY <3>2, <3>3
  <2>2. 0 \in T
    <3>1. \A i \in 0 .. (0 - 1) : g[i] = h[i]
      OBVIOUS
    <3>2. g[0] = h[0]
      BY <2>1, <3>1
    <3>3. QED
      BY <3>2
  <2>3. ASSUME NEW n \in Nat, n \in T PROVE n + 1 \in T
    <3>1. ASSUME n + 1 <= k, n + 1 <= j PROVE g[n + 1] = h[n + 1]
      <4>1. \A i \in 0 .. (n + 1 - 1) : g[i] = h[i]
        BY <2>3, <3>1
      <4>2. QED
        BY <2>1, <3>1, <4>1
    <3>2. QED
      BY <2>3, <3>1
  <2>4. \A n \in Nat : n \in T
    <3> HIDE DEF T
    <3>1. QED
      BY <2>2, <2>3, NatInduct
  <2>5. QED
    BY <2>4
<1> DEFINE piece(k) == CHOOSE g : HalvesTo(g, k)
           G == [n \in Nat |-> piece(n)[n]]
<1>5. \A k \in Nat : HalvesTo(piece(k), k)
  <2>1. \A k \in Nat : \E g : HalvesTo(g, k)
    BY <1>3
  <2>2. QED
    BY <2>1
<1> HIDE DEF piece
<1>6. ASSUME NEW n \in Nat
      PROVE  piece(n)[n] = HalfFirst(G, n)
  <2>1. ASSUME n >= 2 PROVE piece(n)[n \div 2] = G[n \div 2]
    <3>1. n \div 2 \in Nat /\ n \div 2 <= n
      BY <2>1, HalfLess
    <3>2. HalvesTo(piece(n), n) /\ HalvesTo(piece(n \div 2), n \div 2)
      BY <1>5, <3>1
    <3>3. piece(n)[n \div 2] = piece(n \div 2)[n \div 2]
      BY <1>4, <3>1, <3>2
    <3>4. QED
      BY <3>1, <3>3
  <2>2. HalfFirst(piece(n), n) = HalfFirst(G, n)
    <3> HIDE DEF G
    <3>1. QED
      BY <2>1, HalfFirstSame
  <2>3. n \in 0 .. n /\ HalvesTo(piece(n), n)
    BY <1>5
  <2>4. piece(n)[n] = HalfFirst(piece(n), n)
    BY <2>3 DEF HalvesTo
  <2>5. QED
    BY <2>2, <2>4
<1>7. G = [n \in Nat |-> HalfFirst(G, n)]
  <2>1. [n \in Nat |-> piece(n)[n]] = [n \in Nat |-> HalfFirst(G, n)]
    <3> HIDE DEF G
    <3>1. QED
      BY <1>6
  <2>2. QED
    BY <2>1
<1>8. QED
  <2> HIDE DEF G
  <2>1. QED
    BY <1>7 DEF Halves

\* What halving gives, step by step.
LEMMA HalvingsAt ==
    ASSUME NEW n \in Nat
    PROVE  /\ Halvings[n] \in Seq(Nat)
           /\ Halvings[n] = HalfFirst(Halvings, n)
<1>1. Halvings = CHOOSE g : Halves(g)
  BY DEF Halvings, Halves, HalfFirst
<1>2. Halves(Halvings)
  BY <1>1, HalvesExist
<1>3. \A k \in Nat : Halvings[k] = HalfFirst(Halvings, k)
  BY <1>2 DEF Halves
<1> DEFINE T == {k \in Nat : \A i \in 0 .. k : Halvings[i] \in Seq(Nat)}
<1>4. 0 \in T
  <2>1. Halvings[0] \in Seq(Nat)
    BY <1>3, HalfFirstEnd
  <2>2. QED
    BY <2>1
<1>5. ASSUME NEW k \in Nat, k \in T PROVE k + 1 \in T
  <2>1. k + 1 >= 2 => (k + 1) \div 2 \in 0 .. k
    BY HalfLess
  <2>2. k + 1 >= 2 => Halvings[(k + 1) \div 2] \in Seq(Nat)
    BY <1>5, <2>1
  <2>3. HalfFirst(Halvings, k + 1) \in Seq(Nat)
    BY <2>2, HalfFirstSeq
  <2>4. Halvings[k + 1] \in Seq(Nat)
    BY <1>3, <2>3
  <2>5. QED
    BY <1>5, <2>4
<1>6. n \in T
  <2> HIDE DEF T
  <2>1. QED
    BY <1>4, <1>5, NatInduct
<1>7. QED
  BY <1>3, <1>6

\* The size after k halvings.
Half(n, k) == IF k = 0 THEN n ELSE Halvings[n][k]

Halved(n) ==
    /\ Len(Halvings[n]) \in Nat /\ Half(n, Len(Halvings[n])) = 1
    /\ \A k \in 1 .. Len(Halvings[n]) :
          Half(n, k) \in Nat \ {0} /\ Half(n, k) = Half(n, k - 1) \div 2

LEMMA HalvingsEnd ==
    ASSUME NEW n \in Nat \ {0}
    PROVE  Halved(n)
<1> DEFINE T == {k \in Nat : \A i \in 1 .. k : Halved(i)}
<1>1. 0 \in T
  OBVIOUS
<1>2. ASSUME NEW k \in Nat, k \in T PROVE k + 1 \in T
  <2>1. CASE k + 1 < 2
    <3>1. Halvings[k + 1] = << >> /\ k + 1 = 1
      BY <2>1, HalvingsAt, HalfFirstEnd
    <3>2. Halved(k + 1)
      BY <3>1 DEF Halved, Half
    <3>3. QED
      BY <1>2, <3>2
  <2>2. CASE k + 1 >= 2
    <3>1. PICK h, q, p : h = (k + 1) \div 2 /\ q = Halvings[h] /\ p = Halvings[k + 1]
      OBVIOUS
    <3>2. h \in 1 .. k
      BY <2>2, <3>1
    <3>3. q \in Seq(Nat)
      BY <3>1, <3>2, HalvingsAt
    <3>4. p = <<h>> \o q
      <4>1. Halvings[k + 1] = HalfFirst(Halvings, k + 1)
        BY HalvingsAt
      <4>2. HalfFirst(Halvings, k + 1) = <<h>> \o q
        BY <2>2, <3>1 DEF HalfFirst
      <4>3. QED
        BY <3>1, <4>1, <4>2
    <3>5. /\ Len(q) \in Nat /\ Len(p) = Len(q) + 1 /\ p[1] = h
          /\ \A j \in 1 .. Len(q) : p[j + 1] = q[j]
      BY <3>2, <3>3, <3>4
    <3>6. Halved(h)
      BY <1>2, <3>2
    <3>7. \A j \in 0 .. Len(q) : Half(k + 1, j + 1) = Half(h, j)
      BY <3>1, <3>5 DEF Half
    <3>8. Half(k + 1, 0) = k + 1 /\ Half(h, 0) = h
      BY DEF Half
    <3>9. Half(k + 1, Len(p)) = 1
      BY <3>1, <3>5, <3>6, <3>7 DEF Halved
    <3>10. ASSUME NEW j \in 1 .. Len(p)
           PROVE  Half(k + 1, j) \in Nat \ {0} /\ Half(k + 1, j) = Half(k + 1, j - 1) \div 2
      <4>1. CASE j = 1
        BY <3>1, <3>2, <3>5, <3>7, <3>8, <4>1
      <4>2. CASE j > 1
        <5>1. j - 1 \in 1 .. Len(q) /\ j - 2 \in 0 .. Len(q)
          BY <3>5, <4>2
        <5>2. Half(k + 1, j) = Half(h, j - 1) /\ Half(k + 1, j - 1) = Half(h, j - 1 - 1)
          BY <3>7, <5>1
        <5>3. QED
          BY <3>1, <3>6, <5>1, <5>2 DEF Halved
      <4>3. QED
        BY <4>1, <4>2
    <3>11. Halved(k + 1)
      BY <3>1, <3>5, <3>9, <3>10 DEF Halved
    <3>12. QED
      BY <1>2, <3>11
  <2>3. QED
    BY <2>1, <2>2
<1>3. n \in T
  <2> HIDE DEF T
  <2>1. QED
    BY <1>1, <1>2, NatInduct
<1>4. QED
  BY <1>3

\* A power of two is twice each of its halves.
LEMMA PowerHalves ==
    ASSUME NEW n \in Nat \ {0}, IsPower(n)
    PROVE  /\ Len(Halvings[n]) \in Nat /\ Half(n, 0) = n /\ Half(n, Len(Halvings[n])) = 1
           /\ \A k \in 0 .. Len(Halvings[n]) : Half(n, k) \in Nat \ {0}
           /\ \A k \in 1 .. Len(Halvings[n]) : Half(n, k - 1) = 2 * Half(n, k)
<1>1. PICK q : q = Halvings[n]
  OBVIOUS
<1>2. q \in Seq(Nat)
  BY <1>1, HalvingsAt
<1>3. /\ <<n>> \o q \in Seq(Nat) /\ Len(<<n>> \o q) = Len(q) + 1
      /\ \A k \in 0 .. Len(q) : (<<n>> \o q)[k + 1] = Half(n, k)
  BY <1>1, <1>2 DEF Half
<1>4. \A k \in 2 .. (Len(q) + 1) : (<<n>> \o q)[k - 1] = 2 * (<<n>> \o q)[k]
  BY <1>1, <1>3 DEF IsPower
<1>5. Halved(n)
  BY HalvingsEnd
<1>6. ASSUME NEW k \in 1 .. Len(q) PROVE Half(n, k - 1) = 2 * Half(n, k)
  <2>1. k + 1 \in 2 .. (Len(q) + 1) /\ k - 1 \in 0 .. Len(q) /\ k \in 0 .. Len(q)
    BY <1>2
  <2>2. PICK p : p = <<n>> \o q
    OBVIOUS
  <2>3. p[k + 1 - 1] = 2 * p[k + 1]
    BY <1>4, <2>1, <2>2
  <2>4. p[k + 1] = Half(n, k) /\ p[k - 1 + 1] = Half(n, k - 1)
    BY <1>3, <2>1, <2>2
  <2>5. k + 1 - 1 = k - 1 + 1
    OBVIOUS
  <2>6. QED
    BY <2>3, <2>4, <2>5
<1>7. QED
  BY <1>1, <1>5, <1>6 DEF Halved, Half
-----------------------------------------------------------------------------
(* Which thread of which block takes an element                            *)

\* i is q whole steps of m and r more.
Split(i, m, q, r) == q \in Int /\ r \in 0 .. (m - 1) /\ i = q * m + r

LEMMA SplitIs ==
    ASSUME NEW m \in Nat \ {0}, NEW q, NEW r, NEW i, Split(i, m, q, r)
    PROVE  i \div m = q /\ i % m = r
BY DEF Split

LEMMA SplitHas ==
    ASSUME NEW m \in Nat \ {0}, NEW i \in Int
    PROVE  Split(i, m, i \div m, i % m) /\ i \div m \in Int /\ i % m \in 0 .. (m - 1)
BY DEF Split

LEMMA SplitNat ==
    ASSUME NEW m \in Nat \ {0}, NEW i \in Nat
    PROVE  i \div m \in Nat
OBVIOUS

Below(i, m, q, k) == (i < k * m <=> q < k) /\ (i >= 0 <=> q >= 0)

\* The whole steps stay below k when i stays below k of them.
LEMMA SplitBelow ==
    ASSUME NEW m \in Nat \ {0}, NEW k \in Nat, NEW q, NEW r, NEW i, Split(i, m, q, r)
    PROVE  Below(i, m, q, k)
<1>2. ASSUME q < k PROVE i < k * m
  <2>1. q * m + m <= k * m /\ q * m \in Int
    <3>1. (k - q - 1) * m >= 0 /\ (k - q - 1) * m = k * m - q * m - m
      BY <1>2 DEF Split
    <3>2. k * m \in Int /\ q * m \in Int
      BY DEF Split
    <3>3. QED
      BY <3>1, <3>2
  <2>2. QED
    BY <2>1 DEF Split
<1>3. ASSUME q >= k PROVE ~ (i < k * m)
  <2>1. k * m <= q * m
    <3>1. (q - k) * m >= 0 /\ (q - k) * m = q * m - k * m
      BY <1>3 DEF Split
    <3>2. k * m \in Int /\ q * m \in Int
      BY DEF Split
    <3>3. QED
      BY <3>1, <3>2
  <2>2. k * m \in Int /\ q * m \in Int
    BY DEF Split
  <2>3. i >= q * m
    BY <2>2 DEF Split
  <2>4. QED
    BY <2>1, <2>2, <2>3 DEF Split
<1>4. i >= 0 <=> q >= 0
  BY DEF Split
<1>5. QED
  BY <1>2, <1>3, <1>4 DEF Split, Below

\* Steps of steps.
LEMMA SplitTwice ==
    ASSUME NEW m \in Nat \ {0}, NEW G \in Nat \ {0}, NEW i, NEW x, NEW r, NEW y, NEW c,
           Split(i, m, x, r), Split(x, G, y, c)
    PROVE  Split(i, m * G, y, c * m + r)
<1>1. /\ x \in Int /\ r \in 0 .. (m - 1) /\ i = x * m + r
      /\ y \in Int /\ c \in 0 .. (G - 1) /\ x = y * G + c
  BY DEF Split
<1>2. x * m = y * (m * G) + c * m
  <2>1. x * m = (y * G + c) * m
    BY <1>1
  <2>2. (y * G + c) * m = (y * G) * m + c * m
    BY <1>1
  <2>3. (y * G) * m = y * (m * G)
    BY <1>1
  <2>4. QED
    BY <2>1, <2>2, <2>3
<1>3. i = y * (m * G) + (c * m + r)
  BY <1>1, <1>2
<1>4. c * m + r \in 0 .. (m * G - 1)
  <2>1. c * m <= (G - 1) * m /\ c * m \in Nat
    BY <1>1
  <2>2. (G - 1) * m = m * G - m
    OBVIOUS
  <2>3. m * G \in Int
    OBVIOUS
  <2>4. QED
    BY <1>1, <2>1, <2>2, <2>3
<1>5. QED
  BY <1>1, <1>3, <1>4 DEF Split

\* A loop with a stride, from a thread's own start.
LEMMA StrideIs ==
    ASSUME NEW m \in Nat \ {0}, NEW t \in 0 .. (m - 1), NEW n \in Nat
    PROVE  Stride(t, n, m) = {i \in 0 .. (n - 1) : i % m = t}
<1>1. ASSUME NEW i \in t .. (n - 1), (i - t) % m = 0 PROVE i \in 0 .. (n - 1) /\ i % m = t
  <2>1. PICK j : j = i - t /\ j \in Nat /\ j % m = 0
    BY <1>1
  <2>2. PICK q : q = j \div m
    OBVIOUS
  <2>3. Split(j, m, q, 0)
    BY <2>1, <2>2, SplitHas
  <2>4. j = q * m + 0 /\ q \in Int /\ q * m \in Int
    BY <2>3 DEF Split
  <2>5. i = q * m + t
    BY <2>1, <2>4
  <2>6. Split(i, m, q, t)
    BY <2>4, <2>5 DEF Split
  <2>7. q \in Nat
    BY <2>1, <2>2, SplitNat
  <2>8. QED
    BY <2>6, SplitIs
<1>2. ASSUME NEW i \in 0 .. (n - 1), i % m = t PROVE i \in t .. (n - 1) /\ (i - t) % m = 0
  <2>1. PICK q : q = i \div m /\ q \in Nat
    BY SplitNat
  <2>2. Split(i, m, q, t)
    <3>1. i \in Int
      OBVIOUS
    <3>2. Split(i, m, i \div m, i % m)
      BY <3>1, SplitHas
    <3>3. QED
      BY <1>2, <2>1, <3>2
  <2>3. PICK j : j = i - t
    OBVIOUS
  <2>4. Split(j, m, q, 0)
    BY <1>2, <2>1, <2>2, <2>3 DEF Split
  <2>5. j % m = 0
    BY <2>4, SplitIs
  <2>6. i >= t
    BY <2>1, <2>2 DEF Split
  <2>7. QED
    BY <2>3, <2>5, <2>6
<1>3. QED
  BY <1>1, <1>2 DEF Stride

\* Element i falls to place b * m + t of all exactly when it is in class t of block b.
Falls(m, G, b, t, i) ==
    /\ b * m + t \in 0 .. (m * G - 1)
    /\ i % (m * G) = b * m + t <=> (i \div m) % G = b /\ i % m = t

\* One that starts within its stride takes the elements of one class.
LEMMA PairFirst ==
    ASSUME NEW m \in Nat \ {0}, NEW G \in Nat \ {0}, NEW b \in 0 .. (G - 1), NEW t \in 0 .. (m - 1),
           NEW i \in Int
    PROVE  Falls(m, G, b, t, i)
<1>1. PICK x, r : x = i \div m /\ r = i % m
  OBVIOUS
<1>2. Split(i, m, x, r) /\ x \in Int
  BY <1>1, SplitHas
<1>3. PICK y, c : y = x \div G /\ c = x % G
  OBVIOUS
<1>4. Split(x, G, y, c)
  BY <1>2, <1>3, SplitHas
<1>5. Split(i, m * G, y, c * m + r)
  BY <1>2, <1>4, SplitTwice
<1>6. m * G \in Nat \ {0}
  OBVIOUS
<1>7. i % (m * G) = c * m + r
  BY <1>5, <1>6, SplitIs
<1>8. r \in 0 .. (m - 1) /\ c \in 0 .. (G - 1)
  BY <1>2, <1>4 DEF Split
<1>9. ASSUME c * m + r = b * m + t PROVE c = b /\ r = t
  <2>1. PICK z : z = c * m + r
    OBVIOUS
  <2>2. Split(z, m, c, r) /\ Split(z, m, b, t)
    BY <1>8, <1>9, <2>1 DEF Split
  <2>3. QED
    BY <2>2, SplitIs
<1>10. b * m + t \in 0 .. (m * G - 1)
  <2>1. Split(b * m + t, m, b, t)
    BY DEF Split
  <2>2. b * m + t < G * m /\ G * m = m * G /\ b * m + t >= 0
    <3>1. Below(b * m + t, m, b, G)
      BY <2>1, SplitBelow
    <3>2. QED
      BY <3>1 DEF Below
  <2>3. QED
    BY <2>2
<1>11. QED
  BY <1>1, <1>3, <1>7, <1>9, <1>10 DEF Falls

\* Half a step on.
LEMMA SplitHalf ==
    ASSUME NEW d \in Nat \ {0}, NEW i \in Int
    PROVE  /\ i % (2 * d) < d => i % d = i % (2 * d)
           /\ i % (2 * d) >= d => i % d = (i % (2 * d)) - d
<1>1. PICK m, x, r : m = 2 * d /\ x = i \div m /\ r = i % m
  OBVIOUS
<1>2. m \in Nat \ {0}
  BY <1>1
<1>3. Split(i, m, x, r)
  BY <1>1, <1>2, SplitHas
<1>4. x \in Int /\ r \in 0 .. (m - 1) /\ i = x * m + r
  BY <1>3 DEF Split
<1>5. x * m = (2 * x) * d /\ (2 * x + 1) * d = (2 * x) * d + d
  <2>1. x * (2 * d) = (2 * x) * d
    BY <1>4
  <2>2. (2 * x + 1) * d = (2 * x) * d + d
    BY <1>4
  <2>3. QED
    BY <1>1, <2>1, <2>2, Zenon
<1>6. CASE r < d
  <2>1. 2 * x \in Int /\ r \in 0 .. (d - 1) /\ i = (2 * x) * d + r
    BY <1>4, <1>5, <1>6
  <2>2. Split(i, d, 2 * x, r)
    BY <2>1 DEF Split
  <2>3. i % d = r
    BY <2>2, SplitIs
  <2>4. QED
    BY <1>1, <1>6, <2>3
<1>7. CASE r >= d
  <2>1. 2 * x + 1 \in Int /\ r - d \in 0 .. (d - 1)
    BY <1>1, <1>4, <1>7
  <2>2. (2 * x) * d \in Int
    BY <1>4
  <2>3. i = (2 * x + 1) * d + (r - d)
    <3>1. PICK y, z : y = (2 * x) * d /\ z = (2 * x + 1) * d
      OBVIOUS
    <3>2. i = y + r /\ z = y + d /\ y \in Int
      BY <1>4, <1>5, <2>2, <3>1
    <3>3. i = z + (r - d)
      BY <1>4, <3>2
    <3>4. QED
      BY <3>1, <3>3
  <2>4. Split(i, d, 2 * x + 1, r - d)
    BY <2>1, <2>3 DEF Split
  <2>5. i % d = r - d
    BY <2>4, SplitIs
  <2>6. QED
    BY <1>1, <1>7, <2>5
<1>8. QED
  BY <1>4, <1>6, <1>7

LEMMA SplitOn ==
    ASSUME NEW m \in Nat \ {0}, NEW i \in Int, NEW a \in Int, (i % m) + a \in 0 .. (m - 1)
    PROVE  (i + a) \div m = i \div m /\ (i + a) % m = (i % m) + a
<1>1. PICK x, r, k : x = i \div m /\ r = i % m /\ k = i + a
  OBVIOUS
<1>2. Split(i, m, x, r)
  BY <1>1, SplitHas
<1>3. x \in Int /\ r \in 0 .. (m - 1) /\ i = x * m + r /\ x * m \in Int
  BY <1>2 DEF Split
<1>4. k = x * m + (r + a)
  BY <1>1, <1>3
<1>5. Split(k, m, x, r + a)
  BY <1>1, <1>3, <1>4 DEF Split
<1>6. QED
  BY <1>1, <1>5, SplitIs

\* What a thread of sum_kernel and max_kernel reads.
PairsAre(n, d, G, b, t) ==
    LET first == Stride(b * d * 2 + t, n, d * 2 * G) IN
    first \cup {i + d : i \in {j \in first : j + d < n}}
      = {i \in 0 .. (n - 1) : (i \div (2 * d)) % G = b /\ i % d = t}

LEMMA PairsIs ==
    ASSUME NEW d \in Nat \ {0}, NEW G \in Nat \ {0}, NEW b \in 0 .. (G - 1), NEW t \in 0 .. (d - 1),
           NEW n \in Nat
    PROVE  PairsAre(n, d, G, b, t)
<1>1. PICK m, first : m = 2 * d /\ first = Stride(b * d * 2 + t, n, d * 2 * G)
  OBVIOUS
<1>2. m \in Nat \ {0} /\ t \in 0 .. (m - 1)
  BY <1>1
<1>3. first = {i \in 0 .. (n - 1) : (i \div m) % G = b /\ i % m = t}
  <2>1. PICK s, M : s = b * m + t /\ M = m * G
    OBVIOUS
  <2>2. ASSUME NEW i \in Int PROVE Falls(m, G, b, t, i)
    BY <1>2, PairFirst
  <2>3. \A i \in Int : s \in 0 .. (M - 1) /\ (i % M = s <=> (i \div m) % G = b /\ i % m = t)
    BY <2>1, <2>2, Zenon DEF Falls
  <2>4. s \in 0 .. (M - 1)
    BY <2>3
  <2>5. M \in Nat \ {0}
    BY <1>2, <2>1
  <2>6. Stride(s, n, M) = {i \in 0 .. (n - 1) : i % M = s}
    BY <2>4, <2>5, StrideIs, Zenon
  <2>7. b * d * 2 + t = s /\ d * 2 * G = M
    <3>1. b * d * 2 + t = b * (2 * d) + t
      OBVIOUS
    <3>2. d * 2 * G = (2 * d) * G
      OBVIOUS
    <3>3. QED
      BY <1>1, <2>1, <3>1, <3>2, Zenon
  <2>8. first = {i \in 0 .. (n - 1) : i % M = s}
    BY <1>1, <2>6, <2>7, Zenon
  <2>9. QED
    BY <2>3, <2>8
<1>4. ASSUME NEW i \in 0 .. (n - 1)
      PROVE  /\ i % m \in 0 .. (m - 1)
             /\ i % m < d => i % d = i % m
             /\ i % m >= d => i % d = (i % m) - d
  <2>1. i \in Int
    OBVIOUS
  <2>2. QED
    BY <1>1, <1>2, <2>1, SplitHas, SplitHalf
<1>5. ASSUME NEW i \in first, i + d < n
      PROVE  i + d \in 0 .. (n - 1) /\ ((i + d) \div m) % G = b /\ (i + d) % d = t
  <2>1. i \in Int /\ i + d \in 0 .. (n - 1) /\ i % m = t /\ (i \div m) % G = b
    BY <1>3, <1>5
  <2>2. (i % m) + d \in 0 .. (m - 1)
    BY <1>1, <2>1
  <2>3. (i + d) \div m = i \div m /\ (i + d) % m = t + d
    <3>1. d \in Int
      OBVIOUS
    <3>2. (i + d) \div m = i \div m /\ (i + d) % m = (i % m) + d
      BY <1>2, <2>1, <2>2, <3>1, SplitOn, Zenon
    <3>3. QED
      BY <2>1, <3>2
  <2>4. (i + d) % d = t + d - d
    <3>1. PICK k : k = i + d
      OBVIOUS
    <3>2. k % m = t + d /\ k \in 0 .. (n - 1)
      BY <2>1, <2>3, <3>1
    <3>3. t + d >= d
      OBVIOUS
    <3>4. k % d = (k % m) - d
      BY <1>4, <3>2, <3>3
    <3>5. QED
      BY <3>1, <3>2, <3>4
  <2>5. QED
    BY <2>1, <2>3, <2>4
<1>6. ASSUME NEW i \in 0 .. (n - 1), (i \div m) % G = b, i % d = t, i \notin first
      PROVE  \E j \in first : j + d < n /\ i = j + d
  <2>1. i % m = t + d
    <3>1. i % m # t
      BY <1>3, <1>6
    <3>2. ~ (i % m < d)
      BY <1>4, <1>6, <3>1
    <3>3. i % m \in Int /\ d \in Int /\ i % d = (i % m) - d
      BY <1>4, <3>2
    <3>4. QED
      BY <1>6, <3>3
  <2>2. i \in Int /\ -d \in Int /\ (i % m) + (-d) \in 0 .. (m - 1)
    BY <1>1, <2>1
  <2>3. (i + (-d)) \div m = i \div m /\ (i + (-d)) % m = t
    <3>1. (i + (-d)) \div m = i \div m /\ (i + (-d)) % m = (i % m) + (-d)
      BY <1>2, <2>2, SplitOn
    <3>2. QED
      BY <2>1, <3>1
  <2>4. PICK j : j = i + (-d)
    OBVIOUS
  <2>5. j >= 0
    <3>1. i \div m \in Nat
      BY <1>2, SplitNat
    <3>2. j \in Int
      BY <2>4
    <3>3. PICK q : q = j \div m /\ q \in Nat
      BY <2>3, <2>4, <3>1
    <3>4. Split(j, m, q, t)
      BY <1>2, <2>3, <2>4, <3>2, <3>3, SplitHas
    <3>5. QED
      BY <1>2, <3>3, <3>4 DEF Split
  <2>6. j \in 0 .. (n - 1) /\ j + d = i
    BY <2>4, <2>5
  <2>7. j \in first
    BY <1>3, <1>6, <2>3, <2>4, <2>6
  <2>8. QED
    BY <2>6, <2>7
<1>7. ASSUME NEW i \in first PROVE i \in 0 .. (n - 1) /\ (i \div m) % G = b /\ i % d = t
  <2>1. i \in 0 .. (n - 1) /\ (i \div m) % G = b /\ i % m = t
    BY <1>3
  <2>2. QED
    BY <1>4, <2>1
<1> DEFINE second == {i + d : i \in {j \in first : j + d < n}}
           all == {i \in 0 .. (n - 1) : (i \div m) % G = b /\ i % d = t}
<1>8. second \subseteq all
  BY <1>5
<1>9. first \subseteq all
  BY <1>7
<1>10. all \subseteq first \cup second
  BY <1>6
<1>11. QED
  BY <1>1, <1>8, <1>9, <1>10 DEF PairsAre

\* What a thread of the row-wise kernels takes of row b.
ColumnsAre(n, d, G, b, t) ==
    {b * n + i : i \in Stride(t, n, d)} = {i \in 0 .. (G * n - 1) : i \div n = b /\ (i % n) % d = t}

LEMMA ColumnsIs ==
    ASSUME NEW n \in Nat \ {0}, NEW d \in Nat \ {0}, NEW G \in Nat \ {0}, NEW b \in 0 .. (G - 1),
           NEW t \in 0 .. (d - 1)
    PROVE  ColumnsAre(n, d, G, b, t)
<1>1. Stride(t, n, d) = {i \in 0 .. (n - 1) : i % d = t}
  BY StrideIs
<1> DEFINE all == {i \in 0 .. (G * n - 1) : i \div n = b /\ (i % n) % d = t}
<1>2. ASSUME NEW c \in 0 .. (n - 1)
      PROVE  b * n + c \in 0 .. (G * n - 1) /\ (b * n + c) \div n = b /\ (b * n + c) % n = c
  <2>1. PICK i : i = b * n + c
    OBVIOUS
  <2>2. Split(i, n, b, c)
    BY <2>1 DEF Split
  <2>3. i \div n = b /\ i % n = c
    BY <2>2, SplitIs
  <2>4. i < G * n /\ i >= 0
    <3>1. Below(i, n, b, G)
      BY <2>2, SplitBelow
    <3>2. QED
      BY <3>1 DEF Below
  <2>5. i \in Int /\ G * n \in Int
    BY <2>1
  <2>6. i \in 0 .. (G * n - 1)
    BY <2>4, <2>5
  <2>7. QED
    BY <2>1, <2>3, <2>6
<1>3. {b * n + i : i \in Stride(t, n, d)} \subseteq all
  <2> SUFFICES ASSUME NEW c \in 0 .. (n - 1), c % d = t PROVE b * n + c \in all
    BY <1>1
  <2>1. PICK i : i = b * n + c
    OBVIOUS
  <2>2. i \in 0 .. (G * n - 1) /\ i \div n = b /\ i % n = c
    BY <1>2, <2>1
  <2>3. i \in all
    BY <2>2
  <2>4. QED
    BY <2>1, <2>3
<1>4. ASSUME NEW i \in 0 .. (G * n - 1), i \div n = b, (i % n) % d = t
      PROVE  \E c \in Stride(t, n, d) : i = b * n + c
  <2>1. PICK c : c = i % n
    OBVIOUS
  <2>2. i \in Int
    OBVIOUS
  <2>3. Split(i, n, b, c)
    BY <1>4, <2>1, <2>2, SplitHas
  <2>4. c \in 0 .. (n - 1) /\ i = b * n + c
    BY <2>3 DEF Split
  <2>5. c \in Stride(t, n, d)
    BY <1>1, <1>4, <2>1, <2>4
  <2>6. QED
    BY <2>4, <2>5
<1>5. all \subseteq {b * n + i : i \in Stride(t, n, d)}
  <2> SUFFICES ASSUME NEW i \in all PROVE i \in {b * n + c : c \in Stride(t, n, d)}
    OBVIOUS
  <2>1. \E c \in Stride(t, n, d) : i = b * n + c
    BY <1>4
  <2>2. QED
    BY <2>1
<1>6. QED
  BY <1>3, <1>5 DEF ColumnsAre

Place(i, d, b, t) == i = b * d + t <=> i \div d = b /\ i % d = t

\* What a thread of the elementwise kernels takes, when there is a thread for each element.
LEMMA PlaceIs ==
    ASSUME NEW d \in Nat \ {0}, NEW b \in Nat, NEW t \in 0 .. (d - 1), NEW i \in Int
    PROVE  Place(i, d, b, t)
<1>1. ASSUME i = b * d + t PROVE i \div d = b /\ i % d = t
  <2>1. Split(i, d, b, t)
    BY <1>1 DEF Split
  <2>2. QED
    BY <2>1, SplitIs
<1>2. ASSUME i \div d = b, i % d = t PROVE i = b * d + t
  <2>1. Split(i, d, b, t)
    BY <1>2, SplitHas
  <2>2. QED
    BY <2>1 DEF Split
<1>3. QED
  BY <1>1, <1>2 DEF Place

MapsAre(n, d, G, b, t) ==
    Stride(b * d + t, n, d * G) = {i \in 0 .. (n - 1) : i \div d = b /\ i % d = t}

LEMMA MapIs ==
    ASSUME NEW n \in Nat, NEW d \in Nat \ {0}, NEW G \in Nat \ {0}, NEW b \in 0 .. (G - 1),
           NEW t \in 0 .. (d - 1), n <= G * d
    PROVE  MapsAre(n, d, G, b, t)
<1>1. PICK s, m : s = b * d + t /\ m = d * G
  OBVIOUS
<1>2. m \in Nat \ {0} /\ n <= m /\ s \in 0 .. (m - 1)
  <2>1. m \in Nat \ {0} /\ G * d = m
    BY <1>1
  <2>2. Split(s, d, b, t)
    BY <1>1 DEF Split
  <2>3. s < G * d /\ s >= 0
    <3>1. Below(s, d, b, G)
      BY <2>2, SplitBelow
    <3>2. QED
      BY <3>1 DEF Below
  <2>4. s \in Int
    BY <1>1
  <2>5. QED
    BY <2>1, <2>3, <2>4
<1>3. Stride(s, n, m) = {i \in 0 .. (n - 1) : i % m = s}
  BY <1>2, StrideIs
<1>4. ASSUME NEW i \in 0 .. (n - 1)
      PROVE  i % m = s <=> i \div d = b /\ i % d = t
  <2>1. i \in 0 .. (m - 1) /\ i \in Int
    BY <1>2
  <2>2. Split(i, m, 0, i)
    BY <1>2, <2>1 DEF Split
  <2>3. i % m = i
    BY <1>2, <2>2, SplitIs
  <2>4. Place(i, d, b, t)
    BY <2>1, PlaceIs
  <2>5. QED
    BY <1>1, <2>3, <2>4 DEF Place
<1>5. QED
  BY <1>1, <1>3, <1>4 DEF MapsAre

\* A grid with a thread for each of a elements, b to a block.
LEMMA CeilIs ==
    ASSUME NEW a \in Nat \ {0}, NEW b \in Nat \ {0}
    PROVE  Ceil(a, b) \in Nat \ {0} /\ Ceil(a, b) <= a /\ a <= Ceil(a, b) * b
<1>1. PICK q, r, i : q = (a + b - 1) \div b /\ r = (a + b - 1) % b /\ i = a + b - 1
  OBVIOUS
<1>2. Split(i, b, q, r) /\ i \in Nat
  <2>1. i \in Nat
    BY <1>1
  <2>2. i \in Int
    BY <2>1
  <2>3. Split(i, b, i \div b, i % b)
    BY <2>2, SplitHas, Zenon
  <2>4. QED
    BY <1>1, <2>1, <2>3, Zenon
<1>3. q \in Int /\ r \in 0 .. (b - 1) /\ i = q * b + r /\ q * b \in Int
  BY <1>2 DEF Split
<1>4. q >= 1
  <2>1. ~ (i < 1 * b)
    BY <1>1
  <2>2. i < 1 * b <=> q < 1
    <3>1. Below(i, b, q, 1)
      BY <1>2, SplitBelow
    <3>2. QED
      BY <3>1 DEF Below
  <2>3. QED
    BY <1>3, <2>1, <2>2
<1>5. q <= a
  <2>1. a * b >= a /\ (a + 1) * b = a * b + b /\ a * b \in Int
    OBVIOUS
  <2>2. i < (a + 1) * b
    BY <1>1, <2>1
  <2>3. i < (a + 1) * b <=> q < a + 1
    <3>1. Below(i, b, q, a + 1)
      BY <1>2, SplitBelow
    <3>2. QED
      BY <3>1 DEF Below
  <2>4. QED
    BY <1>3, <2>2, <2>3
<1>6. a <= q * b
  BY <1>1, <1>3
<1>7. QED
  BY <1>1, <1>3, <1>4, <1>5, <1>6 DEF Ceil

-----------------------------------------------------------------------------
(* The launches, and which thread of which block takes which element       *)

Kinds == {"sum", "max", "bridge_sum", "map", "bridge_map", "bridge_div"} \cup RowKernels

Elements(j) == 0 .. (Size(j) - 1)

\* What every launch is like.
Launched(j) ==
    /\ j.kernel \in Kinds /\ j.dim \in Dims /\ j.n \in Nat \ {0} /\ j.grid \in Nat \ {0}
    /\ j.in \in [Elements(j) -> Int]
    /\ j.kernel \in {"sum", "max"} => j.grid <= j.n
    /\ j.kernel = "bridge_sum" => j.grid = 1
    /\ j.kernel \in {"map", "bridge_map", "bridge_div"} => j.n <= j.grid * j.dim

WarpsOf(j) == 0 .. (j.dim \div Warp - 1)

BlockAt(j, i) ==
    CASE j.kernel \in RowKernels       -> i \div j.n
      [] j.kernel \in {"sum", "max"}   -> (i \div (2 * j.dim)) % j.grid
      [] OTHER                         -> i \div j.dim

ThreadAt(j, i) == IF j.kernel \in RowKernels THEN (i % j.n) % j.dim ELSE i % j.dim

OfThread(j, b, t) == {i \in Elements(j) : BlockAt(j, i) = b /\ ThreadAt(j, i) = t}

OfWarp(j, b, w) == {i \in Elements(j) : BlockAt(j, i) = b /\ ThreadAt(j, i) \in Lanes(w)}

OfBlock(j, b) == {i \in Elements(j) : BlockAt(j, i) = b}

LEMMA JobSize ==
    ASSUME NEW j, Launched(j)
    PROVE  /\ Size(j) \in Nat \ {0} /\ IsFiniteSet(Elements(j)) /\ j.dim \in Nat \ {0}
           /\ j.kernel \in RowKernels => Size(j) = j.grid * j.n
           /\ j.kernel \notin RowKernels => Size(j) = j.n
<1>1. j.n \in Nat \ {0} /\ j.grid \in Nat \ {0} /\ j.dim \in Nat \ {0}
  BY KernelAssumption DEF Launched
<1>2. j.grid * j.n \in Nat \ {0}
  BY <1>1
<1>3. Size(j) \in Nat \ {0}
  BY <1>1, <1>2 DEF Size
<1>4. IsFiniteSet(Elements(j))
  BY <1>3, FS_Interval DEF Elements
<1>5. QED
  BY <1>1, <1>3, <1>4 DEF Size

LEMMA ThreadIn ==
    ASSUME NEW j, Launched(j), NEW i \in Elements(j)
    PROVE  ThreadAt(j, i) \in 0 .. (j.dim - 1)
<1>1. j.n \in Nat \ {0} /\ j.dim \in Nat \ {0} /\ i \in Int
  BY JobSize DEF Launched, Elements
<1>2. i % j.dim \in 0 .. (j.dim - 1)
  BY <1>1
<1>3. (i % j.n) \in Int
  BY <1>1
<1>4. (i % j.n) % j.dim \in 0 .. (j.dim - 1)
  BY <1>1, <1>3
<1>5. QED
  BY <1>2, <1>4 DEF ThreadAt

LEMMA BlockIn ==
    ASSUME NEW j, Launched(j), NEW i \in Elements(j)
    PROVE  /\ BlockAt(j, i) \in Nat
           /\ j.kernel # "bridge_sum" => BlockAt(j, i) \in 0 .. (j.grid - 1)
<1>1. j.n \in Nat \ {0} /\ j.grid \in Nat \ {0} /\ j.dim \in Nat \ {0} /\ i \in Nat /\ i < Size(j)
  BY JobSize DEF Launched, Elements
<1>2. CASE j.kernel \in RowKernels
  <2>1. PICK q, r, n, G : q = i \div n /\ r = i % n /\ n = j.n /\ G = j.grid
    OBVIOUS
  <2>2. n \in Nat \ {0} /\ G \in Nat /\ i \in Int
    BY <1>1, <2>1
  <2>3. Split(i, n, q, r)
    BY <2>1, <2>2, SplitHas
  <2>4. Below(i, n, q, G)
    BY <2>2, <2>3, SplitBelow
  <2>5. i < G * n
    BY <1>1, <1>2, <2>1, JobSize
  <2>6. q \in 0 .. (G - 1)
    BY <1>1, <2>2, <2>3, <2>4, <2>5 DEF Below, Split
  <2>7. BlockAt(j, i) = q
    BY <1>2, <2>1 DEF BlockAt, RowKernels
  <2>8. QED
    BY <2>1, <2>2, <2>6, <2>7
<1>3. CASE j.kernel \in {"sum", "max"}
  <2>1. PICK d : d = 2 * j.dim
    OBVIOUS
  <2>2. d \in Nat \ {0}
    BY <1>1, <2>1
  <2>3. i \div d \in Nat
    BY <1>1, <2>2
  <2>4. (i \div d) % j.grid \in 0 .. (j.grid - 1)
    BY <1>1, <2>3
  <2>5. BlockAt(j, i) = (i \div d) % j.grid
    BY <1>3, <2>1 DEF BlockAt, RowKernels
  <2>6. QED
    BY <1>1, <2>4, <2>5
<1>4. CASE j.kernel \notin RowKernels \cup {"sum", "max"}
  <2>1. PICK q, r, d, G : q = i \div d /\ r = i % d /\ d = j.dim /\ G = j.grid
    OBVIOUS
  <2>2. d \in Nat \ {0} /\ G \in Nat /\ i \in Int
    BY <1>1, <2>1
  <2>3. Split(i, d, q, r)
    BY <2>1, <2>2, SplitHas
  <2>4. Below(i, d, q, G)
    BY <2>2, <2>3, SplitBelow
  <2>5. q \in Nat
    BY <1>1, <2>3, <2>4 DEF Below, Split
  <2>6. BlockAt(j, i) = q
    BY <1>4, <2>1 DEF BlockAt
  <2>7. ASSUME j.kernel # "bridge_sum" PROVE q \in 0 .. (G - 1)
    <3>1. j.kernel \in {"map", "bridge_map", "bridge_div"}
      BY <1>4, <2>7 DEF Launched, Kinds
    <3>2. j.n <= G * d /\ Size(j) = j.n
      BY <1>4, <2>1, <3>1, JobSize DEF Launched
    <3>3. G * d \in Int
      BY <2>2
    <3>4. i < G * d
      BY <1>1, <3>2, <3>3
    <3>5. QED
      BY <2>2, <2>4, <2>5, <3>4 DEF Below
  <2>8. QED
    BY <2>1, <2>5, <2>6, <2>7
<1>5. QED
  BY <1>2, <1>3, <1>4

\* The lanes of a block's warps are its threads.
LEMMA LanesAre ==
    ASSUME NEW j, Launched(j)
    PROVE  /\ j.dim \div Warp \in Nat \ {0} /\ IsFiniteSet(WarpsOf(j))
           /\ \A w \in WarpsOf(j) : Lanes(w) \subseteq 0 .. (j.dim - 1) /\ IsFiniteSet(Lanes(w))
           /\ \A t \in 0 .. (j.dim - 1) : t \div Warp \in WarpsOf(j) /\ t \in Lanes(t \div Warp)
           /\ \A v, w \in WarpsOf(j) : v # w => Lanes(v) \cap Lanes(w) = {}
           /\ \A w \in WarpsOf(j) : w * Warp \in Lanes(w) /\ w * Warp \in Int
<1>1. PICK d, N : d = j.dim /\ N = d \div Warp
  OBVIOUS
<1>2. Warp \in Nat \ {0} /\ d \in Nat \ {0} /\ d \in Int /\ d % Warp = 0
  BY <1>1, KernelAssumption DEF Launched
<1>3. Split(d, Warp, N, 0)
  <2>1. Split(d, Warp, d \div Warp, d % Warp)
    BY <1>2, SplitHas
  <2>2. QED
    BY <1>1, <1>2, <2>1
<1>4. d = N * Warp /\ N \in Int
  BY <1>2, <1>3 DEF Split
<1>5. N \in Nat \ {0}
  <2>1. Below(d, Warp, N, 1)
    BY <1>2, <1>3, SplitBelow
  <2>2. N >= 0 /\ N # 0
    BY <1>2, <1>4, <2>1 DEF Below
  <2>3. QED
    BY <1>4, <2>2
<1>6. \A w \in 0 .. (N - 1) : w * Warp \in Nat /\ w * Warp \in Lanes(w)
  BY <1>2, <1>5 DEF Lanes
<1>7. ASSUME NEW w \in 0 .. (N - 1), NEW t \in Lanes(w) PROVE Split(t, Warp, w, t - w * Warp)
  <2>1. PICK p : p = w * Warp
    OBVIOUS
  <2>2. p \in Nat
    BY <1>6, <2>1
  <2>3. t \in p .. (p + Warp - 1)
    BY <2>1 DEF Lanes
  <2>4. t - p \in 0 .. (Warp - 1) /\ t = p + (t - p)
    BY <1>2, <2>2, <2>3
  <2>5. QED
    BY <2>1, <2>4 DEF Split
<1>8. ASSUME NEW w \in 0 .. (N - 1), NEW t \in Lanes(w) PROVE t \in 0 .. (d - 1) /\ t \div Warp = w
  <2>1. PICK r : r = t - w * Warp
    OBVIOUS
  <2>2. Split(t, Warp, w, r)
    BY <1>7, <2>1
  <2>3. t \div Warp = w
    BY <1>2, <2>2, SplitIs
  <2>4. Below(t, Warp, w, N)
    BY <1>2, <1>5, <2>2, SplitBelow
  <2>5. t \in Int
    <3>1. w * Warp \in Nat
      BY <1>6
    <3>2. QED
      BY <1>2, <3>1 DEF Lanes
  <2>6. t < N * Warp /\ t >= 0
    BY <1>5, <2>4 DEF Below
  <2>7. t < d
    BY <1>4, <2>6
  <2>8. QED
    BY <1>2, <2>3, <2>5, <2>6, <2>7
<1>9. ASSUME NEW t \in 0 .. (d - 1) PROVE t \div Warp \in 0 .. (N - 1) /\ t \in Lanes(t \div Warp)
  <2>1. PICK q, r : q = t \div Warp /\ r = t % Warp
    OBVIOUS
  <2>2. t \in Int
    OBVIOUS
  <2>3. Split(t, Warp, q, r)
    BY <1>2, <2>1, <2>2, SplitHas
  <2>4. Below(t, Warp, q, N)
    BY <1>2, <1>5, <2>3, SplitBelow
  <2>5. q \in Int /\ r \in 0 .. (Warp - 1) /\ t = q * Warp + r
    BY <2>3 DEF Split
  <2>6. q \in 0 .. (N - 1)
    BY <1>4, <1>5, <2>4, <2>5 DEF Below
  <2>7. t \in Lanes(q)
    <3>1. q * Warp \in Nat
      BY <1>6, <2>6
    <3>2. QED
      BY <1>2, <2>5, <3>1 DEF Lanes
  <2>8. QED
    BY <2>1, <2>6, <2>7
<1>10. \A w \in 0 .. (N - 1) : IsFiniteSet(Lanes(w))
  <2> SUFFICES ASSUME NEW w \in 0 .. (N - 1) PROVE IsFiniteSet(Lanes(w))
    OBVIOUS
  <2>1. w * Warp \in Int /\ w * Warp + Warp - 1 \in Int
    BY <1>2, <1>6
  <2>2. QED
    BY <2>1, FS_Interval DEF Lanes
<1>11. IsFiniteSet(0 .. (N - 1))
  BY <1>5, FS_Interval
<1>12. \A v, w \in 0 .. (N - 1) : v # w => Lanes(v) \cap Lanes(w) = {}
  BY <1>8
<1>13. WarpsOf(j) = 0 .. (N - 1)
  BY <1>1 DEF WarpsOf
<1>14. QED
  BY <1>1, <1>5, <1>6, <1>8, <1>9, <1>10, <1>11, <1>12, <1>13

\* Reductions over the elements, part by part: threads to a warp or a block, warps to
\* a block, blocks to all elements.
LEMMA OfFinite ==
    ASSUME NEW j, Launched(j), NEW b
    PROVE  /\ \A t : IsFiniteSet(OfThread(j, b, t))
           /\ \A w : IsFiniteSet(OfWarp(j, b, w))
           /\ IsFiniteSet(OfBlock(j, b))
<1>1. IsFiniteSet(Elements(j))
  BY JobSize
<1>2. \A t : OfThread(j, b, t) \in SUBSET Elements(j)
  BY DEF OfThread
<1>3. \A w : OfWarp(j, b, w) \in SUBSET Elements(j)
  BY DEF OfWarp
<1>4. OfBlock(j, b) \in SUBSET Elements(j)
  BY DEF OfBlock
<1>5. QED
  BY <1>1, <1>2, <1>3, <1>4, FS_Subset

OfThreads(j, b, T) == {i \in OfBlock(j, b) : ThreadAt(j, i) \in T}

LEMMA ThreadParts ==
    ASSUME NEW j, Launched(j), NEW b, NEW T, IsFiniteSet(T), NEW m \in Modes, NEW f,
           \A i \in Elements(j) : f[i] \in Int,
           NEW h, \A t \in T : h[t] = Fold(m, f, OfThread(j, b, t))
    PROVE  Fold(m, h, T) = Fold(m, f, OfThreads(j, b, T))
<1> DEFINE S == OfThreads(j, b, T)
           P == [t \in T |-> OfThread(j, b, t)]
<1>1. \A t \in T : IsFiniteSet(P[t])
  BY OfFinite
<1>2. \A t, u \in T : t # u => P[t] \cap P[u] = {}
  BY DEF OfThread
<1>3. \A t \in T : h[t] = Fold(m, f, P[t])
  OBVIOUS
<1>4. \A t \in T : P[t] \subseteq S
  BY DEF OfThread, OfBlock, OfThreads
<1>5. \A i \in S : \E t \in T : i \in P[t]
  BY DEF OfThread, OfBlock, OfThreads
<1>6. \A i \in S : f[i] \in Int
  BY DEF OfBlock, OfThreads
<1> HIDE DEF P, S
<1>7. Fold(m, h, T) = Fold(m, f, S)
  BY <1>1, <1>2, <1>3, <1>4, <1>5, <1>6, FoldParts
<1>8. QED
  BY <1>7 DEF S

LEMMA LaneParts ==
    ASSUME NEW j, Launched(j), NEW b, NEW w \in WarpsOf(j), NEW m \in Modes, NEW f,
           \A i \in Elements(j) : f[i] \in Int,
           NEW h, \A t \in Lanes(w) : h[t] = Fold(m, f, OfThread(j, b, t))
    PROVE  Fold(m, h, Lanes(w)) = Fold(m, f, OfWarp(j, b, w))
<1>1. IsFiniteSet(Lanes(w))
  BY LanesAre
<1>2. OfWarp(j, b, w) = OfThreads(j, b, Lanes(w))
  BY DEF OfBlock, OfWarp, OfThreads
<1>3. QED
  BY <1>1, <1>2, ThreadParts

LEMMA AllThreadParts ==
    ASSUME NEW j, Launched(j), NEW b, NEW m \in Modes, NEW f,
           \A i \in Elements(j) : f[i] \in Int,
           NEW h, \A t \in 0 .. (j.dim - 1) : h[t] = Fold(m, f, OfThread(j, b, t))
    PROVE  Fold(m, h, 0 .. (j.dim - 1)) = Fold(m, f, OfBlock(j, b))
<1> DEFINE T == 0 .. (j.dim - 1)
<1>2. OfBlock(j, b) = OfThreads(j, b, T)
  BY ThreadIn DEF OfBlock, OfThreads
<1>3. \A t \in T : h[t] = Fold(m, f, OfThread(j, b, t))
  OBVIOUS
<1>4. IsFiniteSet(T)
  <2>1. j.dim \in Nat
    BY JobSize
  <2>2. QED
    BY <2>1, FS_Interval
<1> HIDE DEF T
<1>5. Fold(m, h, T) = Fold(m, f, OfBlock(j, b))
  BY <1>2, <1>3, <1>4, ThreadParts
<1>6. QED
  BY <1>5 DEF T

LEMMA WarpParts ==
    ASSUME NEW j, Launched(j), NEW b, NEW m \in Modes, NEW f,
           \A i \in Elements(j) : f[i] \in Int,
           NEW h, \A w \in WarpsOf(j) : h[w] = Fold(m, f, OfWarp(j, b, w))
    PROVE  Fold(m, h, WarpsOf(j)) = Fold(m, f, OfBlock(j, b))
<1> DEFINE T == WarpsOf(j)
           P == [w \in T |-> OfWarp(j, b, w)]
<1>1. \A w \in T : IsFiniteSet(P[w])
  BY OfFinite
<1>2. \A v, w \in T : v # w => P[v] \cap P[w] = {}
  BY LanesAre DEF OfWarp
<1>3. \A w \in T : h[w] = Fold(m, f, P[w])
  OBVIOUS
<1>4. IsFiniteSet(T)
  BY LanesAre
<1> DEFINE S == OfBlock(j, b)
<1>5. \A w \in T : P[w] \subseteq S
  BY DEF OfWarp, OfBlock
<1>6. ASSUME NEW i \in S PROVE \E w \in T : i \in P[w]
  <2>1. i \in Elements(j) /\ BlockAt(j, i) = b
    BY DEF OfBlock
  <2>2. ThreadAt(j, i) \div Warp \in T /\ ThreadAt(j, i) \in Lanes(ThreadAt(j, i) \div Warp)
    BY <2>1, ThreadIn, LanesAre
  <2>3. QED
    BY <2>1, <2>2 DEF OfWarp
<1>7. \A i \in S : f[i] \in Int
  BY DEF OfBlock
<1> HIDE DEF P, S, T
<1>8. Fold(m, h, T) = Fold(m, f, S)
  BY <1>1, <1>2, <1>3, <1>4, <1>5, <1>6, <1>7, FoldParts
<1>9. QED
  BY <1>8 DEF S, T

LEMMA BlockParts ==
    ASSUME NEW j, Launched(j), j.kernel # "bridge_sum", NEW m \in Modes, NEW f,
           \A i \in Elements(j) : f[i] \in Int,
           NEW h, \A b \in 0 .. (j.grid - 1) : h[b] = Fold(m, f, OfBlock(j, b))
    PROVE  Fold(m, h, 0 .. (j.grid - 1)) = Fold(m, f, Elements(j))
<1> DEFINE T == 0 .. (j.grid - 1)
           P == [b \in T |-> OfBlock(j, b)]
<1>1. \A b \in T : IsFiniteSet(P[b])
  BY OfFinite
<1>2. \A b, c \in T : b # c => P[b] \cap P[c] = {}
  BY DEF OfBlock
<1>3. \A b \in T : h[b] = Fold(m, f, P[b])
  OBVIOUS
<1>4. IsFiniteSet(T)
  <2>1. 0 \in Int /\ j.grid - 1 \in Int
    BY DEF Launched
  <2>2. QED
    BY <2>1, FS_Interval
<1> DEFINE S == Elements(j)
<1>5. (\A c \in T : P[c] \subseteq S) /\ (\A i \in S : \E c \in T : i \in P[c])
  <2>1. \A i \in Elements(j) : BlockAt(j, i) \in T /\ i \in OfBlock(j, BlockAt(j, i))
    BY BlockIn DEF OfBlock
  <2>2. \A b \in T : P[b] \subseteq Elements(j)
    BY DEF OfBlock
  <2>3. QED
    BY <2>1, <2>2
<1> HIDE DEF P, S, T
<1>6. \A i \in S : f[i] \in Int
  BY DEF S
<1>7. Fold(m, h, T) = Fold(m, f, S)
  BY <1>1, <1>2, <1>3, <1>4, <1>5, <1>6, FoldParts
<1>8. QED
  BY <1>7 DEF S, T

\* What the kernels' threads read and write.
LEMMA PairsOf ==
    ASSUME Launched(job), job.kernel \in {"sum", "max"}, kblock \in 0 .. (job.grid - 1),
           NEW t \in 0 .. (job.dim - 1)
    PROVE  Pairs(t) = OfThread(job, kblock, t)
<1> DEFINE all == {i \in 0 .. (job.n - 1) : (i \div (2 * job.dim)) % job.grid = kblock /\ i % job.dim = t}
<1>1. PICK d, G, b, n : d = job.dim /\ G = job.grid /\ b = kblock /\ n = job.n
  OBVIOUS
<1>2. d \in Nat \ {0} /\ G \in Nat \ {0} /\ b \in 0 .. (G - 1) /\ t \in 0 .. (d - 1) /\ n \in Nat
  BY <1>1, JobSize DEF Launched
<1>3. PICK first : first = Stride(b * d * 2 + t, n, d * 2 * G)
  OBVIOUS
<1>4. PairsAre(n, d, G, b, t)
  BY <1>2, PairsIs
<1>5. Pairs(t) = first \cup {i + d : i \in {j \in first : j + d < n}}
  BY <1>1, <1>3 DEF Pairs
<1>6. Elements(job) = 0 .. (n - 1)
  BY <1>1, JobSize DEF Elements, RowKernels
<1>7. OfThread(job, kblock, t) = {i \in 0 .. (n - 1) : (i \div (2 * d)) % G = b /\ i % d = t}
  BY <1>1, <1>6 DEF OfThread, BlockAt, ThreadAt, RowKernels
<1>8. QED
  BY <1>3, <1>4, <1>5, <1>7 DEF PairsAre

LEMMA ColumnsOf ==
    ASSUME Launched(job), job.kernel \in RowKernels, kblock \in 0 .. (job.grid - 1)
    PROVE  /\ \A t \in 0 .. (job.dim - 1) : Columns(t) = OfThread(job, kblock, t)
           /\ \A w \in WarpsOf(job) : UNION {Columns(t) : t \in Lanes(w)} = OfWarp(job, kblock, w)
<1>1. PICK d, G, b, n : d = job.dim /\ G = job.grid /\ b = kblock /\ n = job.n
  OBVIOUS
<1>2. d \in Nat \ {0} /\ G \in Nat \ {0} /\ b \in 0 .. (G - 1) /\ n \in Nat \ {0}
  BY <1>1, JobSize DEF Launched
<1>3. ASSUME NEW t \in 0 .. (job.dim - 1) PROVE Columns(t) = OfThread(job, kblock, t)
  <2>1. t \in 0 .. (d - 1)
    BY <1>1
  <2>2. ColumnsAre(n, d, G, b, t)
    BY <1>2, <2>1, ColumnsIs
  <2>3. Elements(job) = 0 .. (G * n - 1)
    BY <1>1, JobSize DEF Elements
  <2>4. OfThread(job, kblock, t) = {i \in 0 .. (G * n - 1) : i \div n = b /\ (i % n) % d = t}
    BY <1>1, <2>3 DEF OfThread, BlockAt, ThreadAt, RowKernels
  <2>5. Columns(t) = {b * n + i : i \in Stride(t, n, d)}
    BY <1>1 DEF Columns
  <2>6. QED
    BY <2>2, <2>4, <2>5 DEF ColumnsAre
<1>4. ASSUME NEW w \in WarpsOf(job)
      PROVE  UNION {Columns(t) : t \in Lanes(w)} = OfWarp(job, kblock, w)
  <2>1. \A t \in Lanes(w) : Columns(t) = OfThread(job, kblock, t)
    BY <1>3, LanesAre
  <2>2. UNION {OfThread(job, kblock, t) : t \in Lanes(w)} = OfWarp(job, kblock, w)
    BY DEF OfThread, OfWarp
  <2>3. QED
    BY <2>1, <2>2
<1>5. QED
  BY <1>3, <1>4

LEMMA MapOf ==
    ASSUME Launched(job), job.kernel \in {"map", "bridge_map", "bridge_div"},
           kblock \in 0 .. (job.grid - 1), NEW w \in WarpsOf(job)
    PROVE  /\ UNION {Stride(kblock * job.dim + t, job.n, job.dim * job.grid) : t \in Lanes(w)}
                = OfWarp(job, kblock, w)
           /\ {kblock * job.dim + t : t \in Lanes(w)} \cap 0 .. (job.n - 1) = OfWarp(job, kblock, w)
<1>1. PICK d, G, b, n : d = job.dim /\ G = job.grid /\ b = kblock /\ n = job.n
  OBVIOUS
<1>2. d \in Nat \ {0} /\ G \in Nat \ {0} /\ b \in 0 .. (G - 1) /\ n \in Nat
  BY <1>1, JobSize DEF Launched
<1>3. n <= G * d
  BY <1>1 DEF Launched
<1>4. Elements(job) = 0 .. (n - 1)
  BY <1>1, JobSize DEF Elements, RowKernels
<1>5. OfWarp(job, kblock, w) = {i \in 0 .. (n - 1) : i \div d = b /\ i % d \in Lanes(w)}
  BY <1>1, <1>4 DEF OfWarp, BlockAt, ThreadAt, RowKernels
<1>6. \A t \in Lanes(w) : t \in 0 .. (d - 1)
  BY <1>1, LanesAre
<1>7. \A t \in Lanes(w) : Stride(b * d + t, n, d * G) = {i \in 0 .. (n - 1) : i \div d = b /\ i % d = t}
  <2> SUFFICES ASSUME NEW t \in Lanes(w) PROVE MapsAre(n, d, G, b, t)
    BY DEF MapsAre
  <2>1. QED
    BY <1>2, <1>3, <1>6, MapIs
<1>8. UNION {Stride(b * d + t, n, d * G) : t \in Lanes(w)}
        = {i \in 0 .. (n - 1) : i \div d = b /\ i % d \in Lanes(w)}
  BY <1>7
<1>9. \A t \in Lanes(w), i \in 0 .. (n - 1) : i = b * d + t <=> i \div d = b /\ i % d = t
  <2> SUFFICES ASSUME NEW t \in Lanes(w), NEW i \in 0 .. (n - 1) PROVE Place(i, d, b, t)
    BY DEF Place
  <2>1. t \in 0 .. (d - 1) /\ i \in Int /\ b \in Nat
    BY <1>2, <1>6
  <2>2. QED
    BY <1>2, <2>1, PlaceIs
<1>10. {b * d + t : t \in Lanes(w)} \cap 0 .. (n - 1)
         = {i \in 0 .. (n - 1) : i \div d = b /\ i % d \in Lanes(w)}
  BY <1>9
<1>11. QED
  BY <1>1, <1>5, <1>8, <1>10

-----------------------------------------------------------------------------
(* The reduction over the lanes of a warp                                  *)

\* Two values of each mode.
LEMMA FoldTwo ==
    ASSUME NEW m \in Modes, NEW x, NEW y, x # y, NEW f, f[x] \in Vals(m), f[y] \in Vals(m)
    PROVE  IsFiniteSet({x, y}) /\ Fold(m, f, {x, y}) = Join(m, f[x], f[y])
<1>1. f[x] \in Int /\ f[y] \in Int
  BY JoinLaws
<1>2. Fold(m, f, {y} \cup {x}) = Join(m, f[x], Fold(m, f, {y}))
  <2>1. IsFiniteSet({y})
    BY FS_Singleton
  <2>2. \A z \in {y} \cup {x} : f[z] \in Int
    BY <1>1
  <2>3. x \notin {y}
    OBVIOUS
  <2>4. QED
    BY <2>1, <2>2, <2>3, FoldMore
<1>3. Fold(m, f, {y}) = f[y]
  BY <1>1, FoldOne, JoinLaws
<1>4. {y} \cup {x} = {x, y}
  OBVIOUS
<1>5. IsFiniteSet({y} \cup {x})
  BY FS_Singleton, FS_AddElement
<1>6. QED
  BY <1>2, <1>3, <1>4, <1>5

\* The second half of a run of cells joined to the first.
HalfKept(m, p, o, f, h) == Fold(m, h, p .. (p + o - 1)) = Fold(m, f, p .. (p + 2 * o - 1))

LEMMA FoldPair ==
    ASSUME NEW m \in Modes, NEW f, f[1] \in Vals(m), f[2] \in Vals(m)
    PROVE  Fold(m, f, {1, 2}) = Join(m, f[1], f[2])
<1>1. PICK a, c : a = 1 /\ c = 2
  OBVIOUS
<1>2. a # c /\ f[a] \in Vals(m) /\ f[c] \in Vals(m)
  BY <1>1
<1>3. Fold(m, f, {a, c}) = Join(m, f[a], f[c])
  BY <1>2, FoldTwo
<1>4. QED
  BY <1>1, <1>3

\* The sets P[t], t in T, cut S up, and h has the fold of f over each of them.
CutUp(m, T, P, f, S, h) ==
    /\ IsFiniteSet(T) /\ \A t \in T : IsFiniteSet(P[t])
    /\ \A t \in T : P[t] \subseteq S
    /\ \A x \in S : \E t \in T : x \in P[t]
    /\ \A x \in S : f[x] \in Int
    /\ \A t, u \in T : t # u => P[t] \cap P[u] = {}
    /\ \A t \in T : h[t] = Fold(m, f, P[t])

LEMMA FoldCutUp ==
    ASSUME NEW m \in Modes, NEW T, NEW P, NEW f, NEW S, NEW h, CutUp(m, T, P, f, S, h)
    PROVE  Fold(m, h, T) = Fold(m, f, S)
<1>1. /\ IsFiniteSet(T) /\ \A t \in T : IsFiniteSet(P[t])
      /\ \A t \in T : P[t] \subseteq S
      /\ \A x \in S : \E t \in T : x \in P[t]
      /\ \A x \in S : f[x] \in Int
      /\ \A t, u \in T : t # u => P[t] \cap P[u] = {}
      /\ \A t \in T : h[t] = Fold(m, f, P[t])
  BY DEF CutUp
<1>2. QED
  BY <1>1, FoldParts

LEMMA FoldHalf ==
    ASSUME NEW m \in Modes, NEW p \in Int, NEW o \in Nat \ {0}, NEW f, NEW h,
           \A t \in p .. (p + 2 * o - 1) : f[t] \in Vals(m),
           \A t \in p .. (p + o - 1) : h[t] = Join(m, f[t], f[t + o])
    PROVE  HalfKept(m, p, o, f, h)
<1> DEFINE T == p .. (p + o - 1)
           S == p .. (p + 2 * o - 1)
           P == [t \in T |-> {t, t + o}]
<1>1. IsFiniteSet(T)
  BY FS_Interval
<1>2. ASSUME NEW t \in T
      PROVE  IsFiniteSet({t, t + o}) /\ Fold(m, f, {t, t + o}) = Join(m, f[t], f[t + o])
  <2>1. PICK a, c : a = t /\ c = t + o
    OBVIOUS
  <2>2. a # c /\ f[a] \in Vals(m) /\ f[c] \in Vals(m)
    BY <2>1
  <2>3. IsFiniteSet({a, c}) /\ Fold(m, f, {a, c}) = Join(m, f[a], f[c])
    BY <2>2, FoldTwo
  <2>4. QED
    BY <2>1, <2>3
<1>3. \A t \in T : P[t] \subseteq S
  OBVIOUS
<1>4. ASSUME NEW x \in S PROVE \E t \in T : x \in P[t]
  <2>1. CASE x \in T
    BY <2>1
  <2>2. CASE x \notin T
    <3>1. x - o \in T /\ x = (x - o) + o
      BY <2>2
    <3>2. x \in P[x - o]
      BY <3>1
    <3>3. QED
      BY <3>1, <3>2
  <2>3. QED
    BY <2>1, <2>2
<1>5. \A x \in S : f[x] \in Int
  BY JoinLaws
<1>6. \A t, u \in T : t # u => P[t] \cap P[u] = {}
  OBVIOUS
<1>7. \A t \in T : h[t] = Fold(m, f, P[t])
  BY <1>2
<1>8. \A t \in T : IsFiniteSet(P[t])
  BY <1>2
<1> HIDE DEF S, P, T
<1>9. CutUp(m, T, P, f, S, h)
  BY <1>1, <1>3, <1>4, <1>5, <1>6, <1>7, <1>8, Zenon DEF CutUp
<1>10. Fold(m, h, T) = Fold(m, f, S)
  BY <1>9, FoldCutUp
<1>11. QED
  BY <1>10 DEF S, T, HalfKept

\* One shuffle of the lanes.
Shuffled(m, g, w, o) == [t \in Lanes(w) |-> Join(m, g[t], ShuffleDown(g, w, o)[t])]

SumShuffle(g, w, o) == [t \in Lanes(w) |-> g[t] + ShuffleDown(g, w, o)[t]]

MaxShuffle(g, w, o) == [t \in Lanes(w) |-> MaxOf(<<g[t], ShuffleDown(g, w, o)[t]>>, {1, 2})]

LaneVals(m, w) == [Lanes(w) -> Vals(m)]

LEMMA ShuffleIs ==
    ASSUME NEW m \in Modes, m # "prod", NEW w, NEW g \in LaneVals(m, w), NEW o \in Nat
    PROVE  /\ Shuffled(m, g, w, o) \in LaneVals(m, w)
           /\ \A t \in Lanes(w) : ShuffleDown(g, w, o)[t] \in Vals(m)
           /\ m = "sum" => Shuffled(m, g, w, o) = SumShuffle(g, w, o)
           /\ m = "max" => Shuffled(m, g, w, o) = MaxShuffle(g, w, o)
<1>1. ASSUME NEW t \in Lanes(w) PROVE ShuffleDown(g, w, o)[t] \in Vals(m)
  BY DEF ShuffleDown, LaneVals
<1>2. ASSUME NEW t \in Lanes(w) PROVE Join(m, g[t], ShuffleDown(g, w, o)[t]) \in Vals(m)
  <2>1. g[t] \in Vals(m)
    BY DEF LaneVals
  <2>2. QED
    BY <1>1, <2>1, JoinLaws
<1>3. ASSUME m = "sum"
      PROVE  Shuffled(m, g, w, o) = SumShuffle(g, w, o)
  BY <1>3 DEF Shuffled, SumShuffle, Join
<1>4. ASSUME m = "max", NEW t \in Lanes(w)
      PROVE  Join(m, g[t], ShuffleDown(g, w, o)[t]) = MaxOf(<<g[t], ShuffleDown(g, w, o)[t]>>, {1, 2})
  <2>1. PICK x, y, f : x = g[t] /\ y = ShuffleDown(g, w, o)[t] /\ f = <<x, y>>
    OBVIOUS
  <2>2. x \in Vals(m) /\ y \in Vals(m)
    BY <1>1, <2>1 DEF LaneVals
  <2>3. f[1] = x /\ f[2] = y
    BY <2>1
  <2>4. Fold(m, f, {1, 2}) = Join(m, x, y)
    <3>1. f[1] \in Vals(m) /\ f[2] \in Vals(m)
      BY <2>2, <2>3
    <3>2. Fold(m, f, {1, 2}) = Join(m, f[1], f[2])
      BY <3>1, FoldPair
    <3>3. QED
      BY <2>3, <3>2
  <2>5. Fold(m, f, {1, 2}) = MaxOf(f, {1, 2})
    BY <1>4 DEF Fold
  <2>6. QED
    BY <2>1, <2>4, <2>5
<1>5. QED
  BY <1>1, <1>2, <1>3, <1>4 DEF Shuffled, MaxShuffle, LaneVals

\* warp_reduce_sum and warp_reduce_max over any offsets.
WarpLoop(m, f, w, q) ==
    IF m = "sum"
    THEN FoldLeft(LAMBDA g, offset : [t \in Lanes(w) |-> g[t] + ShuffleDown(g, w, offset)[t]], f, q)
    ELSE FoldLeft(LAMBDA g, offset :
                    [t \in Lanes(w) |-> MaxOf(<<g[t], ShuffleDown(g, w, offset)[t]>>, {1, 2})], f, q)

\* The values its lanes go through.
WarpSteps(m, f, w, q, tr) ==
    /\ tr \in [0 .. Len(q) -> LaneVals(m, w)]
    /\ tr[0] = f
    /\ \A k \in 1 .. Len(q) : tr[k] = Shuffled(m, tr[k - 1], w, q[k])

LEMMA WarpTrace ==
    ASSUME NEW m \in Modes, m # "prod", NEW w, NEW f \in LaneVals(m, w), NEW q \in Seq(Nat)
    PROVE  \E tr : WarpSteps(m, f, w, q, tr) /\ WarpLoop(m, f, w, q) = tr[Len(q)]
<1> DEFINE n == Len(q)
           U == LaneVals(m, w)
           F == [g \in U |-> [o \in Nat |-> Shuffled(m, g, w, o)]]
           Sum(g, o) == SumShuffle(g, w, o)
           Top(g, o) == MaxShuffle(g, w, o)
           EqnSum(g) == g = [s \in SUBSET (DOMAIN q) |->
                          IF s = {} THEN f ELSE Sum(g[s \ {Max(s)}], q[Max(s)])]
           EqnMax(g) == g = [s \in SUBSET (DOMAIN q) |->
                          IF s = {} THEN f ELSE Top(g[s \ {Max(s)}], q[Max(s)])]
           it == IF m = "sum" THEN CHOOSE g : EqnSum(g) ELSE CHOOSE g : EqnMax(g)
           Step(g, o) == IF m = "sum" THEN Sum(g, o) ELSE Top(g, o)
           Eqn(g) == g = [s \in SUBSET (DOMAIN q) |->
                       IF s = {} THEN f ELSE Step(g[s \ {Max(s)}], q[Max(s)])]
<1>0. n \in Nat /\ DOMAIN q = 1 .. n /\ \A k \in 1 .. n : q[k] \in Nat
  OBVIOUS
<1>1. ASSUME NEW g \in U, NEW o \in Nat PROVE Step(g, o) = Shuffled(m, g, w, o) /\ Step(g, o) \in U
  <2>1. CASE m = "sum"
    <3>1. Shuffled(m, g, w, o) = Sum(g, o) /\ Shuffled(m, g, w, o) \in U
      BY <2>1, ShuffleIs
    <3>2. Step(g, o) = Sum(g, o)
      BY <2>1
    <3>3. QED
      BY <3>1, <3>2, Zenon
  <2>2. CASE m = "max"
    <3>1. Shuffled(m, g, w, o) = Top(g, o) /\ Shuffled(m, g, w, o) \in U
      BY <2>2, ShuffleIs
    <3>2. Step(g, o) = Top(g, o)
      BY <2>2
    <3>3. QED
      BY <3>1, <3>2, Zenon
  <2>3. QED
    BY <2>1, <2>2 DEF Modes
<1>2. /\ m = "sum" => \A g : EqnSum(g) <=> Eqn(g)
      /\ m = "max" => \A g : EqnMax(g) <=> Eqn(g)
  <2> HIDE DEF Sum, Top
  <2>1. QED
    OBVIOUS
<1>3. /\ m = "sum" => WarpLoop(m, f, w, q) = it[1 .. n]
      /\ m = "max" => WarpLoop(m, f, w, q) = it[1 .. n]
  BY <1>0 DEF WarpLoop, SumShuffle, MaxShuffle, FoldLeft, MapThenFoldSet
<1> HIDE DEF EqnSum, EqnMax, Step, Sum, Top
<1>4. \E g : Eqn(g)
  <2>1. F \in [U -> [Nat -> U]]
    BY <1>1
  <2>2. PICK g : IsFold(g, U, F, f, q)
    <3> HIDE DEF F
    <3>1. QED
      BY <2>1, FoldExists
  <2>3. ASSUME NEW s \in SUBSET (1 .. n)
        PROVE  (IF s = {} THEN f ELSE F[g[s \ {Max(s)}]][q[Max(s)]]) =
               (IF s = {} THEN f ELSE Step(g[s \ {Max(s)}], q[Max(s)]))
    <3>1. s # {} => Max(s) \in 1 .. n /\ s \ {Max(s)} \in SUBSET (1 .. n)
      BY <1>0, MaxBelow
    <3>2. s # {} => q[Max(s)] \in Nat /\ g[s \ {Max(s)}] \in U
      BY <1>0, <2>2, <3>1 DEF IsFold
    <3>3. QED
      BY <1>1, <3>2
  <2>4. Eqn(g)
    BY <1>0, <2>2, <2>3 DEF IsFold
  <2>5. QED
    BY <2>4
<1>5. Eqn(it)
  <2>1. CASE m = "sum"
    <3>1. \E g : EqnSum(g)
      BY <1>2, <1>4, <2>1
    <3>2. EqnSum(it)
      BY <2>1, <3>1
    <3>3. \A g : EqnSum(g) <=> Eqn(g)
      BY <1>2, <2>1
    <3>4. QED
      BY <3>2, <3>3, Zenon
  <2>2. CASE m = "max"
    <3>1. \E g : EqnMax(g)
      BY <1>2, <1>4, <2>2
    <3>2. EqnMax(it)
      BY <2>2, <3>1
    <3>3. \A g : EqnMax(g) <=> Eqn(g)
      BY <1>2, <2>2
    <3>4. QED
      BY <3>2, <3>3, Zenon
  <2>3. QED
    BY <2>1, <2>2 DEF Modes
<1> HIDE DEF it
<1> DEFINE tr == [k \in 0 .. n |-> it[1 .. k]]
<1>6. it[{}] = f /\ \A k \in 1 .. n : it[1 .. k] = Step(it[1 .. (k - 1)], q[k])
  <2>1. it[{}] = f
    BY <1>5
  <2>2. ASSUME NEW k \in 1 .. n PROVE it[1 .. k] = Step(it[1 .. (k - 1)], q[k])
    <3>1. /\ 1 .. k \in SUBSET (DOMAIN q) /\ 1 .. k # {}
          /\ Max(1 .. k) = k /\ (1 .. k) \ {k} = 1 .. (k - 1)
      BY <1>0, FoldPrefix
    <3>2. \A s \in SUBSET (DOMAIN q) : s # {} => it[s] = Step(it[s \ {Max(s)}], q[Max(s)])
      BY <1>5
    <3>3. QED
      BY <3>1, <3>2
  <2>3. QED
    BY <2>1, <2>2
<1>7. tr[0] = f /\ \A k \in 1 .. n : tr[k] = Step(tr[k - 1], q[k])
  <2>1. 1 .. 0 = {}
    OBVIOUS
  <2>2. QED
    BY <1>0, <1>6, <2>1
<1> DEFINE S == {j \in Nat : j <= n => tr[j] \in U}
<1>8. \A k \in Nat : k \in S
  <2>1. 0 \in S
    BY <1>7
  <2>2. ASSUME NEW k \in Nat, k \in S PROVE k + 1 \in S
    <3> SUFFICES ASSUME k + 1 <= n PROVE tr[k + 1] \in U
      OBVIOUS
    <3>1. k + 1 \in 1 .. n /\ tr[k] \in U /\ q[k + 1] \in Nat
      BY <1>0, <2>2
    <3> HIDE DEF tr
    <3>2. tr[k + 1] = Step(tr[k], q[k + 1])
      BY <1>7, <3>1
    <3>3. QED
      BY <1>1, <3>1, <3>2
  <2> HIDE DEF S
  <2>3. QED
    BY <2>1, <2>2, NatInduct
<1>9. tr \in [0 .. n -> U]
  <2>1. \A k \in 0 .. n : tr[k] \in U
    <3> HIDE DEF tr
    <3>1. QED
      BY <1>0, <1>8
  <2>2. QED
    BY <2>1
<1>10. WarpLoop(m, f, w, q) = tr[n]
  BY <1>0, <1>3 DEF Modes
<1>11. \A k \in 1 .. n : tr[k] = Shuffled(m, tr[k - 1], w, q[k])
  <2> SUFFICES ASSUME NEW k \in 1 .. n PROVE tr[k] = Shuffled(m, tr[k - 1], w, q[k])
    OBVIOUS
  <2> HIDE DEF tr
  <2>1. k - 1 \in 0 .. n
    BY <1>0
  <2>2. tr[k - 1] \in U /\ q[k] \in Nat
    BY <1>0, <1>9, <2>1
  <2>3. QED
    BY <1>1, <1>7, <2>2
<1>12. QED
  <2> HIDE DEF tr
  <2>1. QED
    BY <1>7, <1>9, <1>10, <1>11 DEF WarpSteps

\* The first lane ends with the reduction of all.
LEMMA WarpReduces ==
    ASSUME NEW m \in Modes, m # "prod", NEW w \in Nat, NEW f \in LaneVals(m, w)
    PROVE  WarpLoop(m, f, w, Halvings[Warp])[w * Warp] = Fold(m, f, Lanes(w))
<1>1. PICK q, p : q = Halvings[Warp] /\ p = w * Warp
  OBVIOUS
<1>2. Warp \in Nat \ {0} /\ p \in Nat
  BY <1>1, KernelAssumption
<1>3. q \in Seq(Nat)
  BY <1>1, <1>2, HalvingsAt
<1>4. PICK n, H : n = Len(q) /\ H = [k \in 0 .. n |-> Half(Warp, k)]
  OBVIOUS
<1>5. /\ n \in Nat /\ H[0] = Warp /\ H[n] = 1
      /\ \A k \in 0 .. n : H[k] \in Nat \ {0}
      /\ \A k \in 1 .. n : H[k - 1] = 2 * H[k] /\ q[k] = H[k]
  <2>1. /\ n \in Nat /\ Half(Warp, 0) = Warp /\ Half(Warp, n) = 1
        /\ \A k \in 0 .. n : Half(Warp, k) \in Nat \ {0}
        /\ \A k \in 1 .. n : Half(Warp, k - 1) = 2 * Half(Warp, k)
    BY <1>1, <1>2, <1>4, PowerHalves, KernelAssumption
  <2>2. \A k \in 1 .. n : q[k] = Half(Warp, k)
    BY <1>1 DEF Half
  <2>3. QED
    BY <1>4, <2>1, <2>2
<1>6. PICK tr : WarpSteps(m, f, w, q, tr) /\ WarpLoop(m, f, w, q) = tr[n]
  BY <1>3, <1>4, WarpTrace
<1> DEFINE First(k) == p .. (p + H[k] - 1)
           S == {k \in Nat : k <= n => H[k] <= Warp /\ Fold(m, tr[k], First(k)) = Fold(m, f, Lanes(w))}
<1>7. 0 \in S
  <2>1. First(0) = Lanes(w) /\ H[0] <= Warp
    BY <1>1, <1>2, <1>5 DEF Lanes
  <2>2. tr[0] = f
    BY <1>6 DEF WarpSteps
  <2>3. QED
    BY <2>1, <2>2
<1>8. ASSUME NEW k \in Nat, k \in S PROVE k + 1 \in S
  <2> SUFFICES ASSUME k + 1 <= n
               PROVE  H[k + 1] <= Warp /\ Fold(m, tr[k + 1], First(k + 1)) = Fold(m, f, Lanes(w))
    OBVIOUS
  <2>1. PICK o, g, h : o = H[k + 1] /\ g = tr[k] /\ h = tr[k + 1]
    OBVIOUS
  <2>2. k + 1 \in 1 .. n /\ k + 1 \in 0 .. n /\ k \in 0 .. n
    BY <1>5
  <2>3. H[k] = 2 * o /\ o \in Nat \ {0} /\ H[k] <= Warp /\ q[k + 1] = o
    BY <1>5, <1>8, <2>1, <2>2
  <2>4. Fold(m, g, p .. (p + 2 * o - 1)) = Fold(m, f, Lanes(w))
    BY <1>8, <2>1, <2>2, <2>3
  <2>5. g \in LaneVals(m, w) /\ h = Shuffled(m, g, w, o)
    <3>1. /\ \A i \in 0 .. n : tr[i] \in LaneVals(m, w)
          /\ \A i \in 1 .. n : tr[i] = Shuffled(m, tr[i - 1], w, q[i])
      BY <1>4, <1>6 DEF WarpSteps
    <3>2. k + 1 \in 1 .. n /\ k \in 0 .. n /\ (k + 1) - 1 = k
      BY <1>5, <2>2
    <3>3. tr[k] \in LaneVals(m, w) /\ tr[k + 1] = Shuffled(m, tr[k], w, q[k + 1])
      BY <3>1, <3>2
    <3>4. QED
      BY <2>1, <2>3, <3>3
  <2>6. ASSUME NEW t \in p .. (p + 2 * o - 1) PROVE t \in Lanes(w)
    BY <1>1, <1>2, <2>3 DEF Lanes
  <2>7. \A t \in p .. (p + 2 * o - 1) : g[t] \in Vals(m)
    BY <2>5, <2>6 DEF LaneVals
  <2>8. ASSUME NEW t \in p .. (p + o - 1) PROVE h[t] = Join(m, g[t], g[t + o])
    <3>1. t \in p .. (p + 2 * o - 1) /\ t + o \in p .. (p + 2 * o - 1)
      BY <1>2, <2>3
    <3>2. t \in Lanes(w) /\ t + o \in Lanes(w)
      BY <2>6, <3>1
    <3>3. QED
      BY <2>5, <3>2 DEF Shuffled, ShuffleDown
  <2>9. HalfKept(m, p, o, g, h)
    <3>1. p \in Int
      BY <1>2
    <3>2. QED
      BY <2>3, <2>7, <2>8, <3>1, FoldHalf
  <2>10. QED
    BY <1>2, <2>1, <2>3, <2>4, <2>9 DEF HalfKept
<1>9. n \in S
  <2> HIDE DEF S
  <2>1. QED
    BY <1>5, <1>7, <1>8, NatInduct
<1>10. Fold(m, tr[n], {p}) = Fold(m, f, Lanes(w))
  <2>1. p .. (p + 1 - 1) = {p}
    BY <1>2
  <2>2. First(n) = {p}
    BY <1>5, <2>1
  <2>3. Fold(m, tr[n], First(n)) = Fold(m, f, Lanes(w))
    BY <1>5, <1>9
  <2>4. QED
    BY <2>2, <2>3, Zenon
<1>11. tr[n][p] \in Vals(m)
  <2>1. p \in Lanes(w) /\ n \in 0 .. n
    BY <1>1, <1>2, <1>5 DEF Lanes
  <2>2. QED
    BY <1>4, <1>6, <2>1 DEF WarpSteps, LaneVals
<1>12. Fold(m, tr[n], {p}) = tr[n][p]
  <2>1. PICK x, g : x = p /\ g = tr[n]
    OBVIOUS
  <2>2. g[x] \in Vals(m)
    BY <1>11, <2>1
  <2>3. g[x] \in Int /\ Join(m, g[x], Unit(m)) = g[x]
    BY <2>2, JoinLaws
  <2>4. Fold(m, g, {x}) = g[x]
    BY <2>3, FoldOne, Zenon
  <2>5. QED
    BY <2>1, <2>4, Zenon
<1>13. QED
  BY <1>1, <1>6, <1>10, <1>12

-----------------------------------------------------------------------------
(* The reduction of a block's shared memory by halves                      *)

\* The cells that have come to cell t when s of d are left.
Class(d, s, t) == {u \in 0 .. (d - 1) : u % s = t}

Gathered(f, d, s, t) == Fold("sum", f, Class(d, s, t))

LEMMA FoldZero ==
    ASSUME NEW S, IsFiniteSet(S), NEW f, \A x \in S : f[x] = 0
    PROVE  Fold("sum", f, S) = 0
<1> DEFINE B == {T \in SUBSET S : Fold("sum", f, T) = 0}
<1>1. {} \in B
  BY FoldEmpty DEF Modes, Unit
<1>2. ASSUME NEW T \in SUBSET S, NEW x \in S, T \in B, x \notin T PROVE T \cup {x} \in B
  <2>1. IsFiniteSet(T) /\ \A y \in T \cup {x} : f[y] \in Int
    BY FS_Subset
  <2>2. Fold("sum", f, T \cup {x}) = Join("sum", f[x], Fold("sum", f, T))
    BY <1>2, <2>1, FoldMore DEF Modes
  <2>3. QED
    BY <1>2, <2>2 DEF Join
<1> HIDE DEF B
<1>3. S \in B
  BY <1>1, <1>2, SetInduct
<1>4. QED
  BY <1>3 DEF B

ClassFacts(d, s, t) ==
    /\ IsFiniteSet(Class(d, s, t))
    /\ Class(d, 2 * s, t) \cup Class(d, 2 * s, t + s) = Class(d, s, t)
    /\ Class(d, 2 * s, t) \cap Class(d, 2 * s, t + s) = {}

LEMMA ClassIs ==
    ASSUME NEW d \in Nat, NEW s \in Nat \ {0}, NEW t \in 0 .. (s - 1)
    PROVE  ClassFacts(d, s, t)
<1>1. IsFiniteSet(Class(d, s, t))
  <2>1. Class(d, s, t) \in SUBSET (0 .. (d - 1))
    BY DEF Class
  <2>2. IsFiniteSet(0 .. (d - 1))
    BY FS_Interval
  <2>3. QED
    BY <2>1, <2>2, FS_Subset
<1>2. PICK e : e = 2 * s
  OBVIOUS
<1>3. e \in Nat \ {0}
  BY <1>2
<1>4. ASSUME NEW u \in 0 .. (d - 1)
      PROVE  u % s = t <=> u % e = t \/ u % e = t + s
  <2>1. u \in Int
    OBVIOUS
  <2>2. u % e \in 0 .. (e - 1)
    BY <1>3, <2>1, SplitHas
  <2>3. (u % e < s => u % s = u % e) /\ (u % e >= s => u % s = (u % e) - s)
    BY <1>2, <2>1, SplitHalf
  <2>4. PICK a, c : a = u % e /\ c = u % s
    OBVIOUS
  <2>5. a \in 0 .. (2 * s - 1) /\ (a < s => c = a) /\ (a >= s => c = a - s)
    BY <1>2, <2>2, <2>3, <2>4
  <2>6. c = t <=> a = t \/ a = t + s
    BY <2>5
  <2>7. QED
    BY <2>4, <2>6
<1>5. Class(d, e, t) \cup Class(d, e, t + s) = Class(d, s, t)
  BY <1>4 DEF Class
<1>6. Class(d, e, t) \cap Class(d, e, t + s) = {}
  BY DEF Class
<1>7. QED
  BY <1>1, <1>2, <1>5, <1>6 DEF ClassFacts

TreeFacts(f, d, s, t) ==
    /\ Gathered(f, d, s, t) \in Int
    /\ Gathered(f, d, 2 * s, t) + Gathered(f, d, 2 * s, t + s) = Gathered(f, d, s, t)

LEMMA TreeStep ==
    ASSUME NEW d \in Nat, NEW s \in Nat \ {0}, NEW t \in 0 .. (s - 1),
           NEW f, \A u \in 0 .. (d - 1) : f[u] \in Int
    PROVE  TreeFacts(f, d, s, t)
<1>1. ClassFacts(d, s, t)
  BY ClassIs
<1>2. PICK A, B, C : A = Class(d, 2 * s, t) /\ B = Class(d, 2 * s, t + s) /\ C = Class(d, s, t)
  OBVIOUS
<1>3. IsFiniteSet(C) /\ A \cup B = C /\ A \cap B = {}
  BY <1>1, <1>2 DEF ClassFacts
<1>4. IsFiniteSet(A) /\ IsFiniteSet(B)
  <2>1. A \in SUBSET C /\ B \in SUBSET C
    BY <1>3
  <2>2. QED
    BY <1>3, <2>1, FS_Subset
<1>5. \A u \in A \cup B : f[u] \in Int
  BY <1>2, <1>3 DEF Class
<1>6. Fold("sum", f, A \cup B) = Join("sum", Fold("sum", f, A), Fold("sum", f, B))
  BY <1>3, <1>4, <1>5, FoldUnion DEF Modes
<1>7. Fold("sum", f, C) \in Int
  BY <1>3, <1>5, FoldVal DEF Modes
<1>8. QED
  BY <1>2, <1>3, <1>6, <1>7 DEF TreeFacts, Gathered, Join

LEMMA TreeStart ==
    ASSUME NEW d \in Nat \ {0}, NEW t \in 0 .. (d - 1), NEW f, f[t] \in Int
    PROVE  Gathered(f, d, d, t) = f[t]
<1>1. PICK x : x = t
  OBVIOUS
<1>2. Class(d, d, t) = {x}
  <2>1. ASSUME NEW u \in 0 .. (d - 1) PROVE u % d = u
    <3>1. Split(u, d, 0, u)
      BY DEF Split
    <3>2. QED
      BY <3>1, SplitIs
  <2>2. QED
    BY <1>1, <2>1 DEF Class
<1>3. f[x] \in Int
  BY <1>1
<1>4. Fold("sum", f, {x}) = Join("sum", f[x], Unit("sum"))
  BY <1>3, FoldOne DEF Modes
<1>5. QED
  BY <1>1, <1>2, <1>3, <1>4 DEF Gathered, Join, Unit

LEMMA TreeEnd ==
    ASSUME NEW d \in Nat, NEW f
    PROVE  Gathered(f, d, 1, 0) = SumOf(f, 0 .. (d - 1))
<1>1. \A u \in 0 .. (d - 1) : u % 1 = 0
  OBVIOUS
<1>2. Class(d, 1, 0) = 0 .. (d - 1)
  BY <1>1 DEF Class
<1>3. QED
  BY <1>2 DEF Gathered, Fold

\* Nothing comes from beyond the last value.
LEMMA TreeZero ==
    ASSUME NEW d \in Nat, NEW s \in Nat \ {0}, NEW t \in 0 .. (s - 1), NEW c \in Int, t >= c,
           NEW f, \A u \in 0 .. (d - 1) : u >= c => f[u] = 0
    PROVE  Gathered(f, d, s, t) = 0
<1>1. ASSUME NEW u \in Class(d, s, t) PROVE f[u] = 0
  <2>1. u \in 0 .. (d - 1) /\ u % s = t /\ u \in Int /\ u \in Nat
    BY DEF Class
  <2>2. PICK q : q = u \div s
    OBVIOUS
  <2>3. Split(u, s, q, t)
    <3>1. Split(u, s, u \div s, u % s)
      BY <2>1, SplitHas, Zenon
    <3>2. QED
      BY <2>1, <2>2, <3>1, Zenon
  <2>4. q \in Nat
    BY <2>1, <2>2, SplitNat
  <2>5. u >= t
    BY <2>3, <2>4 DEF Split
  <2>6. QED
    BY <2>1, <2>5
<1>2. IsFiniteSet(Class(d, s, t))
  BY ClassIs DEF ClassFacts
<1>3. PICK S : S = Class(d, s, t)
  OBVIOUS
<1>4. Fold("sum", f, S) = 0
  BY <1>1, <1>2, <1>3, FoldZero
<1>5. QED
  BY <1>3, <1>4 DEF Gathered

-----------------------------------------------------------------------------
(* What the cells of the output become                                     *)

Reductions == {"sum", "max", "bridge_sum"}

Maps == {"map", "bridge_map", "bridge_div"}

\* The cells that warp w of block b writes.
OutOf(j, b, w) ==
    IF j.kernel \in Reductions THEN {c \in {b} : w = 0} ELSE OfWarp(j, b, w)

SquaresOf(j) == [i \in Elements(j) |-> j.in[i] * j.in[i]]

TopOf(j, b) == MaxOf(j.in, OfBlock(j, b))

ExpsOf(j, b) == [i \in OfBlock(j, b) |-> Exp(j.in[i] - TopOf(j, b))]

VarianceOf(j, b) ==
    j.n * SumOf(SquaresOf(j), OfBlock(j, b)) - SumOf(j.in, OfBlock(j, b)) * SumOf(j.in, OfBlock(j, b))

\* What cell i of block b ends with.
Target(j, b, i) ==
    CASE j.kernel \in {"sum", "bridge_sum"}   -> <<SumOf(j.in, OfBlock(j, b))>>
      [] j.kernel = "max"                     -> <<MaxOf(j.in, OfBlock(j, b))>>
      [] j.kernel = "softmax"                 -> <<ExpsOf(j, b)[i], SumOf(ExpsOf(j, b), OfBlock(j, b))>>
      [] j.kernel = "log_softmax"             -> <<j.in[i] - TopOf(j, b), SumOf(ExpsOf(j, b), OfBlock(j, b))>>
      [] j.kernel = "rms_norm"                -> <<j.in[i], SumOf(SquaresOf(j), OfBlock(j, b))>>
      [] j.kernel = "layer_norm"              -> <<j.n * j.in[i] - SumOf(j.in, OfBlock(j, b)), VarianceOf(j, b)>>
      [] j.kernel = "bridge_div"              -> IF j.in[i] = 0 THEN <<>> ELSE <<j.in[i]>>
      [] OTHER                                -> <<j.in[i]>>

-----------------------------------------------------------------------------
(* The invariant of the kernels                                            *)

\* Such a launch writes past its shared memory.
Overflows(j) == j.kernel \in {"softmax", "log_softmax"} /\ j.dim > Warp

KernelTypes ==
    /\ Launched(job) /\ kblock \in 0 .. job.grid
    /\ kpc \in [WarpsOf(job) -> 0 .. Segments]
    /\ \A v, w \in WarpsOf(job) : kpc[v] <= kpc[w] + 1
    /\ kblock = job.grid => \A w \in WarpsOf(job) : kpc[w] = 0
    /\ DOMAIN kshared = 0 .. (Cells(job.kernel, job.dim) - 1)
    /\ DOMAIN kout = Elements(job)
    /\ koutside => Overflows(job)

\* What the cells hold of warps that have finished, and what those of the elementwise
\* kernels hold before.
OutKept(j, b, pc, out, segments) ==
    /\ \A c \in 0 .. (b - 1), w \in WarpsOf(j) : \A i \in OutOf(j, c, w) : out[i] = Target(j, c, i)
    /\ \A w \in WarpsOf(j) : pc[w] = segments => \A i \in OutOf(j, b, w) : out[i] = Target(j, b, i)
    /\ j.kernel \in Maps =>
         \A c \in b .. (j.grid - 1), w \in WarpsOf(j) :
           (c = b => pc[w] = 0) => \A i \in OutOf(j, c, w) : out[i] = <<>>

\* The sums of the threads, and the cell that thread t's has come to after k segments.
First(j, b) == [t \in 0 .. (j.dim - 1) |-> SumOf(j.in, OfThread(j, b, t))]

Remaining(j, k) == Half(j.dim, IF k <= Len(Halvings[j.dim]) THEN k ELSE Len(Halvings[j.dim]))

TreeKept(j, b, pc, sh) ==
    \A v \in WarpsOf(j) : \A t \in Lanes(v) :
      /\ pc[v] >= 1 /\ t < Remaining(j, pc[v] - 1)
           => sh[t] = Gathered(First(j, b), j.dim, Remaining(j, pc[v] - 1), t)
      /\ pc[v] >= 2 /\ t >= Remaining(j, pc[v] - 1) /\ t < Remaining(j, pc[v] - 2)
           => sh[t] = Gathered(First(j, b), j.dim, Remaining(j, pc[v] - 2), t)

MaxKept(j, b, pc, sh) ==
    \A v \in WarpsOf(j) : pc[v] >= 1 => sh[v] = MaxOf(j.in, OfWarp(j, b, v))

SoftmaxKept(j, b, pc, sh, out) ==
    IF Overflows(j) THEN b = 0
    ELSE /\ pc[0] >= 1 => sh[0] = TopOf(j, b)
         /\ pc[0] >= 3 => sh[1] = SumOf(ExpsOf(j, b), OfBlock(j, b))
         /\ j.kernel = "softmax" /\ pc[0] \in {3, 4} => \A i \in OfBlock(j, b) : out[i] = <<ExpsOf(j, b)[i]>>

\* Warps past the first leave the memory in their third segment.
OutsideKept(j, pc, outside) ==
    Overflows(j) /\ ~outside => \A w \in WarpsOf(j) : w # 0 => pc[w] <= 2

RmsKept(j, b, pc, sh) ==
    /\ \A v \in WarpsOf(j) : pc[v] >= 1 /\ ~(v = 0 /\ pc[0] >= 2) => sh[v] = SumOf(SquaresOf(j), OfWarp(j, b, v))
    /\ pc[0] >= 2 => sh[0] = SumOf(SquaresOf(j), OfBlock(j, b))

LayerKept(j, b, pc, sh) ==
    /\ \A v \in WarpsOf(j) : \A t \in Lanes(v) :
         pc[v] >= 1 /\ ~(t = 0 /\ pc[0] >= 2)
           => sh[t] = SumOf(j.in, OfThread(j, b, t)) /\ sh[t + j.dim] = SumOf(SquaresOf(j), OfThread(j, b, t))
    /\ pc[0] >= 2 => sh[0] = SumOf(j.in, OfBlock(j, b)) /\ sh[j.dim] = VarianceOf(j, b)

SharedKept(j, b, pc, sh, out) ==
    /\ j.kernel \in {"sum", "bridge_sum"} => TreeKept(j, b, pc, sh)
    /\ j.kernel = "max" => MaxKept(j, b, pc, sh)
    /\ j.kernel \in {"softmax", "log_softmax"} => SoftmaxKept(j, b, pc, sh, out)
    /\ j.kernel = "rms_norm" => RmsKept(j, b, pc, sh)
    /\ j.kernel = "layer_norm" => LayerKept(j, b, pc, sh)

KernelInv ==
    /\ KernelTypes
    /\ OutKept(job, kblock, kpc, kout, Segments)
    /\ SharedKept(job, kblock, kpc, kshared, kout)
    /\ OutsideKept(job, kpc, koutside)

-----------------------------------------------------------------------------
(* Launches                                                                *)

LEMMA GridIs ==
    ASSUME NEW k \in Kinds, NEW n \in Nat \ {0}, NEW d \in Nat \ {0}
    PROVE  /\ ReduceGrid(k, n, d) \in Nat \ {0} /\ ReduceGrid(k, n, d) <= n
           /\ k = "bridge_sum" => ReduceGrid(k, n, d) = 1
           /\ MapGrid(n, d) \in Nat \ {0} /\ n <= MapGrid(n, d) * d
<1>1. PICK e, c, x : e = 2 * d /\ c = Ceil(n, e) /\ x = Ceil(n, d)
  OBVIOUS
<1>2. e \in Nat \ {0}
  BY <1>1
<1>3. c \in Nat \ {0} /\ c <= n
  BY <1>1, <1>2, CeilIs
<1>4. x \in Nat \ {0} /\ n <= x * d
  BY <1>1, CeilIs
<1>5. MaxGrid \in Nat \ {0}
  BY KernelAssumption
<1>6. AtMost(c, MaxGrid) \in Nat \ {0} /\ AtMost(c, MaxGrid) <= n
  BY <1>3, <1>5 DEF AtMost
<1>7. ReduceGrid(k, n, d) = IF k = "bridge_sum" THEN 1 ELSE AtMost(c, MaxGrid)
  BY <1>1 DEF ReduceGrid
<1>8. MapGrid(n, d) = x
  BY <1>1 DEF MapGrid
<1>9. QED
  BY <1>4, <1>6, <1>7, <1>8

LEMMA InputsIn ==
    ASSUME NEW s \in Nat, NEW in \in Inputs(s)
    PROVE  in \in [0 .. (s - 1) -> Int]
BY DEF Inputs

\* What a launch is like.
LEMMA LaunchIs ==
    ASSUME NEW l \in Launches
    PROVE  /\ l.kernel \in Kinds /\ l.dim \in Dims /\ l.n \in Nat \ {0} /\ l.grid \in Nat \ {0}
           /\ l.kernel \in {"sum", "max"} => l.grid <= l.n
           /\ l.kernel = "bridge_sum" => l.grid = 1
           /\ l.kernel \in Maps => l.n <= l.grid * l.dim
<1>1. CASE \E k \in {"sum", "max", "bridge_sum"}, d \in Dims, n \in Lengths :
             l = [kernel |-> k, dim |-> d, grid |-> ReduceGrid(k, n, d), n |-> n]
  <2>1. PICK k \in {"sum", "max", "bridge_sum"}, d \in Dims, n \in Lengths :
               l = [kernel |-> k, dim |-> d, grid |-> ReduceGrid(k, n, d), n |-> n]
    BY <1>1
  <2>2. n \in Nat \ {0} /\ d \in Nat \ {0} /\ k \in Kinds
    BY KernelAssumption DEF Kinds
  <2>3. /\ ReduceGrid(k, n, d) \in Nat \ {0} /\ ReduceGrid(k, n, d) <= n
        /\ k = "bridge_sum" => ReduceGrid(k, n, d) = 1
    BY <2>2, GridIs
  <2>4. k \notin Maps
    BY DEF Maps
  <2>5. QED
    BY <2>1, <2>2, <2>3, <2>4
<1>2. CASE \E k \in {"map", "bridge_map", "bridge_div"}, d \in Dims, n \in Lengths :
             l = [kernel |-> k, dim |-> d, grid |-> MapGrid(n, d), n |-> n]
  <2>1. PICK k \in {"map", "bridge_map", "bridge_div"}, d \in Dims, n \in Lengths :
               l = [kernel |-> k, dim |-> d, grid |-> MapGrid(n, d), n |-> n]
    BY <1>2
  <2>2. n \in Nat \ {0} /\ d \in Nat \ {0} /\ k \in Kinds
    BY KernelAssumption DEF Kinds
  <2>3. MapGrid(n, d) \in Nat \ {0} /\ n <= MapGrid(n, d) * d
    BY <2>2, GridIs
  <2>4. QED
    BY <2>1, <2>2, <2>3
<1>3. CASE \E k \in RowKernels, d \in Dims, r \in Rows, n \in Lengths :
             l = [kernel |-> k, dim |-> d, grid |-> r, n |-> n]
  <2>1. PICK k \in RowKernels, d \in Dims, r \in Rows, n \in Lengths :
               l = [kernel |-> k, dim |-> d, grid |-> r, n |-> n]
    BY <1>3
  <2>2. n \in Nat \ {0} /\ r \in Nat \ {0} /\ k \in Kinds
    BY KernelAssumption DEF Kinds
  <2>3. k \notin Maps /\ k \notin {"sum", "max", "bridge_sum"}
    BY DEF Maps, RowKernels
  <2>4. QED
    BY <2>1, <2>2, <2>3
<1>4. QED
  BY <1>1, <1>2, <1>3 DEF Launches

LEMMA JobIs == ASSUME KernelInit PROVE Launched(job)
<1>0. PICK l \in Launches : \E in \in Inputs(Size(l)) :
         job = [kernel |-> l.kernel, dim |-> l.dim, grid |-> l.grid, n |-> l.n, in |-> in]
  BY DEF KernelInit
<1>1. PICK in \in Inputs(Size(l)) :
         job = [kernel |-> l.kernel, dim |-> l.dim, grid |-> l.grid, n |-> l.n, in |-> in]
  BY <1>0
<1>2. /\ l.kernel \in Kinds /\ l.dim \in Dims /\ l.n \in Nat \ {0} /\ l.grid \in Nat \ {0}
      /\ l.kernel \in {"sum", "max"} => l.grid <= l.n
      /\ l.kernel = "bridge_sum" => l.grid = 1
      /\ l.kernel \in Maps => l.n <= l.grid * l.dim
  BY LaunchIs
<1>3. /\ job.kernel = l.kernel /\ job.dim = l.dim /\ job.n = l.n /\ job.grid = l.grid /\ job.in = in
  BY <1>1
<1>4. Size(job) = Size(l)
  BY <1>3 DEF Size
<1>5. Size(l) \in Nat
  <2>1. l.grid * l.n \in Nat
    BY <1>2
  <2>2. QED
    BY <1>2, <2>1 DEF Size
<1>6. in \in [0 .. (Size(l) - 1) -> Int]
  BY <1>5, InputsIn
<1>7. QED
  BY <1>2, <1>3, <1>4, <1>6 DEF Launched, Elements, Maps

-----------------------------------------------------------------------------
(* Which warp writes which cell                                            *)

LEMMA OutApart ==
    ASSUME NEW j, Launched(j), NEW b, NEW c, NEW v \in WarpsOf(j), NEW w \in WarpsOf(j),
           b # c \/ v # w
    PROVE  OutOf(j, b, v) \cap OutOf(j, c, w) = {}
<1>1. CASE j.kernel \in Reductions
  BY <1>1 DEF OutOf
<1>2. CASE j.kernel \notin Reductions
  <2>1. OutOf(j, b, v) = OfWarp(j, b, v) /\ OutOf(j, c, w) = OfWarp(j, c, w)
    BY <1>2 DEF OutOf
  <2>2. v # w => Lanes(v) \cap Lanes(w) = {}
    BY LanesAre
  <2>3. QED
    BY <2>1, <2>2 DEF OfWarp
<1>3. QED
  BY <1>1, <1>2

LEMMA OutIn ==
    ASSUME NEW j, Launched(j), NEW b \in 0 .. (j.grid - 1), NEW w \in WarpsOf(j)
    PROVE  OutOf(j, b, w) \subseteq Elements(j)
<1>1. CASE j.kernel \in Reductions
  <2>1. Elements(j) = 0 .. (j.n - 1)
    BY <1>1, JobSize DEF Elements, Reductions, RowKernels
  <2>2. j.grid <= j.n
    BY <1>1 DEF Launched, Reductions
  <2>3. b \in Elements(j)
    BY <2>1, <2>2 DEF Launched
  <2>4. QED
    BY <1>1, <2>3 DEF OutOf
<1>2. CASE j.kernel \notin Reductions
  BY <1>2 DEF OutOf, OfWarp
<1>3. QED
  BY <1>1, <1>2

-----------------------------------------------------------------------------
(* A warp's segment, kernel by kernel                                      *)

\* Warp w may run its next segment.
MayRun(w) == w \in WarpsOf(job) /\ ~koutside /\ kblock < job.grid /\ kpc[w] < Segments /\ Barrier(w)

Updated(f, g) == [c \in DOMAIN f |-> IF c \in DOMAIN g THEN g[c] ELSE f[c]]

Advance(w) == [kpc EXCEPT ![w] = @ + 1]

\* What those writes of warp w keep.
StepKept(w, writes) ==
    /\ DOMAIN writes.shared \subseteq DOMAIN kshared \/ Overflows(job)
    /\ DOMAIN writes.out \subseteq OutOf(job, kblock, w)
    /\ kpc[w] + 1 = Segments =>
         \A i \in OutOf(job, kblock, w) : Updated(kout, writes.out)[i] = Target(job, kblock, i)
    /\ SharedKept(job, kblock, Advance(w), Updated(kshared, writes.shared), Updated(kout, writes.out))

LEMMA MayRunIs ==
    ASSUME KernelTypes, NEW w, MayRun(w)
    PROVE  /\ w \in WarpsOf(job) /\ 0 \in WarpsOf(job) /\ Warps = WarpsOf(job)
           /\ kblock \in 0 .. (job.grid - 1) /\ kblock \in Nat
           /\ kpc[w] \in Nat /\ kpc[w] < Segments /\ Segments \in Nat
           /\ \A v \in WarpsOf(job) : kpc[v] \in {kpc[w], kpc[w] + 1}
           /\ Advance(w) \in [WarpsOf(job) -> Nat]
           /\ \A v \in WarpsOf(job) : Advance(w)[v] = IF v = w THEN kpc[w] + 1 ELSE kpc[v]
<1>1. job.dim \div Warp \in Nat \ {0} /\ Launched(job)
  BY LanesAre DEF KernelTypes
<1>2. 0 \in WarpsOf(job)
  BY <1>1 DEF WarpsOf
<1>3. w \in WarpsOf(job) /\ kpc \in [WarpsOf(job) -> 0 .. Segments] /\ Warps = WarpsOf(job)
  BY DEF MayRun, KernelTypes, Warps
<1>4. Segments \in Nat
  <2>1. job.dim \in Nat \ {0}
    BY <1>1, JobSize
  <2>2. Steps \in Nat
    BY <2>1, HalvingsEnd DEF Steps, Halved
  <2>3. QED
    BY <2>2 DEF Segments
<1>5. \A v \in WarpsOf(job) : kpc[v] \in Nat
  BY <1>3, <1>4
<1>6. \A v \in WarpsOf(job) : kpc[v] >= kpc[w] /\ kpc[v] <= kpc[w] + 1
  BY <1>3 DEF MayRun, Barrier, KernelTypes
<1>7. \A v \in WarpsOf(job) : kpc[v] \in {kpc[w], kpc[w] + 1}
  BY <1>3, <1>5, <1>6
<1>8. Advance(w) \in [WarpsOf(job) -> Nat]
      /\ \A v \in WarpsOf(job) : Advance(w)[v] = IF v = w THEN kpc[w] + 1 ELSE kpc[v]
  BY <1>3, <1>5 DEF Advance
<1>9. kblock \in 0 .. (job.grid - 1) /\ kblock \in Nat
  BY DEF MayRun, KernelTypes, Launched
<1>10. QED
  BY <1>2, <1>3, <1>4, <1>5, <1>7, <1>8, <1>9 DEF MayRun

\* The elementwise kernels.
LEMMA MapStep ==
    ASSUME KernelInv, job.kernel \in Maps, NEW w, MayRun(w)
    PROVE  StepKept(w, Segment(w, kpc[w]))
<1>1. /\ Launched(job) /\ w \in WarpsOf(job) /\ kblock \in 0 .. (job.grid - 1)
      /\ kpc[w] \in Nat /\ kpc[w] < Segments /\ DOMAIN kout = Elements(job)
  BY MayRunIs DEF KernelInv, KernelTypes
<1>2. Segments = 1 /\ kpc[w] = 0
  <2>1. Segments = 1
    BY DEF Segments, Maps
  <2>2. QED
    BY <1>1, <2>1
<1>3. /\ \A i \in OutOf(job, kblock, w) : kout[i] = <<>>
      /\ OutOf(job, kblock, w) = OfWarp(job, kblock, w)
  BY <1>1, <1>2 DEF KernelInv, OutKept, OutOf, Maps, Reductions
<1>4. OfWarp(job, kblock, w) \subseteq Elements(job)
  BY DEF OfWarp
<1>5. PICK out, own : out = Segment(w, kpc[w]).out /\ own = OfWarp(job, kblock, w)
  OBVIOUS
<1>6. /\ Segment(w, kpc[w]).shared = <<>>
      /\ DOMAIN out = {i \in own : job.kernel = "bridge_div" => job.in[i] # 0}
      /\ \A i \in DOMAIN out : out[i] = Append(kout[i], job.in[i])
  <2>1. CASE job.kernel = "map"
    <3>1. Segment(w, kpc[w]) = ToOut([i \in own |-> Append(kout[i], job.in[i])])
      BY <1>1, <1>5, <2>1, MapOf DEF Segment, MapSegment
    <3>2. QED
      BY <1>5, <2>1, <3>1 DEF ToOut
  <2>2. CASE job.kernel \in {"bridge_map", "bridge_div"}
    <3>1. Segment(w, kpc[w]) = BridgeMapSegment(w)
      BY <2>2 DEF Segment
    <3>2. {kblock * job.dim + t : t \in Lanes(w)} \cap 0 .. (job.n - 1) = own
      BY <1>1, <1>5, <2>2, MapOf
    <3>3. BridgeMapSegment(w) = ToOut([i \in {j \in own : job.kernel = "bridge_div" => job.in[j] # 0}
                                         |-> Append(kout[i], job.in[i])])
      BY <3>2 DEF BridgeMapSegment
    <3>4. QED
      BY <1>5, <3>1, <3>3 DEF ToOut
  <2>3. QED
    BY <2>1, <2>2 DEF Maps
<1>7. \A i \in own : job.in[i] \in Int
  BY <1>1, <1>4, <1>5 DEF Launched
<1>8. ASSUME NEW i \in own PROVE Updated(kout, out)[i] = Target(job, kblock, i)
  <2>1. kout[i] = <<>> /\ i \in DOMAIN kout
    BY <1>1, <1>3, <1>4, <1>5
  <2>2. Append(<<>>, job.in[i]) = <<job.in[i]>>
    BY <1>7
  <2>3. Target(job, kblock, i) = IF job.kernel = "bridge_div" /\ job.in[i] = 0 THEN <<>> ELSE <<job.in[i]>>
    BY DEF Target, Maps
  <2>4. QED
    BY <1>6, <2>1, <2>2, <2>3 DEF Updated
<1>9. SharedKept(job, kblock, Advance(w), Updated(kshared, Segment(w, kpc[w]).shared), Updated(kout, out))
  BY DEF SharedKept, Maps
<1>10. DOMAIN Segment(w, kpc[w]).shared \subseteq DOMAIN kshared
  BY <1>6
<1>11. QED
  BY <1>3, <1>5, <1>6, <1>8, <1>9, <1>10 DEF StepKept

LEMMA WarpTotal ==
    ASSUME NEW j, Launched(j), NEW b, NEW w \in WarpsOf(j), NEW m \in Modes, m # "prod",
           NEW f, \A i \in Elements(j) : f[i] \in Int,
           NEW h, DOMAIN h = Lanes(w), h = [t \in DOMAIN h |-> h[t]],
           \A t \in Lanes(w) : h[t] = Fold(m, f, OfThread(j, b, t))
    PROVE  WarpLoop(m, h, w, Halvings[Warp])[w * Warp] = Fold(m, f, OfWarp(j, b, w))
<1>1. w \in Nat
  BY DEF WarpsOf
<1>2. ASSUME NEW t \in Lanes(w) PROVE h[t] \in Vals(m)
  <2>1. PICK S : S = OfThread(j, b, t)
    OBVIOUS
  <2>2. IsFiniteSet(S) /\ S \subseteq Elements(j)
    <3>1. IsFiniteSet(OfThread(j, b, t))
      BY OfFinite
    <3>2. OfThread(j, b, t) \subseteq Elements(j)
      BY DEF OfThread
    <3>3. QED
      BY <2>1, <3>1, <3>2
  <2>3. Fold(m, f, S) \in Vals(m)
    BY <2>2, FoldVal
  <2>4. QED
    BY <2>1, <2>3
<1>3. h \in LaneVals(m, w)
  BY <1>2 DEF LaneVals
<1>4. WarpLoop(m, h, w, Halvings[Warp])[w * Warp] = Fold(m, h, Lanes(w))
  BY <1>1, <1>3, WarpReduces
<1>5. Fold(m, h, Lanes(w)) = Fold(m, f, OfWarp(j, b, w))
  BY LaneParts
<1>6. QED
  BY <1>4, <1>5

LEMMA WarpTotals ==
    ASSUME NEW j, Launched(j), NEW b, NEW w \in WarpsOf(j), NEW m \in Modes, m # "prod",
           NEW f, \A i \in Elements(j) : f[i] \in Int,
           NEW h, DOMAIN h = Lanes(w), h = [t \in DOMAIN h |-> h[t]],
           \A t \in Lanes(w) : h[t] = Fold(m, f, OfThread(j, b, t))
    PROVE  /\ m = "sum" => WarpSum(h, w) = SumOf(f, OfWarp(j, b, w))
           /\ m = "max" => WarpMax(h, w) = MaxOf(f, OfWarp(j, b, w))
<1>1. WarpLoop(m, h, w, Halvings[Warp])[w * Warp] = Fold(m, f, OfWarp(j, b, w))
  BY WarpTotal
<1>2. m = "sum" => WarpSum(h, w) = WarpLoop(m, h, w, Halvings[Warp])[w * Warp]
  BY DEF WarpSum, WarpLoop
<1>3. m = "max" => WarpMax(h, w) = WarpLoop(m, h, w, Halvings[Warp])[w * Warp]
  BY DEF WarpMax, WarpLoop
<1>4. QED
  BY <1>1, <1>2, <1>3 DEF Fold

LEMMA UpdatedIs ==
    ASSUME NEW f, NEW g
    PROVE  \A c \in DOMAIN f : Updated(f, g)[c] = IF c \in DOMAIN g THEN g[c] ELSE f[c]
BY DEF Updated

\* The inputs of a job, and the sums of its parts.
LEMMA InputInts ==
    ASSUME NEW j, Launched(j)
    PROVE  /\ \A i \in Elements(j) : j.in[i] \in Int /\ SquaresOf(j)[i] \in Int
           /\ j.in \in [Elements(j) -> Int]
<1>1. j.in \in [Elements(j) -> Int]
  BY DEF Launched
<1>2. ASSUME NEW i \in Elements(j) PROVE j.in[i] \in Int /\ SquaresOf(j)[i] \in Int
  <2>1. j.in[i] \in Int
    BY <1>1
  <2>2. j.in[i] * j.in[i] \in Int
    BY <2>1
  <2>3. QED
    BY <2>1, <2>2 DEF SquaresOf
<1>3. QED
  BY <1>1, <1>2

\* max_kernel.
LEMMA MaxStep ==
    ASSUME KernelInv, job.kernel = "max", NEW w, MayRun(w)
    PROVE  StepKept(w, Segment(w, kpc[w]))
<1>1. PICK wr, b, own : wr = Segment(w, kpc[w]) /\ b = kblock /\ own = OutOf(job, kblock, w)
  OBVIOUS
<1>2. /\ Launched(job) /\ w \in WarpsOf(job) /\ b \in 0 .. (job.grid - 1) /\ Warps = WarpsOf(job)
      /\ kpc[w] \in {0, 1} /\ Segments = 2
      /\ \A v \in WarpsOf(job) : kpc[v] \in {kpc[w], kpc[w] + 1}
      /\ \A v \in WarpsOf(job) : Advance(w)[v] = IF v = w THEN kpc[w] + 1 ELSE kpc[v]
      /\ DOMAIN kout = Elements(job)
  <2>1. Segments = 2
    BY DEF Segments
  <2>2. QED
    BY <1>1, <2>1, MayRunIs DEF KernelInv, KernelTypes
<1>3. DOMAIN kshared = WarpsOf(job)
  BY DEF KernelInv, KernelTypes, Cells, WarpsOf
<1>4. MaxKept(job, b, kpc, kshared)
  BY <1>1 DEF KernelInv, SharedKept
<1>5. own = {c \in {b} : w = 0}
  BY <1>1 DEF OutOf, Reductions
<1>6. CASE kpc[w] = 0
  <2>1. PICK f : f = [t \in Lanes(w) |-> MaxOf(job.in, Pairs(t))]
    OBVIOUS
  <2>2. wr = ToShared(OneCell(w, WarpMax(f, w)))
    BY <1>1, <1>6, <2>1 DEF Segment, MaxSegment
  <2>3. ASSUME NEW t \in Lanes(w) PROVE f[t] = Fold("max", job.in, OfThread(job, b, t))
    <3>1. Lanes(w) \subseteq 0 .. (job.dim - 1)
      BY <1>2, LanesAre
    <3>2. Pairs(t) = OfThread(job, b, t)
      BY <1>1, <1>2, <3>1, PairsOf
    <3>3. QED
      BY <2>1, <3>2 DEF Fold
  <2>4. \A i \in Elements(job) : job.in[i] \in Int
    BY <1>2, InputInts
  <2>5. DOMAIN f = Lanes(w) /\ f = [t \in DOMAIN f |-> f[t]]
    BY <2>1
  <2>6. PICK j, g : j = job /\ g = job.in
    OBVIOUS
  <2>7. WarpMax(f, w) = MaxOf(g, OfWarp(j, b, w))
    BY <1>2, <2>3, <2>4, <2>5, <2>6, WarpTotals DEF Modes
  <2>8. DOMAIN wr.shared = {w} /\ wr.shared[w] = MaxOf(job.in, OfWarp(job, b, w)) /\ wr.out = <<>>
    BY <2>2, <2>6, <2>7 DEF ToShared, OneCell
  <2>9. MaxKept(job, b, Advance(w), Updated(kshared, wr.shared))
    BY <1>2, <1>3, <1>4, <2>8, UpdatedIs DEF MaxKept
  <2>10. SharedKept(job, b, Advance(w), Updated(kshared, wr.shared), Updated(kout, wr.out))
    BY <2>9 DEF SharedKept
  <2>11. DOMAIN wr.shared \subseteq DOMAIN kshared /\ DOMAIN wr.out \subseteq own /\ kpc[w] + 1 # Segments
    BY <1>2, <1>3, <1>6, <2>8
  <2>12. QED
    BY <1>1, <2>10, <2>11 DEF StepKept
<1>7. CASE kpc[w] = 1
  <2>1. wr = IF w = 0 THEN ToOut(OneCell(b, <<MaxOf(kshared, WarpsOf(job))>>)) ELSE Nothing
    BY <1>1, <1>2, <1>7 DEF Segment, MaxSegment
  <2>2. \A v \in WarpsOf(job) : kshared[v] = Fold("max", job.in, OfWarp(job, b, v))
    BY <1>2, <1>4, <1>7 DEF MaxKept, Fold
  <2>3. Fold("max", kshared, WarpsOf(job)) = Fold("max", job.in, OfBlock(job, b))
    <3>1. PICK j, g, h : j = job /\ g = job.in /\ h = kshared
      OBVIOUS
    <3>2. \A i \in Elements(j) : g[i] \in Int
      BY <1>2, <3>1, InputInts
    <3>3. Fold("max", h, WarpsOf(j)) = Fold("max", g, OfBlock(j, b))
      BY <1>2, <2>2, <3>1, <3>2, WarpParts DEF Modes
    <3>4. QED
      BY <3>1, <3>3
  <2>4. MaxOf(kshared, WarpsOf(job)) = MaxOf(job.in, OfBlock(job, b))
    BY <2>3 DEF Fold
  <2>5. wr.shared = <<>> /\ DOMAIN wr.out = own /\ (w = 0 => wr.out[b] = <<MaxOf(job.in, OfBlock(job, b))>>)
    BY <1>5, <2>1, <2>4 DEF ToOut, OneCell, Nothing
  <2>6. own \subseteq DOMAIN kout
    BY <1>1, <1>2, OutIn
  <2>7. ASSUME NEW i \in own PROVE Updated(kout, wr.out)[i] = Target(job, b, i)
    <3>1. Target(job, b, i) = <<MaxOf(job.in, OfBlock(job, b))>>
      BY DEF Target
    <3>2. i = b /\ w = 0
      BY <1>5
    <3>3. QED
      BY <2>5, <2>6, <3>1, <3>2, UpdatedIs
  <2>8. MaxKept(job, b, Advance(w), Updated(kshared, wr.shared))
    BY <1>2, <1>3, <1>4, <1>7, <2>5, UpdatedIs DEF MaxKept
  <2>9. SharedKept(job, b, Advance(w), Updated(kshared, wr.shared), Updated(kout, wr.out))
    BY <2>8 DEF SharedKept
  <2>10. QED
    BY <1>1, <2>5, <2>7, <2>9 DEF StepKept
<1>8. QED
  BY <1>2, <1>6, <1>7

LEMMA CellsAre ==
    ASSUME NEW j, Launched(j)
    PROVE  Ceil(j.dim, Warp) = j.dim \div Warp
<1>1. PICK d : d = j.dim
  OBVIOUS
<1>2. Warp \in Nat \ {0} /\ d \in Nat \ {0} /\ d % Warp = 0
  BY <1>1, KernelAssumption DEF Launched
<1>3. PICK q : q = d \div Warp
  OBVIOUS
<1>4. Split(d, Warp, q, 0)
  BY <1>2, <1>3, SplitHas
<1>5. d + Warp - 1 = q * Warp + (Warp - 1) /\ q \in Int
  BY <1>2, <1>4 DEF Split
<1>6. Split(d + Warp - 1, Warp, q, Warp - 1)
  BY <1>2, <1>5 DEF Split
<1>7. (d + Warp - 1) \div Warp = q
  BY <1>2, <1>6, SplitIs
<1>8. QED
  BY <1>1, <1>3, <1>7 DEF Ceil

LEMMA SquaresAre ==
    ASSUME Launched(job)
    PROVE  Squares = SquaresOf(job)
<1>1. DOMAIN job.in = Elements(job)
  BY DEF Launched
<1>2. QED
  BY <1>1 DEF Squares, SquaresOf

\* rms_norm_kernel.
LEMMA RmsStep ==
    ASSUME KernelInv, job.kernel = "rms_norm", NEW w, MayRun(w)
    PROVE  StepKept(w, Segment(w, kpc[w]))
<1>1. PICK wr, b, own, sq : wr = Segment(w, kpc[w]) /\ b = kblock /\ own = OutOf(job, kblock, w) /\ sq = SquaresOf(job)
  OBVIOUS
<1>2. /\ Launched(job) /\ w \in WarpsOf(job) /\ b \in 0 .. (job.grid - 1) /\ Warps = WarpsOf(job)
      /\ kpc[w] \in {0, 1, 2} /\ Segments = 3 /\ 0 \in WarpsOf(job)
      /\ \A v \in WarpsOf(job) : kpc[v] \in {kpc[w], kpc[w] + 1}
      /\ \A v \in WarpsOf(job) : Advance(w)[v] = IF v = w THEN kpc[w] + 1 ELSE kpc[v]
      /\ DOMAIN kout = Elements(job)
  <2>1. Segments = 3
    BY DEF Segments
  <2>2. QED
    BY <1>1, <2>1, MayRunIs DEF KernelInv, KernelTypes
<1>3. DOMAIN kshared = WarpsOf(job)
  <2>1. Ceil(job.dim, Warp) = job.dim \div Warp
    BY <1>2, CellsAre
  <2>2. QED
    BY <2>1 DEF KernelInv, KernelTypes, Cells, WarpsOf
<1>4. RmsKept(job, b, kpc, kshared)
  BY <1>1 DEF KernelInv, SharedKept
<1>5. own = OfWarp(job, b, w) /\ job.kernel \in RowKernels
  BY <1>1 DEF OutOf, Reductions, RowKernels
<1>6. \A i \in Elements(job) : sq[i] \in Int
  BY <1>1, <1>2, InputInts
<1>7. Squares = sq
  BY <1>1, <1>2, SquaresAre
<1>8. \A t \in 0 .. (job.dim - 1) : Columns(t) = OfThread(job, b, t)
  BY <1>1, <1>2, <1>5, ColumnsOf
<1>9. UNION {Columns(t) : t \in Lanes(w)} = own
  BY <1>1, <1>2, <1>5, ColumnsOf
<1>10. CASE kpc[w] = 0
  <2>1. PICK f : f = [t \in Lanes(w) |-> SumOf(sq, Columns(t))]
    OBVIOUS
  <2>2. wr = ToShared(OneCell(w, WarpSum(f, w)))
    BY <1>1, <1>7, <1>10, <2>1 DEF Segment, RmsSegment
  <2>3. ASSUME NEW t \in Lanes(w) PROVE f[t] = Fold("sum", sq, OfThread(job, b, t))
    <3>1. Lanes(w) \subseteq 0 .. (job.dim - 1)
      BY <1>2, LanesAre
    <3>2. QED
      BY <1>8, <2>1, <3>1 DEF Fold
  <2>4. DOMAIN f = Lanes(w) /\ f = [t \in DOMAIN f |-> f[t]]
    BY <2>1
  <2>5. PICK j : j = job
    OBVIOUS
  <2>6. WarpSum(f, w) = SumOf(sq, OfWarp(j, b, w))
    BY <1>2, <1>6, <2>3, <2>4, <2>5, WarpTotals DEF Modes
  <2>7. DOMAIN wr.shared = {w} /\ wr.shared[w] = SumOf(sq, OfWarp(job, b, w)) /\ wr.out = <<>>
    BY <2>2, <2>5, <2>6 DEF ToShared, OneCell
  <2>8. RmsKept(job, b, Advance(w), Updated(kshared, wr.shared))
    BY <1>1, <1>2, <1>3, <1>4, <1>10, <2>7, UpdatedIs DEF RmsKept
  <2>9. SharedKept(job, b, Advance(w), Updated(kshared, wr.shared), Updated(kout, wr.out))
    BY <2>8 DEF SharedKept
  <2>10. DOMAIN wr.shared \subseteq DOMAIN kshared /\ DOMAIN wr.out \subseteq own /\ kpc[w] + 1 # Segments
    BY <1>2, <1>3, <1>10, <2>7
  <2>11. QED
    BY <1>1, <2>9, <2>10 DEF StepKept
<1>11. CASE kpc[w] = 1
  <2>1. wr = IF w = 0 THEN ToShared(OneCell(0, SumOf(kshared, WarpsOf(job)))) ELSE Nothing
    BY <1>1, <1>2, <1>11 DEF Segment, RmsSegment
  <2>2. ASSUME w = 0 PROVE SumOf(kshared, WarpsOf(job)) = SumOf(sq, OfBlock(job, b))
    <3>1. PICK j, h : j = job /\ h = kshared
      OBVIOUS
    <3>2. \A v \in WarpsOf(j) : h[v] = Fold("sum", sq, OfWarp(j, b, v))
      BY <1>1, <1>2, <1>4, <1>11, <2>2, <3>1 DEF RmsKept, Fold
    <3>3. Fold("sum", h, WarpsOf(j)) = Fold("sum", sq, OfBlock(j, b))
      BY <1>2, <1>6, <3>1, <3>2, WarpParts DEF Modes
    <3>4. QED
      BY <3>1, <3>3 DEF Fold
  <2>3. /\ wr.out = <<>>
        /\ w = 0 => DOMAIN wr.shared = {0} /\ wr.shared[0] = SumOf(sq, OfBlock(job, b))
        /\ w # 0 => wr.shared = <<>>
    BY <2>1, <2>2 DEF ToShared, OneCell, Nothing
  <2>4. RmsKept(job, b, Advance(w), Updated(kshared, wr.shared))
    <3>1. CASE w = 0
      BY <1>1, <1>2, <1>3, <1>4, <1>11, <2>3, <3>1, UpdatedIs DEF RmsKept
    <3>2. CASE w # 0
      <4>1. \A v \in WarpsOf(job) : Updated(kshared, wr.shared)[v] = kshared[v]
        BY <1>3, <2>3, <3>2, UpdatedIs
      <4>2. QED
        BY <1>1, <1>2, <1>4, <1>11, <3>2, <4>1 DEF RmsKept
    <3>3. QED
      BY <3>1, <3>2
  <2>5. SharedKept(job, b, Advance(w), Updated(kshared, wr.shared), Updated(kout, wr.out))
    BY <2>4 DEF SharedKept
  <2>6. DOMAIN wr.shared \subseteq DOMAIN kshared /\ DOMAIN wr.out \subseteq own /\ kpc[w] + 1 # Segments
    BY <1>2, <1>3, <1>11, <2>3
  <2>7. QED
    BY <1>1, <2>5, <2>6 DEF StepKept
<1>12. CASE kpc[w] = 2
  <2>1. wr = ToOut([i \in own |-> <<job.in[i], kshared[0]>>])
    BY <1>1, <1>9, <1>12 DEF Segment, RmsSegment
  <2>2. kshared[0] = SumOf(sq, OfBlock(job, b))
    BY <1>1, <1>2, <1>4, <1>12 DEF RmsKept
  <2>3. wr.shared = <<>> /\ DOMAIN wr.out = own
        /\ \A i \in own : wr.out[i] = <<job.in[i], SumOf(sq, OfBlock(job, b))>>
    BY <2>1, <2>2 DEF ToOut
  <2>4. own \subseteq DOMAIN kout
    BY <1>1, <1>2, OutIn
  <2>5. ASSUME NEW i \in own PROVE Updated(kout, wr.out)[i] = Target(job, b, i)
    <3>1. Target(job, b, i) = <<job.in[i], SumOf(sq, OfBlock(job, b))>>
      BY <1>1 DEF Target
    <3>2. QED
      BY <2>3, <2>4, <3>1, UpdatedIs
  <2>6. RmsKept(job, b, Advance(w), Updated(kshared, wr.shared))
    <3>1. \A v \in WarpsOf(job) : Updated(kshared, wr.shared)[v] = kshared[v]
      BY <1>3, <2>3, UpdatedIs
    <3>2. QED
      BY <1>1, <1>2, <1>4, <1>12, <3>1 DEF RmsKept
  <2>7. SharedKept(job, b, Advance(w), Updated(kshared, wr.shared), Updated(kout, wr.out))
    BY <2>6 DEF SharedKept
  <2>8. QED
    BY <1>1, <2>3, <2>5, <2>7 DEF StepKept
<1>13. QED
  BY <1>2, <1>10, <1>11, <1>12

ShiftKept(d, f, h) == Fold("sum", h, 0 .. (d - 1)) = Fold("sum", f, d .. (2 * d - 1))

LEMMA ShiftParts ==
    ASSUME NEW d \in Nat, NEW f, \A c \in d .. (2 * d - 1) : f[c] \in Int,
           NEW h, \A t \in 0 .. (d - 1) : h[t] = f[t + d]
    PROVE  ShiftKept(d, f, h)
<1>1. PICK S, T : S = d .. (2 * d - 1) /\ T = 0 .. (d - 1)
  OBVIOUS
<1>2. IsFiniteSet(T)
  BY <1>1, FS_Interval
<1>3. PICK P : P = [t \in T |-> {t + d}]
  OBVIOUS
<1>4. ASSUME NEW t \in T PROVE IsFiniteSet(P[t]) /\ P[t] \subseteq S /\ h[t] = Fold("sum", f, P[t])
  <2>1. PICK c : c = t + d
    OBVIOUS
  <2>2. P[t] = {c} /\ c \in S /\ h[t] = f[c] /\ f[c] \in Int
    BY <1>1, <1>3, <2>1
  <2>3. Fold("sum", f, {c}) = Join("sum", f[c], Unit("sum"))
    BY <2>2, FoldOne DEF Modes
  <2>4. Join("sum", f[c], Unit("sum")) = f[c]
    BY <2>2 DEF Join, Unit
  <2>5. IsFiniteSet({c})
    BY FS_Singleton
  <2>6. QED
    BY <2>2, <2>3, <2>4, <2>5
<1>5. ASSUME NEW x \in S PROVE \E t \in T : x \in P[t]
  <2>1. x - d \in T /\ (x - d) + d = x
    BY <1>1
  <2>2. QED
    BY <1>3, <2>1
<1>6. ASSUME NEW t \in T, NEW u \in T, t # u PROVE P[t] \cap P[u] = {}
  <2>1. t + d # u + d
    BY <1>1, <1>6
  <2>2. QED
    BY <1>3, <2>1
<1>7. \A x \in S : f[x] \in Int
  BY <1>1
<1>8. Fold("sum", h, T) = Fold("sum", f, S)
  <2>1. \A t \in T : IsFiniteSet(P[t])
    BY <1>4
  <2>2. \A t \in T : P[t] \subseteq S
    BY <1>4
  <2>3. \A t \in T : h[t] = Fold("sum", f, P[t])
    BY <1>4
  <2>4. \A t, u \in T : t # u => P[t] \cap P[u] = {}
    BY <1>6
  <2>5. \A x \in S : \E t \in T : x \in P[t]
    BY <1>5
  <2>6. PICK m \in Modes : m = "sum"
    BY DEF Modes
  <2>7. \A t \in T : h[t] = Fold(m, f, P[t])
    BY <2>3, <2>6
  <2>8. Fold(m, h, T) = Fold(m, f, S)
    BY <1>2, <1>7, <2>1, <2>2, <2>4, <2>5, <2>7, FoldParts
  <2>9. QED
    BY <2>6, <2>8
<1>9. QED
  BY <1>1, <1>8 DEF ShiftKept

\* layer_norm_kernel.
LEMMA LayerStep ==
    ASSUME KernelInv, job.kernel = "layer_norm", NEW w, MayRun(w)
    PROVE  StepKept(w, Segment(w, kpc[w]))
<1>1. PICK wr, b, own, sq, d : /\ wr = Segment(w, kpc[w]) /\ b = kblock /\ own = OutOf(job, kblock, w)
                               /\ sq = SquaresOf(job) /\ d = job.dim
  OBVIOUS
<1>2. /\ Launched(job) /\ w \in WarpsOf(job) /\ b \in 0 .. (job.grid - 1)
      /\ kpc[w] \in {0, 1, 2} /\ Segments = 3 /\ 0 \in WarpsOf(job)
      /\ \A v \in WarpsOf(job) : kpc[v] \in {kpc[w], kpc[w] + 1}
      /\ \A v \in WarpsOf(job) : Advance(w)[v] = IF v = w THEN kpc[w] + 1 ELSE kpc[v]
      /\ DOMAIN kout = Elements(job)
  <2>1. Segments = 3
    BY DEF Segments
  <2>2. QED
    BY <1>1, <2>1, MayRunIs DEF KernelInv, KernelTypes
<1>3. d \in Nat \ {0} /\ DOMAIN kshared = 0 .. (2 * d - 1)
  <2>1. d \in Nat \ {0}
    BY <1>1, <1>2, JobSize
  <2>2. QED
    BY <1>1, <2>1 DEF KernelInv, KernelTypes, Cells
<1>4. LayerKept(job, b, kpc, kshared)
  BY <1>1 DEF KernelInv, SharedKept
<1>5. own = OfWarp(job, b, w) /\ job.kernel \in RowKernels
  BY <1>1 DEF OutOf, Reductions, RowKernels
<1>6. \A i \in Elements(job) : sq[i] \in Int /\ job.in[i] \in Int
  BY <1>1, <1>2, InputInts
<1>7. Squares = sq
  BY <1>1, <1>2, SquaresAre
<1>8. \A t \in 0 .. (d - 1) : Columns(t) = OfThread(job, b, t)
  BY <1>1, <1>2, <1>5, ColumnsOf
<1>9. UNION {Columns(t) : t \in Lanes(w)} = own
  BY <1>1, <1>2, <1>5, ColumnsOf
<1>10. \A v \in WarpsOf(job) : Lanes(v) \subseteq 0 .. (d - 1)
  BY <1>1, <1>2, LanesAre
<1>11. CASE kpc[w] = 0
  <2>1. PICK cells : cells = Lanes(w) \cup {t + d : t \in Lanes(w)}
    OBVIOUS
  <2>2. PICK f : f = [c \in cells |-> IF c < d THEN SumOf(job.in, Columns(c)) ELSE SumOf(sq, Columns(c - d))]
    OBVIOUS
  <2>3. wr = ToShared(f)
    BY <1>1, <1>7, <1>11, <2>1, <2>2 DEF Segment, LayerNormSegment
  <2>4. cells \subseteq DOMAIN kshared
    BY <1>2, <1>3, <1>10, <2>1
  <2>5. wr.shared = f /\ wr.out = <<>> /\ DOMAIN f = cells
    BY <2>2, <2>3 DEF ToShared
  <2>6. ASSUME NEW t \in Lanes(w)
        PROVE  /\ Updated(kshared, f)[t] = SumOf(job.in, OfThread(job, b, t))
               /\ Updated(kshared, f)[t + d] = SumOf(sq, OfThread(job, b, t))
    <3>1. t \in 0 .. (d - 1) /\ t \in cells /\ t + d \in cells
      BY <1>2, <1>10, <2>1
    <3>2. Columns(t) = OfThread(job, b, t)
      BY <1>8, <3>1
    <3>3. t < d /\ ~(t + d < d) /\ (t + d) - d = t
      BY <1>3, <3>1
    <3>4. f[t] = SumOf(job.in, Columns(t)) /\ f[t + d] = SumOf(sq, Columns(t))
      BY <2>2, <3>1, <3>3
    <3>5. Updated(kshared, f)[t] = f[t] /\ Updated(kshared, f)[t + d] = f[t + d]
      BY <2>4, <2>5, <3>1, UpdatedIs
    <3>6. QED
      BY <3>2, <3>4, <3>5
  <2>7. ASSUME NEW v \in WarpsOf(job), v # w, NEW t \in Lanes(v)
        PROVE  Updated(kshared, f)[t] = kshared[t] /\ Updated(kshared, f)[t + d] = kshared[t + d]
    <3>1. t \in 0 .. (d - 1) /\ t \notin Lanes(w)
      BY <1>2, <1>10, <2>7, LanesAre
    <3>2. t \notin cells /\ t + d \notin cells
      BY <1>2, <1>3, <1>10, <2>1, <3>1
    <3>3. t \in DOMAIN kshared /\ t + d \in DOMAIN kshared
      BY <1>3, <3>1
    <3>4. QED
      BY <2>5, <3>2, <3>3, UpdatedIs
  <2>8. ASSUME NEW v \in WarpsOf(job), NEW t \in Lanes(v), Advance(w)[v] >= 1
        PROVE  /\ Updated(kshared, f)[t] = SumOf(job.in, OfThread(job, b, t))
               /\ Updated(kshared, f)[t + d] = SumOf(sq, OfThread(job, b, t))
    <3>1. CASE v = w
      BY <2>6, <3>1
    <3>2. CASE v # w
      <4>1. kpc[v] >= 1 /\ ~(kpc[0] >= 2)
        BY <1>2, <1>11, <2>8, <3>2
      <4>2. kshared[t] = SumOf(job.in, OfThread(job, b, t)) /\ kshared[t + d] = SumOf(sq, OfThread(job, b, t))
        BY <1>1, <1>4, <4>1 DEF LayerKept
      <4>3. QED
        BY <2>7, <3>2, <4>2
    <3>3. QED
      BY <3>1, <3>2
  <2>9. ~(Advance(w)[0] >= 2)
    BY <1>2, <1>11
  <2>10. LayerKept(job, b, Advance(w), Updated(kshared, wr.shared))
    BY <1>1, <2>5, <2>8, <2>9 DEF LayerKept
  <2>11. SharedKept(job, b, Advance(w), Updated(kshared, wr.shared), Updated(kout, wr.out))
    BY <2>10 DEF SharedKept
  <2>12. DOMAIN wr.shared \subseteq DOMAIN kshared /\ DOMAIN wr.out \subseteq own /\ kpc[w] + 1 # Segments
    BY <1>2, <1>11, <2>4, <2>5
  <2>13. QED
    BY <1>1, <2>11, <2>12 DEF StepKept
<1>12. CASE kpc[w] = 1
  <2>1. PICK total, totalSq : total = SumOf(kshared, 0 .. (d - 1)) /\ totalSq = SumOf(kshared, d .. (2 * d - 1))
    OBVIOUS
  <2>2. wr = IF w = 0
             THEN ToShared([c \in {0, d} |-> IF c = 0 THEN total ELSE job.n * totalSq - total * total])
             ELSE Nothing
    BY <1>1, <1>12, <2>1 DEF Segment, LayerNormSegment
  <2>3. ASSUME w = 0 PROVE total = SumOf(job.in, OfBlock(job, b)) /\ totalSq = SumOf(sq, OfBlock(job, b))
    <3>1. ASSUME NEW t \in 0 .. (d - 1)
          PROVE  kshared[t] = SumOf(job.in, OfThread(job, b, t)) /\ kshared[t + d] = SumOf(sq, OfThread(job, b, t))
      <4>1. PICK v : v = t \div Warp
        OBVIOUS
      <4>2. v \in WarpsOf(job) /\ t \in Lanes(v)
        BY <1>1, <1>2, <4>1, LanesAre
      <4>3. kpc[v] >= 1 /\ ~(kpc[0] >= 2)
        BY <1>2, <1>12, <2>3, <4>2
      <4>4. QED
        BY <1>1, <1>4, <4>2, <4>3 DEF LayerKept
    <3>2. PICK j, h, g, x : j = job /\ h = kshared /\ g = [t \in 0 .. (d - 1) |-> kshared[t + d]] /\ x = job.in
      OBVIOUS
    <3>3. \A t \in 0 .. (j.dim - 1) : h[t] = Fold("sum", x, OfThread(j, b, t))
      BY <1>1, <3>1, <3>2 DEF Fold
    <3>4. \A t \in 0 .. (j.dim - 1) : g[t] = Fold("sum", sq, OfThread(j, b, t))
      BY <1>1, <3>1, <3>2 DEF Fold
    <3>5. "sum" \in Modes /\ Launched(j) /\ (\A i \in Elements(j) : x[i] \in Int) /\ \A i \in Elements(j) : sq[i] \in Int
      BY <1>2, <1>6, <3>2 DEF Modes
    <3>6. Fold("sum", h, 0 .. (j.dim - 1)) = Fold("sum", x, OfBlock(j, b))
      BY <3>3, <3>5, AllThreadParts, Zenon
    <3>7. Fold("sum", g, 0 .. (j.dim - 1)) = Fold("sum", sq, OfBlock(j, b))
      BY <3>4, <3>5, AllThreadParts, Zenon
    <3>8. ASSUME NEW c \in d .. (2 * d - 1) PROVE h[c] \in Int
      <4>1. PICK t : t = c - d
        OBVIOUS
      <4>2. t \in 0 .. (d - 1) /\ t + d = c
        BY <1>3, <4>1
      <4>3. h[c] = SumOf(sq, OfThread(job, b, t))
        BY <3>1, <3>2, <4>2
      <4>4. PICK S : S = OfThread(job, b, t)
        OBVIOUS
      <4>5. IsFiniteSet(S) /\ S \subseteq Elements(job)
        <5>1. \A u : IsFiniteSet(OfThread(job, b, u))
          BY <1>2, OfFinite
        <5>2. QED
          BY <4>4, <5>1 DEF OfThread
      <4>6. Fold("sum", sq, S) \in Int
        BY <1>6, <4>5, FoldVal DEF Modes
      <4>7. QED
        BY <4>3, <4>4, <4>6 DEF Fold
    <3>9. \A t \in 0 .. (d - 1) : g[t] = h[t + d]
      BY <3>2
    <3>10. ShiftKept(d, h, g)
      BY <1>3, <3>8, <3>9, ShiftParts
    <3>11. Fold("sum", g, 0 .. (d - 1)) = Fold("sum", h, d .. (2 * d - 1))
      BY <3>10 DEF ShiftKept
    <3>12. QED
      BY <1>1, <2>1, <3>2, <3>6, <3>7, <3>11 DEF Fold
  <2>4. /\ wr.out = <<>>
        /\ w = 0 => DOMAIN wr.shared = {0, d} /\ wr.shared[0] = SumOf(job.in, OfBlock(job, b))
                    /\ wr.shared[d] = VarianceOf(job, b)
        /\ w # 0 => wr.shared = <<>>
    BY <1>1, <1>3, <2>2, <2>3 DEF ToShared, Nothing, VarianceOf
  <2>5. LayerKept(job, b, Advance(w), Updated(kshared, wr.shared))
    <3>1. CASE w = 0
      <4>1. /\ Updated(kshared, wr.shared)[0] = SumOf(job.in, OfBlock(job, b))
            /\ Updated(kshared, wr.shared)[d] = VarianceOf(job, b)
        BY <1>3, <2>4, <3>1, UpdatedIs
      <4>2. ASSUME NEW v \in WarpsOf(job), NEW t \in Lanes(v), Advance(w)[v] >= 1, t # 0
            PROVE  /\ Updated(kshared, wr.shared)[t] = SumOf(job.in, OfThread(job, b, t))
                   /\ Updated(kshared, wr.shared)[t + d] = SumOf(sq, OfThread(job, b, t))
        <5>1. t \in 0 .. (d - 1)
          BY <1>10
        <5>2. kpc[v] >= 1
          BY <1>2, <1>12
        <5>3. kshared[t] = SumOf(job.in, OfThread(job, b, t)) /\ kshared[t + d] = SumOf(sq, OfThread(job, b, t))
          BY <1>1, <1>4, <4>2, <5>2 DEF LayerKept
        <5>4. t \in DOMAIN kshared /\ t + d \in DOMAIN kshared /\ t \notin {0, d} /\ t + d \notin {0, d}
          BY <1>3, <4>2, <5>1
        <5>5. QED
          BY <2>4, <3>1, <5>3, <5>4, UpdatedIs
      <4>3. Advance(w)[0] >= 2
        BY <1>2, <1>12, <3>1
      <4>4. QED
        BY <1>1, <4>1, <4>2, <4>3 DEF LayerKept
    <3>2. CASE w # 0
      <4>1. \A c \in DOMAIN kshared : Updated(kshared, wr.shared)[c] = kshared[c]
        BY <2>4, <3>2, UpdatedIs
      <4>2. ASSUME NEW v \in WarpsOf(job), NEW t \in Lanes(v)
            PROVE  Updated(kshared, wr.shared)[t] = kshared[t] /\ Updated(kshared, wr.shared)[t + d] = kshared[t + d]
        BY <1>3, <1>10, <4>1
      <4>3. Updated(kshared, wr.shared)[0] = kshared[0] /\ Updated(kshared, wr.shared)[d] = kshared[d]
        BY <1>3, <4>1
      <4>4. (\A v \in WarpsOf(job) : kpc[v] >= 1) /\ Advance(w)[0] = kpc[0]
        BY <1>2, <1>12, <3>2
      <4>5. ASSUME NEW v \in WarpsOf(job), NEW t \in Lanes(v), ~(t = 0 /\ Advance(w)[0] >= 2)
            PROVE  /\ Updated(kshared, wr.shared)[t] = SumOf(job.in, OfThread(job, b, t))
                   /\ Updated(kshared, wr.shared)[t + d] = SumOf(sq, OfThread(job, b, t))
        <5>1. kshared[t] = SumOf(job.in, OfThread(job, b, t)) /\ kshared[t + d] = SumOf(sq, OfThread(job, b, t))
          BY <1>1, <1>4, <4>4, <4>5 DEF LayerKept
        <5>2. QED
          BY <4>2, <5>1
      <4>6. Advance(w)[0] >= 2 => kshared[0] = SumOf(job.in, OfBlock(job, b)) /\ kshared[d] = VarianceOf(job, b)
        BY <1>1, <1>4, <4>4 DEF LayerKept
      <4>7. QED
        BY <1>1, <4>3, <4>5, <4>6 DEF LayerKept
    <3>3. QED
      BY <3>1, <3>2
  <2>6. SharedKept(job, b, Advance(w), Updated(kshared, wr.shared), Updated(kout, wr.out))
    BY <2>5 DEF SharedKept
  <2>7. DOMAIN wr.shared \subseteq DOMAIN kshared /\ DOMAIN wr.out \subseteq own /\ kpc[w] + 1 # Segments
    BY <1>2, <1>3, <1>12, <2>4
  <2>8. QED
    BY <1>1, <2>6, <2>7 DEF StepKept
<1>13. CASE kpc[w] = 2
  <2>1. wr = ToOut([i \in own |-> <<job.n * job.in[i] - kshared[0], kshared[d]>>])
    BY <1>1, <1>9, <1>13 DEF Segment, LayerNormSegment
  <2>2. kshared[0] = SumOf(job.in, OfBlock(job, b)) /\ kshared[d] = VarianceOf(job, b)
    BY <1>1, <1>2, <1>4, <1>13 DEF LayerKept
  <2>3. wr.shared = <<>> /\ DOMAIN wr.out = own
        /\ \A i \in own : wr.out[i] = <<job.n * job.in[i] - SumOf(job.in, OfBlock(job, b)), VarianceOf(job, b)>>
    BY <2>1, <2>2 DEF ToOut
  <2>4. own \subseteq DOMAIN kout
    BY <1>1, <1>2, OutIn
  <2>5. ASSUME NEW i \in own PROVE Updated(kout, wr.out)[i] = Target(job, b, i)
    <3>1. Target(job, b, i) = <<job.n * job.in[i] - SumOf(job.in, OfBlock(job, b)), VarianceOf(job, b)>>
      BY DEF Target
    <3>2. QED
      BY <2>3, <2>4, <3>1, UpdatedIs
  <2>6. LayerKept(job, b, Advance(w), Updated(kshared, wr.shared))
    <3>1. \A c \in DOMAIN kshared : Updated(kshared, wr.shared)[c] = kshared[c]
      BY <2>3, UpdatedIs
    <3>2. ASSUME NEW v \in WarpsOf(job), NEW t \in Lanes(v)
          PROVE  Updated(kshared, wr.shared)[t] = kshared[t] /\ Updated(kshared, wr.shared)[t + d] = kshared[t + d]
      BY <1>3, <1>10, <3>1
    <3>3. Updated(kshared, wr.shared)[0] = kshared[0] /\ Updated(kshared, wr.shared)[d] = kshared[d]
      BY <1>3, <3>1
    <3>4. \A v \in WarpsOf(job) : kpc[v] >= 2
      BY <1>2, <1>13
    <3>5. QED
      BY <1>1, <1>2, <1>4, <3>2, <3>3, <3>4 DEF LayerKept
  <2>7. SharedKept(job, b, Advance(w), Updated(kshared, wr.shared), Updated(kout, wr.out))
    BY <2>6 DEF SharedKept
  <2>8. QED
    BY <1>1, <2>3, <2>5, <2>7 DEF StepKept
<1>14. QED
  BY <1>2, <1>11, <1>12, <1>13

RemainingFacts(j) ==
    /\ Len(Halvings[j.dim]) \in Nat /\ Remaining(j, 0) = j.dim
    /\ \A k \in Nat : Remaining(j, k) \in Nat \ {0}
    /\ \A k \in Nat : k >= Len(Halvings[j.dim]) => Remaining(j, k) = 1
    /\ \A k \in 1 .. Len(Halvings[j.dim]) :
         Remaining(j, k - 1) = 2 * Remaining(j, k) /\ Remaining(j, k) = Halvings[j.dim][k]
    /\ \A k \in Nat : Remaining(j, k) <= j.dim

LEMMA RemainingIs ==
    ASSUME NEW j, Launched(j)
    PROVE  RemainingFacts(j)
<1>1. PICK d, n : d = j.dim /\ n = Len(Halvings[d])
  OBVIOUS
<1>2. d \in Nat \ {0} /\ IsPower(d)
  BY <1>1, KernelAssumption DEF Launched
<1>3. /\ n \in Nat /\ Half(d, 0) = d /\ Half(d, n) = 1
      /\ \A k \in 0 .. n : Half(d, k) \in Nat \ {0}
      /\ \A k \in 1 .. n : Half(d, k - 1) = 2 * Half(d, k)
  BY <1>1, <1>2, PowerHalves
<1>4. \A k \in Nat : Remaining(j, k) = Half(d, IF k <= n THEN k ELSE n)
  BY <1>1 DEF Remaining
<1>5. Remaining(j, 0) = d
  BY <1>3, <1>4
<1>6. \A k \in Nat : Remaining(j, k) \in Nat \ {0}
  BY <1>3, <1>4
<1>7. \A k \in Nat : k >= n => Remaining(j, k) = 1
  BY <1>3, <1>4
<1>8. ASSUME NEW k \in 1 .. n PROVE Remaining(j, k - 1) = 2 * Remaining(j, k) /\ Remaining(j, k) = Halvings[d][k]
  <2>1. Remaining(j, k - 1) = Half(d, k - 1) /\ Remaining(j, k) = Half(d, k)
    BY <1>3, <1>4
  <2>2. Half(d, k) = Halvings[d][k]
    BY <1>3 DEF Half
  <2>3. QED
    BY <1>3, <2>1, <2>2
<1>9. \A k \in Nat : Remaining(j, k) <= d
  <2> DEFINE S == {k \in Nat : Remaining(j, k) <= d}
  <2>1. 0 \in S
    BY <1>2, <1>5
  <2>2. ASSUME NEW k \in Nat, k \in S PROVE k + 1 \in S
    <3>1. CASE k + 1 <= n
      <4>1. k + 1 \in 1 .. n /\ (k + 1) - 1 = k
        BY <1>3, <3>1
      <4>2. Remaining(j, k) = 2 * Remaining(j, k + 1)
        BY <1>8, <4>1
      <4>3. Remaining(j, k) <= d /\ Remaining(j, k + 1) \in Nat
        BY <1>6, <2>2
      <4>4. QED
        BY <1>2, <4>2, <4>3
    <3>2. CASE ~(k + 1 <= n)
      <4>1. Remaining(j, k + 1) = 1
        BY <1>3, <1>7, <3>2
      <4>2. QED
        BY <1>2, <4>1
    <3>3. QED
      BY <3>1, <3>2
  <2> HIDE DEF S
  <2>3. \A k \in Nat : k \in S
    BY <2>1, <2>2, NatInduct
  <2>4. QED
    BY <2>3 DEF S
<1>10. QED
  BY <1>1, <1>3, <1>5, <1>6, <1>7, <1>8, <1>9 DEF RemainingFacts

\* The sums of the threads are numbers; those of threads past the elements are 0.
LEMMA FirstIs ==
    ASSUME NEW j, Launched(j), NEW b
    PROVE  /\ \A u \in 0 .. (j.dim - 1) : First(j, b)[u] \in Int
           /\ j.kernel = "bridge_sum" => \A u \in 0 .. (j.dim - 1) : u >= j.n => First(j, b)[u] = 0
<1>1. ASSUME NEW u \in 0 .. (j.dim - 1) PROVE First(j, b)[u] \in Int
  <2>1. PICK S, f : S = OfThread(j, b, u) /\ f = j.in
    OBVIOUS
  <2>2. S \subseteq Elements(j)
    BY <2>1 DEF OfThread
  <2>3. IsFiniteSet(S)
    BY <2>1, OfFinite
  <2>4. \A x \in S : f[x] \in Int
    BY <2>1, <2>2, InputInts
  <2>5. Fold("sum", f, S) \in Int
    BY <2>3, <2>4, FoldVal DEF Modes
  <2>6. QED
    BY <2>1, <2>5 DEF First, Fold
<1>2. ASSUME j.kernel = "bridge_sum", NEW u \in 0 .. (j.dim - 1), u >= j.n PROVE First(j, b)[u] = 0
  <2>1. PICK d, n : d = j.dim /\ n = j.n
    OBVIOUS
  <2>2. d \in Nat \ {0} /\ n \in Nat \ {0} /\ Elements(j) = 0 .. (n - 1)
    BY <1>2, <2>1, JobSize DEF Launched, Elements, RowKernels
  <2>3. ASSUME NEW i \in Elements(j), ThreadAt(j, i) = u PROVE FALSE
    <3>1. i % d = u
      BY <1>2, <2>1, <2>3 DEF ThreadAt, RowKernels
    <3>2. i \in Nat /\ i < n
      BY <2>2
    <3>3. i % d <= i
      <4>1. PICK q, r : q = i \div d /\ r = i % d
        OBVIOUS
      <4>0. d \in Nat \ {0} /\ i \in Int /\ i \in Nat
        BY <2>2, <3>2
      <4>2. Split(i, d, q, r)
        BY <4>0, <4>1, SplitHas
      <4>3. q \in Nat
        BY <2>2, <3>2, <4>1, SplitNat
      <4>4. q * d \in Nat
        BY <2>2, <4>3
      <4>5. QED
        BY <4>1, <4>2, <4>4 DEF Split
    <3>4. QED
      BY <1>2, <2>1, <2>2, <3>1, <3>2, <3>3
  <2>4. OfThread(j, b, u) = {}
    BY <2>3 DEF OfThread
  <2>5. SumOf(j.in, {}) = 0
    <3>1. Fold("sum", j.in, {}) = Unit("sum")
      BY FoldEmpty DEF Modes
    <3>2. QED
      BY <3>1 DEF Fold, Unit
  <2>6. QED
    BY <2>4, <2>5 DEF First
<1>3. QED
  BY <1>1, <1>2

\* What a thread of the bridge's sum_kernel starts with.
LEMMA BridgeFirst ==
    ASSUME NEW j, Launched(j), j.kernel = "bridge_sum", NEW t \in 0 .. (j.dim - 1)
    PROVE  First(j, 0)[t] = IF t < j.n THEN j.in[t] ELSE 0
<1>1. PICK d, n, f : d = j.dim /\ n = j.n /\ f = j.in
  OBVIOUS
<1>2. d \in Nat \ {0} /\ n \in Nat \ {0} /\ Elements(j) = 0 .. (n - 1)
  BY <1>1, JobSize DEF Launched, Elements, RowKernels
<1>3. CASE t < n
  <2>1. ASSUME NEW i \in Elements(j) PROVE (BlockAt(j, i) = 0 /\ ThreadAt(j, i) = t) <=> i = t
    <3>1. i \in Int
      BY <1>2
    <3>2. Place(i, d, 0, t)
      BY <1>1, <1>2, <3>1, PlaceIs
    <3>3. i = t <=> i \div d = 0 /\ i % d = t
      BY <1>1, <1>2, <3>1, <3>2 DEF Place
    <3>4. BlockAt(j, i) = i \div d /\ ThreadAt(j, i) = i % d
      BY <1>1 DEF BlockAt, ThreadAt, RowKernels
    <3>5. QED
      BY <3>3, <3>4
  <2>2. t \in Elements(j)
    BY <1>2, <1>3
  <2>3. OfThread(j, 0, t) = {t}
    BY <2>1, <2>2 DEF OfThread
  <2>4. f[t] \in Int
    BY <1>1, <2>2, InputInts
  <2>5. Fold("sum", f, {t}) = Join("sum", f[t], Unit("sum"))
    BY <2>4, FoldOne DEF Modes
  <2>6. Join("sum", f[t], Unit("sum")) = f[t]
    BY <2>4 DEF Join, Unit
  <2>7. QED
    BY <1>1, <1>3, <2>3, <2>5, <2>6 DEF First, Fold
<1>4. CASE ~(t < n)
  <2>1. First(j, 0)[t] = 0
    BY <1>1, <1>2, <1>4, FirstIs
  <2>2. QED
    BY <1>1, <1>4, <2>1
<1>5. QED
  BY <1>3, <1>4

\* What cell t of warp v holds.
TreeAt(j, b, pc, sh, v, t) ==
    /\ pc[v] >= 1 /\ t < Remaining(j, pc[v] - 1)
         => sh[t] = Gathered(First(j, b), j.dim, Remaining(j, pc[v] - 1), t)
    /\ pc[v] >= 2 /\ t >= Remaining(j, pc[v] - 1) /\ t < Remaining(j, pc[v] - 2)
         => sh[t] = Gathered(First(j, b), j.dim, Remaining(j, pc[v] - 2), t)

LEMMA TreeFrom ==
    ASSUME NEW j, NEW b, NEW pc, NEW sh
    PROVE  TreeKept(j, b, pc, sh) <=> \A v \in WarpsOf(j) : \A t \in Lanes(v) : TreeAt(j, b, pc, sh, v, t)
BY DEF TreeKept, TreeAt

\* What step k of the loop leaves in cell t, which adds the cell s further on where there is one.
Added(j, b, sh, k, cells, t) ==
    /\ t + Remaining(j, k) < cells
         => sh[t] + sh[t + Remaining(j, k)] = Gathered(First(j, b), j.dim, Remaining(j, k), t)
    /\ ~(t + Remaining(j, k) < cells)
         => sh[t] = Gathered(First(j, b), j.dim, Remaining(j, k), t)

LEMMA TreeLoop ==
    ASSUME NEW j, Launched(j), NEW b, NEW pc, NEW sh, TreeKept(j, b, pc, sh),
           NEW k, k \in 1 .. Len(Halvings[j.dim]),
           \A v \in WarpsOf(j) : pc[v] \in {k, k + 1},
           NEW w \in WarpsOf(j), pc[w] = k,
           NEW cells \in Int,
           \A u \in 0 .. (j.dim - 1) : u >= cells => First(j, b)[u] = 0,
           NEW t \in Lanes(w), t < Remaining(j, k)
    PROVE  Added(j, b, sh, k, cells, t)
<1>1. PICK d, s, f, r : d = j.dim /\ s = Remaining(j, k) /\ f = First(j, b) /\ r = t + s
  OBVIOUS
<1>2. /\ d \in Nat \ {0} /\ s \in Nat \ {0} /\ k \in Nat /\ k >= 1 /\ Remaining(j, k - 1) = 2 * s
      /\ 2 * s <= d
  <2>1. RemainingFacts(j) /\ d \in Nat \ {0}
    BY <1>1, RemainingIs, JobSize
  <2>2. k \in Nat /\ k >= 1 /\ k - 1 \in Nat
    BY <2>1 DEF RemainingFacts
  <2>3. s \in Nat \ {0} /\ Remaining(j, k - 1) = 2 * s /\ Remaining(j, k - 1) <= d
    BY <1>1, <2>1, <2>2 DEF RemainingFacts
  <2>4. QED
    BY <2>1, <2>2, <2>3
<1>3. t \in 0 .. (s - 1) /\ t \in Nat /\ t < 2 * s /\ r >= s /\ r < 2 * s /\ r \in 0 .. (d - 1)
  <2>1. Lanes(w) \subseteq 0 .. (d - 1)
    BY <1>1, LanesAre
  <2>2. t \in Nat /\ t < s
    BY <1>1, <2>1
  <2>3. r = t + s /\ d \in Nat /\ s \in Nat \ {0} /\ 2 * s <= d
    BY <1>1, <1>2
  <2>4. QED
    BY <2>2, <2>3
<1>4. \A u \in 0 .. (d - 1) : f[u] \in Int
  BY <1>1, FirstIs
<1>5. TreeFacts(f, d, s, t)
  BY <1>2, <1>3, <1>4, TreeStep
<1>6. sh[t] = Gathered(f, d, 2 * s, t)
  BY <1>1, <1>2, <1>3 DEF TreeKept
<1>7. sh[r] = Gathered(f, d, 2 * s, r)
  <2>1. PICK v \in WarpsOf(j) : r \in Lanes(v)
    <3>1. \A u \in 0 .. (d - 1) : u \div Warp \in WarpsOf(j) /\ u \in Lanes(u \div Warp)
      BY <1>1, LanesAre
    <3>2. QED
      BY <1>3, <3>1
  <2>2. TreeAt(j, b, pc, sh, v, r)
    BY <2>1, TreeFrom
  <2>3. CASE pc[v] = k
    BY <1>1, <1>2, <1>3, <2>2, <2>3 DEF TreeAt
  <2>4. CASE pc[v] = k + 1
    <3>1. (k + 1) - 1 = k /\ (k + 1) - 2 = k - 1 /\ k + 1 >= 2
      BY <1>2
    <3>2. QED
      BY <1>1, <1>2, <1>3, <2>2, <2>4, <3>1 DEF TreeAt
  <2>5. QED
    BY <2>3, <2>4
<1>8. ASSUME ~(r < cells) PROVE Gathered(f, d, 2 * s, r) = 0
  <2>1. PICK e, c : e = 2 * s /\ c = cells
    OBVIOUS
  <2>2. e \in Nat \ {0} /\ r \in 0 .. (e - 1) /\ c \in Int /\ r >= c
    BY <1>2, <1>3, <1>8, <2>1
  <2>3. \A u \in 0 .. (d - 1) : u >= c => f[u] = 0
    BY <1>1, <2>1
  <2>4. Gathered(f, d, e, r) = 0
    <3>1. d \in Nat
      BY <1>2
    <3>2. QED
      BY <2>2, <2>3, <3>1, TreeZero
  <2>5. QED
    BY <2>1, <2>4
<1>9. Gathered(f, d, 2 * s, t) + Gathered(f, d, 2 * s, r) = Gathered(f, d, s, t)
  BY <1>1, <1>5 DEF TreeFacts
<1>10. ASSUME r < cells PROVE sh[t] + sh[r] = Gathered(f, d, s, t)
  BY <1>6, <1>7, <1>9
<1>11. ASSUME ~(r < cells) PROVE sh[t] = Gathered(f, d, s, t)
  <2>1. Gathered(f, d, 2 * s, t) \in Int
    <3>1. IsFiniteSet(Class(d, 2 * s, t)) /\ Class(d, 2 * s, t) \subseteq 0 .. (d - 1)
      <4>1. Class(d, 2 * s, t) \subseteq 0 .. (d - 1)
        BY DEF Class
      <4>2. IsFiniteSet(0 .. (d - 1))
        BY <1>2, FS_Interval
      <4>3. QED
        BY <4>1, <4>2, FS_Subset
    <3>2. PICK S : S = Class(d, 2 * s, t)
      OBVIOUS
    <3>3. \A u \in S : f[u] \in Int
      BY <1>4, <3>1, <3>2
    <3>4. Fold("sum", f, S) \in Int
      BY <3>1, <3>2, <3>3, FoldVal DEF Modes
    <3>5. QED
      BY <3>2, <3>4 DEF Gathered
  <2>2. QED
    BY <1>6, <1>8, <1>9, <1>11, <2>1
<1>12. QED
  BY <1>1, <1>10, <1>11 DEF Added

\* Cells that a warp does not write stay as they are.
LEMMA TreeSame ==
    ASSUME NEW j, NEW b, NEW pc, NEW sh, NEW pc2, NEW sh2, NEW v, NEW t,
           TreeAt(j, b, pc, sh, v, t), pc2[v] = pc[v], sh2[t] = sh[t]
    PROVE  TreeAt(j, b, pc2, sh2, v, t)
BY DEF TreeAt

\* The end of the loop leaves the sum of the block in cell 0.
LEMMA TreeRoot ==
    ASSUME NEW j, Launched(j), NEW b, NEW pc, NEW sh, TreeKept(j, b, pc, sh), 0 \in WarpsOf(j),
           pc[0] = Len(Halvings[j.dim]) + 1
    PROVE  sh[0] = SumOf(j.in, OfBlock(j, b))
<1>1. PICK n, f, x : n = Len(Halvings[j.dim]) /\ f = First(j, b) /\ x = j.in
  OBVIOUS
<1>2. RemainingFacts(j) /\ n \in Nat
  BY <1>1, RemainingIs DEF RemainingFacts
<1>3. 0 \in Lanes(0)
  BY KernelAssumption DEF Lanes
<1>4. TreeAt(j, b, pc, sh, 0, 0)
  BY <1>3, TreeFrom
<1>5. pc[0] >= 1 /\ pc[0] - 1 = n
  BY <1>1, <1>2
<1>6. Remaining(j, n) = 1
  BY <1>1, <1>2 DEF RemainingFacts
<1>7. sh[0] = Gathered(f, j.dim, 1, 0)
  BY <1>1, <1>4, <1>5, <1>6 DEF TreeAt
<1>8. Gathered(f, j.dim, 1, 0) = SumOf(f, 0 .. (j.dim - 1))
  <2>1. PICK d : d = j.dim
    OBVIOUS
  <2>2. d \in Nat
    BY <2>1, JobSize
  <2>3. QED
    BY <2>1, <2>2, TreeEnd
<1>9. \A t \in 0 .. (j.dim - 1) : f[t] = Fold("sum", x, OfThread(j, b, t))
  BY <1>1 DEF First, Fold
<1>10. "sum" \in Modes /\ \A i \in Elements(j) : x[i] \in Int
  BY <1>1, InputInts DEF Modes
<1>11. Fold("sum", f, 0 .. (j.dim - 1)) = Fold("sum", x, OfBlock(j, b))
  BY <1>9, <1>10, AllThreadParts, Zenon
<1>12. QED
  BY <1>1, <1>7, <1>8, <1>11 DEF Fold

SumCells(j) == IF j.kernel = "sum" THEN j.dim ELSE j.n

\* What the two sum kernels write in a segment.
LEMMA SumWrites ==
    ASSUME KernelInv, job.kernel \in {"sum", "bridge_sum"}, NEW w, MayRun(w)
    PROVE  /\ kpc[w] = 0 => Segment(w, kpc[w]) = ToShared([t \in Lanes(w) |-> First(job, kblock)[t]])
           /\ kpc[w] \in 1 .. Steps => Segment(w, kpc[w]) = ReduceStep(w, kpc[w], SumCells(job))
           /\ kpc[w] \notin 1 .. Steps /\ kpc[w] # 0
                => Segment(w, kpc[w]) = IF w = 0 THEN ToOut(OneCell(kblock, <<kshared[0]>>)) ELSE Nothing
<1>1. /\ Launched(job) /\ w \in WarpsOf(job) /\ kblock \in 0 .. (job.grid - 1) /\ kpc[w] \in Nat
  BY MayRunIs DEF KernelInv, KernelTypes
<1>2. Lanes(w) \subseteq 0 .. (job.dim - 1)
  BY <1>1, LanesAre
<1>3. CASE job.kernel = "sum"
  <2>1. ASSUME kpc[w] = 0 PROVE Segment(w, kpc[w]) = ToShared([t \in Lanes(w) |-> First(job, kblock)[t]])
    <3>1. ASSUME NEW t \in Lanes(w) PROVE SumOf(job.in, Pairs(t)) = First(job, kblock)[t]
      <4>1. t \in 0 .. (job.dim - 1)
        BY <1>2
      <4>2. Pairs(t) = OfThread(job, kblock, t)
        BY <1>1, <1>3, <4>1, PairsOf
      <4>3. QED
        BY <4>1, <4>2 DEF First
    <3>2. Segment(w, kpc[w]) = ToShared([t \in Lanes(w) |-> SumOf(job.in, Pairs(t))])
      BY <1>3, <2>1 DEF Segment, SumSegment
    <3>3. [t \in Lanes(w) |-> SumOf(job.in, Pairs(t))] = [t \in Lanes(w) |-> First(job, kblock)[t]]
      BY <3>1
    <3>4. QED
      BY <3>2, <3>3
  <2>2. ASSUME kpc[w] \in 1 .. Steps PROVE Segment(w, kpc[w]) = ReduceStep(w, kpc[w], SumCells(job))
    BY <1>3, <2>2 DEF Segment, SumSegment, SumCells
  <2>3. ASSUME kpc[w] \notin 1 .. Steps, kpc[w] # 0
        PROVE  Segment(w, kpc[w]) = IF w = 0 THEN ToOut(OneCell(kblock, <<kshared[0]>>)) ELSE Nothing
    BY <1>3, <2>3 DEF Segment, SumSegment
  <2>4. QED
    BY <2>1, <2>2, <2>3
<1>4. CASE job.kernel = "bridge_sum"
  <2>1. ASSUME kpc[w] = 0 PROVE Segment(w, kpc[w]) = ToShared([t \in Lanes(w) |-> First(job, kblock)[t]])
    <3>0. kblock = 0
      BY <1>1, <1>4 DEF Launched
    <3>1. ASSUME NEW t \in Lanes(w) PROVE (IF t < job.n THEN job.in[t] ELSE 0) = First(job, kblock)[t]
      <4>1. t \in 0 .. (job.dim - 1)
        BY <1>2
      <4>2. QED
        BY <1>1, <1>4, <3>0, <4>1, BridgeFirst
    <3>2. Segment(w, kpc[w]) = ToShared([t \in Lanes(w) |-> IF t < job.n THEN job.in[t] ELSE 0])
      BY <1>4, <2>1 DEF Segment, BridgeSumSegment
    <3>3. [t \in Lanes(w) |-> IF t < job.n THEN job.in[t] ELSE 0] = [t \in Lanes(w) |-> First(job, kblock)[t]]
      BY <3>1
    <3>4. QED
      BY <3>2, <3>3
  <2>2. ASSUME kpc[w] \in 1 .. Steps PROVE Segment(w, kpc[w]) = ReduceStep(w, kpc[w], SumCells(job))
    BY <1>4, <2>2 DEF Segment, BridgeSumSegment, SumCells
  <2>3. ASSUME kpc[w] \notin 1 .. Steps, kpc[w] # 0
        PROVE  Segment(w, kpc[w]) = IF w = 0 THEN ToOut(OneCell(kblock, <<kshared[0]>>)) ELSE Nothing
    BY <1>4, <2>3 DEF Segment, BridgeSumSegment
  <2>4. QED
    BY <2>1, <2>2, <2>3
<1>5. QED
  BY <1>3, <1>4

\* sum_kernel and the bridge's.
LEMMA SumStep ==
    ASSUME KernelInv, job.kernel \in {"sum", "bridge_sum"}, NEW w, MayRun(w)
    PROVE  StepKept(w, Segment(w, kpc[w]))
<1>1. PICK wr, b, own, n, d, f : /\ wr = Segment(w, kpc[w]) /\ b = kblock /\ own = OutOf(job, kblock, w)
                                 /\ n = Steps /\ d = job.dim /\ f = First(job, kblock)
  OBVIOUS
<1>2. /\ Launched(job) /\ w \in WarpsOf(job) /\ b \in 0 .. (job.grid - 1) /\ 0 \in WarpsOf(job)
      /\ kpc[w] \in Nat /\ kpc[w] < n + 2 /\ Segments = n + 2
      /\ \A v \in WarpsOf(job) : kpc[v] \in {kpc[w], kpc[w] + 1}
      /\ \A v \in WarpsOf(job) : Advance(w)[v] = IF v = w THEN kpc[w] + 1 ELSE kpc[v]
      /\ DOMAIN kout = Elements(job)
  <2>1. Segments = n + 2
    BY <1>1 DEF Segments
  <2>2. QED
    BY <1>1, <2>1, MayRunIs DEF KernelInv, KernelTypes
<1>3. d \in Nat \ {0} /\ DOMAIN kshared = 0 .. (d - 1) /\ RemainingFacts(job) /\ n \in Nat
  <2>1. d \in Nat \ {0} /\ RemainingFacts(job)
    BY <1>1, <1>2, JobSize, RemainingIs
  <2>2. QED
    BY <1>1, <2>1 DEF KernelInv, KernelTypes, Cells, RemainingFacts, Steps
<1>4. TreeKept(job, b, kpc, kshared)
  BY <1>1 DEF KernelInv, SharedKept
<1>5. own = {c \in {b} : w = 0}
  BY <1>1 DEF OutOf, Reductions
<1>6. \A v \in WarpsOf(job) : Lanes(v) \subseteq 0 .. (d - 1)
  BY <1>1, <1>2, LanesAre
<1>7. \A v \in WarpsOf(job) : \A t \in Lanes(v) : TreeAt(job, b, kpc, kshared, v, t)
  BY <1>4, TreeFrom
<1>8. ASSUME DOMAIN wr.shared \subseteq Lanes(w), NEW v \in WarpsOf(job), v # w, NEW t \in Lanes(v)
      PROVE  TreeAt(job, b, Advance(w), Updated(kshared, wr.shared), v, t)
  <2>1. t \notin DOMAIN wr.shared /\ t \in DOMAIN kshared
    BY <1>2, <1>3, <1>6, <1>8, LanesAre
  <2>2. Updated(kshared, wr.shared)[t] = kshared[t]
    BY <2>1, UpdatedIs
  <2>3. Advance(w)[v] = kpc[v]
    BY <1>2, <1>8
  <2>4. QED
    BY <1>7, <2>2, <2>3, TreeSame
<1>9. CASE kpc[w] = 0
  <2>1. wr = ToShared([t \in Lanes(w) |-> f[t]])
    BY <1>1, <1>9, SumWrites
  <2>2. DOMAIN wr.shared = Lanes(w) /\ wr.out = <<>> /\ \A t \in Lanes(w) : wr.shared[t] = f[t]
    BY <2>1 DEF ToShared
  <2>3. ASSUME NEW t \in Lanes(w) PROVE TreeAt(job, b, Advance(w), Updated(kshared, wr.shared), w, t)
    <3>1. t \in DOMAIN kshared /\ t \in 0 .. (d - 1)
      BY <1>2, <1>3, <1>6
    <3>2. Updated(kshared, wr.shared)[t] = f[t]
      BY <2>2, <3>1, UpdatedIs
    <3>3. f[t] \in Int
      BY <1>1, <1>2, <3>1, FirstIs
    <3>4. Gathered(f, d, d, t) = f[t]
      BY <1>3, <3>1, <3>3, TreeStart
    <3>5. Remaining(job, 0) = d
      BY <1>1, <1>3 DEF RemainingFacts
    <3>6. Advance(w)[w] = 1 /\ 1 - 1 = 0
      BY <1>2, <1>9
    <3>7. QED
      BY <1>1, <3>2, <3>4, <3>5, <3>6 DEF TreeAt
  <2>4. \A v \in WarpsOf(job) : \A t \in Lanes(v) : TreeAt(job, b, Advance(w), Updated(kshared, wr.shared), v, t)
    BY <1>8, <2>2, <2>3
  <2>5. TreeKept(job, b, Advance(w), Updated(kshared, wr.shared))
    BY <2>4, TreeFrom
  <2>6. SharedKept(job, b, Advance(w), Updated(kshared, wr.shared), Updated(kout, wr.out))
    BY <2>5 DEF SharedKept
  <2>7. DOMAIN wr.shared \subseteq DOMAIN kshared /\ DOMAIN wr.out \subseteq own /\ kpc[w] + 1 # Segments
    BY <1>2, <1>3, <1>6, <1>9, <2>2
  <2>8. QED
    BY <1>1, <2>6, <2>7 DEF StepKept
<1>10. CASE kpc[w] \in 1 .. n
  <2>1. PICK k, s, cells : k = kpc[w] /\ s = Remaining(job, kpc[w]) /\ cells = SumCells(job)
    OBVIOUS
  <2>2. /\ k \in 1 .. Len(Halvings[job.dim]) /\ k \in Nat /\ s \in Nat \ {0} /\ s = Halvings[d][k]
        /\ Remaining(job, k - 1) = 2 * s /\ 2 * s <= d /\ k >= 1 /\ k - 1 \in Nat
    <3>1. k \in 1 .. Len(Halvings[job.dim]) /\ k \in Nat /\ k >= 1 /\ k - 1 \in Nat
      BY <1>1, <1>2, <1>3, <1>10, <2>1 DEF Steps
    <3>2. QED
      BY <1>1, <1>3, <2>1, <3>1 DEF RemainingFacts
  <2>3. wr = ToShared([t \in {u \in Lanes(w) : u < s /\ u + s < cells} |-> kshared[t] + kshared[t + s]])
    <3>1. wr = ReduceStep(w, k, cells)
      BY <1>1, <1>10, <2>1, SumWrites
    <3>2. Halvings[job.dim][k] = s
      BY <1>1, <2>2
    <3>3. QED
      BY <3>1, <3>2 DEF ReduceStep
  <2>4. /\ DOMAIN wr.shared = {u \in Lanes(w) : u < s /\ u + s < cells} /\ wr.out = <<>>
        /\ \A t \in DOMAIN wr.shared : wr.shared[t] = kshared[t] + kshared[t + s]
    BY <2>3 DEF ToShared
  <2>5. cells \in Int /\ \A u \in 0 .. (d - 1) : u >= cells => f[u] = 0
    <3>1. CASE job.kernel = "sum"
      BY <1>1, <1>3, <2>1, <3>1 DEF SumCells
    <3>2. CASE job.kernel = "bridge_sum"
      <4>1. cells = job.n
        BY <2>1, <3>2 DEF SumCells
      <4>2. cells \in Int
        BY <1>2, <4>1 DEF Launched
      <4>3. QED
        BY <1>1, <1>2, <3>2, <4>1, <4>2, FirstIs
    <3>3. QED
      BY <3>1, <3>2
  <2>6. ASSUME NEW t \in Lanes(w), t < s
        PROVE  Updated(kshared, wr.shared)[t] = Gathered(f, d, s, t)
    <3>1. PICK j : j = job
      OBVIOUS
    <3>2. Added(j, b, kshared, k, cells, t)
      <4>1. Launched(j) /\ w \in WarpsOf(j) /\ k \in 1 .. Len(Halvings[j.dim]) /\ t < Remaining(j, k)
        BY <1>2, <2>1, <2>2, <2>6, <3>1
      <4>2. \A u \in 0 .. (j.dim - 1) : u >= cells => First(j, b)[u] = 0
        BY <1>1, <2>5, <3>1
      <4>3. \A v \in WarpsOf(j) : kpc[v] \in {k, k + 1}
        BY <1>2, <2>1, <3>1
      <4>4. TreeKept(j, b, kpc, kshared) /\ cells \in Int /\ kpc[w] = k
        BY <1>4, <2>1, <2>5, <3>1
      <4>5. QED
        BY <4>1, <4>2, <4>3, <4>4, TreeLoop
    <3>3. t \in DOMAIN kshared
      BY <1>2, <1>3, <1>6
    <3>4. CASE t + s < cells
      <4>1. t \in DOMAIN wr.shared
        BY <2>4, <2>6, <3>4
      <4>2. Updated(kshared, wr.shared)[t] = kshared[t] + kshared[t + s]
        BY <2>4, <3>3, <4>1, UpdatedIs
      <4>3. QED
        BY <1>1, <2>1, <3>1, <3>2, <3>4, <4>2 DEF Added
    <3>5. CASE ~(t + s < cells)
      <4>1. t \notin DOMAIN wr.shared
        BY <2>4, <3>5
      <4>2. Updated(kshared, wr.shared)[t] = kshared[t]
        BY <3>3, <4>1, UpdatedIs
      <4>3. QED
        BY <1>1, <2>1, <3>1, <3>2, <3>5, <4>2 DEF Added
    <3>6. QED
      BY <3>4, <3>5
  <2>7. ASSUME NEW t \in Lanes(w) PROVE TreeAt(job, b, Advance(w), Updated(kshared, wr.shared), w, t)
    <3>1. Advance(w)[w] = k + 1 /\ (k + 1) - 1 = k /\ (k + 1) - 2 = k - 1
      BY <1>2, <2>1, <2>2
    <3>2. t < s => Updated(kshared, wr.shared)[t] = Gathered(f, d, s, t)
      BY <2>6
    <3>3. ASSUME t >= s, t < 2 * s PROVE Updated(kshared, wr.shared)[t] = Gathered(f, d, 2 * s, t)
      <4>1. t \in DOMAIN kshared /\ t \in 0 .. (d - 1)
        BY <1>2, <1>3, <1>6
      <4>2. t \notin DOMAIN wr.shared
        BY <2>2, <2>4, <3>3, <4>1
      <4>3. Updated(kshared, wr.shared)[t] = kshared[t]
        BY <4>1, <4>2, UpdatedIs
      <4>4. TreeAt(job, b, kpc, kshared, w, t)
        BY <1>2, <1>7
      <4>5. kshared[t] = Gathered(f, d, 2 * s, t)
        BY <1>1, <2>1, <2>2, <3>3, <4>4 DEF TreeAt
      <4>6. QED
        BY <4>3, <4>5
    <3>4. QED
      BY <1>1, <2>1, <2>2, <3>1, <3>2, <3>3 DEF TreeAt
  <2>8. \A v \in WarpsOf(job) : \A t \in Lanes(v) : TreeAt(job, b, Advance(w), Updated(kshared, wr.shared), v, t)
    <3>1. DOMAIN wr.shared \subseteq Lanes(w)
      BY <2>4
    <3>2. QED
      BY <1>8, <2>7, <3>1
  <2>9. TreeKept(job, b, Advance(w), Updated(kshared, wr.shared))
    BY <2>8, TreeFrom
  <2>10. SharedKept(job, b, Advance(w), Updated(kshared, wr.shared), Updated(kout, wr.out))
    BY <2>9 DEF SharedKept
  <2>11. DOMAIN wr.shared \subseteq DOMAIN kshared /\ DOMAIN wr.out \subseteq own /\ kpc[w] + 1 # Segments
    <3>1. DOMAIN wr.shared \subseteq DOMAIN kshared
      BY <1>2, <1>3, <1>6, <2>4
    <3>2. kpc[w] + 1 # n + 2
      BY <1>2, <1>3, <1>10
    <3>3. QED
      BY <1>2, <2>4, <3>1, <3>2
  <2>12. QED
    BY <1>1, <2>10, <2>11 DEF StepKept
<1>11. CASE kpc[w] = n + 1
  <2>1. wr = IF w = 0 THEN ToOut(OneCell(b, <<kshared[0]>>)) ELSE Nothing
    <3>1. kpc[w] \notin 1 .. n /\ kpc[w] # 0
      BY <1>3, <1>11
    <3>2. QED
      BY <1>1, <3>1, SumWrites
  <2>2. ASSUME w = 0 PROVE kshared[0] = SumOf(job.in, OfBlock(job, b))
    <3>1. kpc[0] = Len(Halvings[job.dim]) + 1
      BY <1>1, <1>11, <2>2 DEF Steps
    <3>2. PICK j, sh : j = job /\ sh = kshared
      OBVIOUS
    <3>3. sh[0] = SumOf(j.in, OfBlock(j, b))
      BY <1>2, <1>4, <3>1, <3>2, TreeRoot
    <3>4. QED
      BY <3>2, <3>3
  <2>3. wr.shared = <<>> /\ DOMAIN wr.out = own /\ (w = 0 => wr.out[b] = <<SumOf(job.in, OfBlock(job, b))>>)
    BY <1>5, <2>1, <2>2 DEF ToOut, OneCell, Nothing
  <2>4. own \subseteq DOMAIN kout
    BY <1>1, <1>2, OutIn
  <2>5. ASSUME NEW i \in own PROVE Updated(kout, wr.out)[i] = Target(job, b, i)
    <3>1. Target(job, b, i) = <<SumOf(job.in, OfBlock(job, b))>>
      BY DEF Target
    <3>2. i = b /\ w = 0
      BY <1>5
    <3>3. QED
      BY <2>3, <2>4, <3>1, <3>2, UpdatedIs
  <2>6. ASSUME NEW t \in Lanes(w) PROVE TreeAt(job, b, Advance(w), Updated(kshared, wr.shared), w, t)
    <3>1. t \in DOMAIN kshared /\ t \in 0 .. (d - 1)
      BY <1>2, <1>3, <1>6
    <3>2. Updated(kshared, wr.shared)[t] = kshared[t]
      BY <2>3, <3>1, UpdatedIs
    <3>3. TreeAt(job, b, kpc, kshared, w, t)
      BY <1>2, <1>7
    <3>4. Remaining(job, n) = 1 /\ Remaining(job, n + 1) = 1
      <4>1. \A k \in Nat : k >= n => Remaining(job, k) = 1
        <5>1. n = Len(Halvings[job.dim])
          BY <1>1 DEF Steps
        <5>2. \A k \in Nat : k >= Len(Halvings[job.dim]) => Remaining(job, k) = 1
          BY <1>3 DEF RemainingFacts
        <5>3. QED
          BY <5>1, <5>2
      <4>2. n \in Nat /\ n + 1 \in Nat /\ n >= n /\ n + 1 >= n
        BY <1>3
      <4>3. QED
        BY <4>1, <4>2
    <3>5. Advance(w)[w] = n + 2 /\ (n + 2) - 1 = n + 1 /\ (n + 2) - 2 = n /\ (n + 1) - 1 = n /\ n + 1 >= 1
      BY <1>2, <1>3, <1>11
    <3>6. t < 1 => kshared[t] = Gathered(f, d, 1, t)
      BY <1>1, <1>11, <3>3, <3>4, <3>5 DEF TreeAt
    <3>7. ~(t >= 1 /\ t < 1)
      BY <3>1
    <3>8. QED
      BY <1>1, <3>2, <3>4, <3>5, <3>6, <3>7 DEF TreeAt
  <2>7. \A v \in WarpsOf(job) : \A t \in Lanes(v) : TreeAt(job, b, Advance(w), Updated(kshared, wr.shared), v, t)
    BY <1>8, <2>3, <2>6
  <2>8. TreeKept(job, b, Advance(w), Updated(kshared, wr.shared))
    BY <2>7, TreeFrom
  <2>9. SharedKept(job, b, Advance(w), Updated(kshared, wr.shared), Updated(kout, wr.out))
    BY <2>8 DEF SharedKept
  <2>10. QED
    BY <1>1, <2>3, <2>5, <2>9 DEF StepKept
<1>12. QED
  BY <1>2, <1>3, <1>9, <1>10, <1>11

Softmaxes == {"softmax", "log_softmax"}

\* The writes of the softmax kernels, which differ in their output only.
LEMMA SoftmaxWrites ==
    ASSUME KernelInv, job.kernel \in Softmaxes, NEW w, MayRun(w)
    PROVE  /\ Segments = 5
           /\ kpc[w] = 0 => Segment(w, kpc[w]) = SoftmaxMax(w, 0)
           /\ kpc[w] = 1 => Segment(w, kpc[w]) = SoftmaxMax(w, 1)
           /\ kpc[w] = 2 => Segment(w, kpc[w]).shared = SoftmaxSum(w, 2).shared
           /\ kpc[w] = 3 => Segment(w, kpc[w]).shared = SoftmaxSum(w, 3).shared
           /\ kpc[w] = 3 => Segment(w, kpc[w]).out = <<>>
           /\ kpc[w] = 2 => Segment(w, kpc[w]).out =
                IF job.kernel = "softmax" THEN [i \in UNION {Columns(t) : t \in Lanes(w)} |-> <<RowExp(i)>>] ELSE <<>>
           /\ kpc[w] = 4 => Segment(w, kpc[w]) =
                ToOut([i \in UNION {Columns(t) : t \in Lanes(w)} |->
                        IF job.kernel = "softmax" THEN <<kout[i][1], kshared[SumCell(0)]>>
                        ELSE <<job.in[i] - kshared[0], kshared[SumCell(0)]>>])
<1>1. CASE job.kernel = "softmax"
  <2>1. Segments = 5
    BY <1>1 DEF Segments
  <2>2. Segment(w, kpc[w]) = SoftmaxSegment(w, kpc[w])
    BY <1>1 DEF Segment
  <2>3. kpc[w] = 3 => SoftmaxSum(w, 3).out = <<>>
    BY DEF SoftmaxSum, ToShared, Nothing
  <2>4. PICK all : all = UNION {Columns(t) : t \in Lanes(w)}
    OBVIOUS
  <2>5. SoftmaxSum(w, 2).out = [i \in all |-> <<RowExp(i)>>]
    <3> DEFINE here == UNION {Columns(t) : t \in Lanes(w)}
               exps == [i \in here |-> RowExp(i)]
               first == OneCell(SumCell(w), WarpSum([t \in Lanes(w) |-> SumOf(exps, Columns(t))], w))
               second == [i \in here |-> <<exps[i]>>]
    <3>1. SoftmaxSum(w, 2) = [shared |-> first, out |-> second]
      BY DEF SoftmaxSum
    <3>3. second = [i \in here |-> <<RowExp(i)>>]
      OBVIOUS
    <3> HIDE DEF first, second
    <3>2. SoftmaxSum(w, 2).out = second
      BY <3>1
    <3>4. QED
      BY <2>4, <3>2, <3>3
  <2>6. QED
    BY <1>1, <2>1, <2>2, <2>3, <2>4, <2>5 DEF SoftmaxSegment
<1>2. CASE job.kernel = "log_softmax"
  <2>1. Segments = 5
    BY <1>2 DEF Segments
  <2>2. Segment(w, kpc[w]) = LogSoftmaxSegment(w, kpc[w])
    BY <1>2 DEF Segment
  <2>3. \A k \in {2, 3} : SoftmaxSum(w, k) = [shared |-> SoftmaxSum(w, k).shared, out |-> SoftmaxSum(w, k).out]
    BY DEF SoftmaxSum, ToShared, Nothing
  <2>4. \A k \in {2, 3} : [SoftmaxSum(w, k) EXCEPT !.out = <<>>].shared = SoftmaxSum(w, k).shared
                         /\ [SoftmaxSum(w, k) EXCEPT !.out = <<>>].out = <<>>
    BY <2>3
  <2>5. QED
    BY <1>2, <2>1, <2>2, <2>4 DEF LogSoftmaxSegment
<1>3. QED
  BY <1>1, <1>2 DEF Softmaxes

\* A block of two warps or more: no warp gets past the segment that leaves the memory.
LEMMA OverflowStep ==
    ASSUME KernelInv, Overflows(job), NEW w, MayRun(w)
    PROVE  /\ StepKept(w, Segment(w, kpc[w]))
           /\ w # 0 /\ kpc[w] = 2 => ~(DOMAIN Segment(w, kpc[w]).shared \subseteq DOMAIN kshared)
<1>1. PICK wr, b, own, D : /\ wr = Segment(w, kpc[w]) /\ b = kblock /\ own = OutOf(job, kblock, w)
                           /\ D = job.dim \div Warp
  OBVIOUS
<1>2. /\ Launched(job) /\ w \in WarpsOf(job) /\ b \in 0 .. (job.grid - 1) /\ 0 \in WarpsOf(job)
      /\ kpc[w] \in 0 .. 4 /\ Segments = 5
      /\ \A v \in WarpsOf(job) : kpc[v] \in {kpc[w], kpc[w] + 1}
      /\ job.kernel \in Softmaxes
  <2>1. job.kernel \in Softmaxes
    BY DEF Overflows, Softmaxes
  <2>2. Segments = 5
    BY <2>1, SoftmaxWrites
  <2>3. QED
    BY <1>1, <2>1, <2>2, MayRunIs DEF KernelInv, KernelTypes
<1>3. own = OfWarp(job, b, w) /\ job.kernel \in RowKernels
  BY <1>1, <1>2 DEF OutOf, Reductions, RowKernels, Softmaxes
<1>4. UNION {Columns(t) : t \in Lanes(w)} = own
  BY <1>1, <1>2, <1>3, ColumnsOf
<1>5. D \in Nat /\ D >= 2
  <2>1. PICK d : d = job.dim
    OBVIOUS
  <2>2. d \in Nat \ {0} /\ Warp \in Nat \ {0} /\ d % Warp = 0 /\ d > Warp
    BY <1>2, <2>1, JobSize, KernelAssumption DEF Launched, Overflows
  <2>3. Split(d, Warp, D, 0)
    BY <1>1, <2>1, <2>2, SplitHas
  <2>4. D \in Nat
    BY <1>1, <2>1, <2>2, SplitNat
  <2>5. D # 0 /\ D # 1
    BY <2>2, <2>3 DEF Split
  <2>6. QED
    BY <2>4, <2>5
<1>6. WarpsOf(job) = 0 .. (D - 1) /\ DOMAIN kshared = 0 .. D
  <2>1. Cells(job.kernel, job.dim) = D + 1
    BY <1>1, <1>2 DEF Cells, Softmaxes
  <2>2. DOMAIN kshared = 0 .. ((D + 1) - 1)
    BY <2>1 DEF KernelInv, KernelTypes
  <2>3. QED
    BY <1>1, <1>5, <2>2 DEF WarpsOf
<1>7. kpc[w] <= 3
  <2>1. \A v \in WarpsOf(job) : v # 0 => kpc[v] <= 2
    BY DEF KernelInv, OutsideKept, MayRun
  <2>2. 1 \in WarpsOf(job)
    BY <1>5, <1>6
  <2>3. kpc[1] <= 2 /\ kpc[1] \in {kpc[w], kpc[w] + 1}
    BY <1>2, <2>1, <2>2
  <2>4. QED
    BY <1>2, <2>3
<1>8. DOMAIN wr.out \subseteq own
  <2>1. SoftmaxMax(w, 0).out = <<>> /\ SoftmaxMax(w, 1).out = <<>>
    BY DEF SoftmaxMax, ToShared, Nothing
  <2>2. CASE kpc[w] = 2
    <3>1. wr.out = IF job.kernel = "softmax" THEN [i \in own |-> <<RowExp(i)>>] ELSE <<>>
      BY <1>1, <1>2, <1>4, <2>2, SoftmaxWrites, Zenon
    <3>2. QED
      BY <3>1
  <2>3. CASE kpc[w] \in {0, 1, 3}
    <3>1. wr.out = <<>>
      <4>1. CASE kpc[w] = 0
        BY <1>1, <1>2, <2>1, <4>1, SoftmaxWrites, Zenon
      <4>2. CASE kpc[w] = 1
        BY <1>1, <1>2, <2>1, <4>2, SoftmaxWrites, Zenon
      <4>3. CASE kpc[w] = 3
        BY <1>1, <1>2, <4>3, SoftmaxWrites, Zenon
      <4>4. QED
        BY <2>3, <4>1, <4>2, <4>3
    <3>2. QED
      BY <3>1
  <2>4. QED
    BY <1>2, <1>7, <2>2, <2>3
<1>9. SharedKept(job, b, Advance(w), Updated(kshared, wr.shared), Updated(kout, wr.out))
  <2>1. b = 0
    BY <1>1, <1>2 DEF KernelInv, SharedKept, SoftmaxKept, Softmaxes
  <2>2. QED
    BY <1>2, <2>1 DEF SharedKept, SoftmaxKept, Softmaxes
<1>10. ASSUME w # 0, kpc[w] = 2 PROVE ~(DOMAIN wr.shared \subseteq DOMAIN kshared)
  <2>1. SumCell(w) \in DOMAIN SoftmaxSum(w, 2).shared
    BY DEF SoftmaxSum, OneCell
  <2>2. wr.shared = SoftmaxSum(w, 2).shared
    BY <1>1, <1>2, <1>10, SoftmaxWrites
  <2>3. SumCell(w) = D + w
    BY <1>1 DEF SumCell
  <2>4. D + w \notin 0 .. D
    BY <1>2, <1>5, <1>6, <1>10
  <2>5. QED
    BY <1>6, <2>1, <2>2, <2>3, <2>4
<1>11. kpc[w] + 1 # Segments
  BY <1>2, <1>7
<1>12. QED
  BY <1>1, <1>8, <1>9, <1>10, <1>11 DEF StepKept

LEMMA SingleWarp ==
    ASSUME NEW j, Launched(j), j.kernel \in Softmaxes, ~Overflows(j)
    PROVE  /\ j.dim \div Warp = 1 /\ WarpsOf(j) = {0}
           /\ \A b : OfWarp(j, b, 0) = OfBlock(j, b)
<1>1. PICK d, D : d = j.dim /\ D = d \div Warp
  OBVIOUS
<1>2. d \in Nat \ {0} /\ Warp \in Nat \ {0} /\ d <= Warp /\ D \in Nat \ {0} /\ d % Warp = 0
  BY <1>1, JobSize, KernelAssumption, LanesAre DEF Overflows, Softmaxes, Launched
<1>3. D = 1
  <2>1. Split(d, Warp, D, 0)
    BY <1>1, <1>2, SplitHas
  <2>2. Below(d, Warp, D, 2)
    BY <1>2, <2>1, SplitBelow
  <2>3. d < 2 * Warp
    BY <1>2
  <2>4. QED
    BY <1>2, <2>2, <2>3 DEF Below
<1>4. WarpsOf(j) = {0}
  BY <1>1, <1>3 DEF WarpsOf
<1>5. ASSUME NEW t \in 0 .. (d - 1) PROVE t \in Lanes(0)
  <2>1. t \div Warp \in WarpsOf(j) /\ t \in Lanes(t \div Warp)
    BY <1>1, LanesAre
  <2>2. QED
    BY <1>4, <2>1
<1>6. ASSUME NEW b PROVE OfWarp(j, b, 0) = OfBlock(j, b)
  <2>1. \A i \in Elements(j) : ThreadAt(j, i) \in Lanes(0)
    BY <1>1, <1>5, ThreadIn
  <2>2. QED
    BY <2>1 DEF OfWarp, OfBlock
<1>7. QED
  BY <1>1, <1>3, <1>4, <1>6

LEMMA ExpInt ==
    ASSUME NEW x
    PROVE  Exp(x) \in Int
BY KernelAssumption DEF Exp, Garbage

\* The largest input of a block and the sum of its exponentials.
LEMMA TopIs ==
    ASSUME NEW j, Launched(j), NEW b
    PROVE  /\ TopOf(j, b) \in Vals("max") /\ SumOf(ExpsOf(j, b), OfBlock(j, b)) \in Int
           /\ \A i \in OfBlock(j, b) : ExpsOf(j, b)[i] \in Int
<1>1. PICK S, f, g : S = OfBlock(j, b) /\ f = j.in /\ g = ExpsOf(j, b)
  OBVIOUS
<1>2. IsFiniteSet(S) /\ S \subseteq Elements(j)
  <2>1. IsFiniteSet(S)
    BY <1>1, OfFinite
  <2>2. QED
    BY <1>1, <2>1 DEF OfBlock
<1>3. \A x \in S : f[x] \in Int /\ g[x] \in Int
  BY <1>1, <1>2, InputInts, ExpInt DEF ExpsOf
<1>4. Fold("max", f, S) \in Vals("max")
  BY <1>2, <1>3, FoldVal DEF Modes
<1>5. Fold("sum", g, S) \in Int
  BY <1>2, <1>3, FoldVal DEF Modes
<1>6. QED
  BY <1>1, <1>3, <1>4, <1>5 DEF Fold, TopOf

\* What the lanes of the only warp add up.
LEMMA SoftmaxTotal ==
    ASSUME Launched(job), job.kernel \in Softmaxes, ~Overflows(job), kblock \in 0 .. (job.grid - 1),
           kshared[0] = TopOf(job, kblock)
    PROVE  /\ SoftmaxSum(0, 2).shared = OneCell(1, SumOf(ExpsOf(job, kblock), OfBlock(job, kblock)))
           /\ UNION {Columns(t) : t \in Lanes(0)} = OfBlock(job, kblock)
           /\ \A i : RowExp(i) = Exp(job.in[i] - TopOf(job, kblock))
<1> DEFINE here == UNION {Columns(t) : t \in Lanes(0)}
           exps == [i \in here |-> RowExp(i)]
           lanes == [t \in Lanes(0) |-> SumOf(exps, Columns(t))]
           second == [i \in here |-> <<exps[i]>>]
<1>1. SoftmaxSum(0, 2) = [shared |-> OneCell(SumCell(0), WarpSum(lanes, 0)), out |-> second]
  BY DEF SoftmaxSum
<1>2. /\ job.kernel \in RowKernels /\ 0 \in WarpsOf(job) /\ OfWarp(job, kblock, 0) = OfBlock(job, kblock)
      /\ job.dim \div Warp = 1
  BY SingleWarp DEF Softmaxes, RowKernels
<1>3. /\ here = OfBlock(job, kblock)
      /\ \A t \in 0 .. (job.dim - 1) : Columns(t) = OfThread(job, kblock, t)
  BY <1>2, ColumnsOf
<1>4. \A i : RowExp(i) = Exp(job.in[i] - TopOf(job, kblock))
  BY DEF RowExp
<1>5. exps = ExpsOf(job, kblock)
  BY <1>3, <1>4 DEF ExpsOf
<1>6. DOMAIN lanes = Lanes(0) /\ lanes = [t \in DOMAIN lanes |-> lanes[t]]
  OBVIOUS
<1>7. PICK f : f = [i \in Elements(job) |-> Exp(job.in[i] - TopOf(job, kblock))]
  OBVIOUS
<1>8. \A i \in Elements(job) : f[i] \in Int
  BY <1>7, ExpInt
<1>9. PICK g : g = ExpsOf(job, kblock)
  OBVIOUS
<1>10. \A i \in OfBlock(job, kblock) : g[i] = f[i]
  BY <1>7, <1>9 DEF ExpsOf, OfBlock
<1>11. ASSUME NEW t \in Lanes(0) PROVE lanes[t] = Fold("sum", f, OfThread(job, kblock, t))
  <2>1. t \in 0 .. (job.dim - 1)
    BY <1>2, LanesAre
  <2>2. PICK S : S = OfThread(job, kblock, t)
    OBVIOUS
  <2>3. IsFiniteSet(S) /\ S \subseteq OfBlock(job, kblock)
    <3>1. \A u : IsFiniteSet(OfThread(job, kblock, u))
      BY OfFinite
    <3>2. QED
      BY <2>2, <3>1 DEF OfThread, OfBlock
  <2>4. \A x \in S : g[x] = f[x]
    BY <1>10, <2>3
  <2>5. Fold("sum", g, S) = Fold("sum", f, S)
    BY <2>3, <2>4, FoldAgree DEF Modes
  <2>6. lanes[t] = SumOf(g, S)
    BY <1>3, <1>5, <1>9, <2>1, <2>2
  <2>7. QED
    BY <2>2, <2>5, <2>6 DEF Fold
<1>12. PICK j, h, b : j = job /\ h = lanes /\ b = kblock
  OBVIOUS
<1> HIDE DEF lanes, second, here, exps
<1>13. /\ Launched(j) /\ 0 \in WarpsOf(j) /\ DOMAIN h = Lanes(0) /\ h = [t \in DOMAIN h |-> h[t]]
       /\ (\A t \in Lanes(0) : h[t] = Fold("sum", f, OfThread(j, b, t)))
       /\ \A i \in Elements(j) : f[i] \in Int
  BY <1>2, <1>6, <1>8, <1>11, <1>12
<1>14. WarpSum(h, 0) = SumOf(f, OfWarp(j, b, 0))
  BY <1>13, WarpTotals DEF Modes
<1>15. SumOf(f, OfBlock(job, kblock)) = SumOf(g, OfBlock(job, kblock))
  <2>1. PICK S : S = OfBlock(job, kblock)
    OBVIOUS
  <2>2. IsFiniteSet(S) /\ \A x \in S : g[x] = f[x]
    BY <1>10, <2>1, OfFinite
  <2>3. Fold("sum", g, S) = Fold("sum", f, S)
    BY <2>2, FoldAgree DEF Modes
  <2>4. QED
    BY <2>1, <2>3 DEF Fold
<1>16. WarpSum(lanes, 0) = SumOf(ExpsOf(job, kblock), OfBlock(job, kblock))
  BY <1>2, <1>9, <1>12, <1>14, <1>15
<1>17. SumCell(0) = 1
  BY <1>2 DEF SumCell
<1>18. SoftmaxSum(0, 2).shared = OneCell(1, SumOf(ExpsOf(job, kblock), OfBlock(job, kblock)))
  BY <1>1, <1>16, <1>17
<1>19. QED
  BY <1>3, <1>4, <1>18 DEF here

\* A fold over the only warp.
LEMMA OverOne ==
    ASSUME NEW f
    PROVE  /\ f[0] \in Int => SumOf(f, {0}) = f[0]
           /\ f[0] \in Vals("max") => MaxOf(f, {0}) = f[0]
<1>1. ASSUME f[0] \in Int PROVE SumOf(f, {0}) = f[0]
  <2>1. Fold("sum", f, {0}) = Join("sum", f[0], Unit("sum"))
    BY <1>1, FoldOne DEF Modes
  <2>2. QED
    BY <1>1, <2>1 DEF Fold, Join, Unit
<1>2. ASSUME f[0] \in Vals("max") PROVE MaxOf(f, {0}) = f[0]
  <2>1. f[0] \in Int /\ "max" \in Modes
    BY <1>2 DEF Vals, Modes
  <2>2. Fold("max", f, {0}) = Join("max", f[0], Unit("max"))
    BY <2>1, FoldOne
  <2>3. Join("max", f[0], Unit("max")) = f[0]
    BY <1>2, <2>1, JoinLaws
  <2>4. QED
    BY <2>2, <2>3 DEF Fold
<1>3. QED
  BY <1>1, <1>2

\* The softmax kernels on a block of one warp.
LEMMA SoftmaxStep ==
    ASSUME KernelInv, job.kernel \in Softmaxes, ~Overflows(job), NEW w, MayRun(w)
    PROVE  StepKept(w, Segment(w, kpc[w]))
<1>1. PICK wr, b, own, top, total : /\ wr = Segment(w, kpc[w]) /\ b = kblock /\ own = OutOf(job, kblock, w)
                                    /\ top = TopOf(job, kblock) /\ total = SumOf(ExpsOf(job, kblock), OfBlock(job, kblock))
  OBVIOUS
<1>2. /\ Launched(job) /\ w \in WarpsOf(job) /\ b \in 0 .. (job.grid - 1) /\ Warps = WarpsOf(job)
      /\ kpc[w] \in 0 .. 4 /\ Segments = 5 /\ DOMAIN kout = Elements(job)
      /\ \A v \in WarpsOf(job) : Advance(w)[v] = IF v = w THEN kpc[w] + 1 ELSE kpc[v]
  <2>1. Segments = 5
    BY SoftmaxWrites
  <2>2. QED
    BY <1>1, <2>1, MayRunIs DEF KernelInv, KernelTypes
<1>3. /\ WarpsOf(job) = {0} /\ w = 0 /\ job.dim \div Warp = 1 /\ OfWarp(job, b, 0) = OfBlock(job, b)
      /\ job.kernel \in RowKernels /\ Warps = {0}
  <2>1. WarpsOf(job) = {0} /\ job.dim \div Warp = 1 /\ OfWarp(job, b, 0) = OfBlock(job, b)
    BY <1>2, SingleWarp
  <2>2. QED
    BY <1>2, <2>1 DEF Softmaxes, RowKernels
<1>4. DOMAIN kshared = 0 .. 1 /\ SumCell(0) = 1
  <2>1. Cells(job.kernel, job.dim) = 2
    BY <1>3 DEF Cells, Softmaxes
  <2>2. QED
    BY <1>3, <2>1 DEF KernelInv, KernelTypes, SumCell
<1>5. /\ kpc[0] >= 1 => kshared[0] = top
      /\ kpc[0] >= 3 => kshared[1] = total
      /\ job.kernel = "softmax" /\ kpc[0] \in {3, 4} => \A i \in OfBlock(job, b) : kout[i] = <<ExpsOf(job, b)[i]>>
  BY <1>1 DEF KernelInv, SharedKept, SoftmaxKept, Softmaxes
<1>6. own = OfBlock(job, b) /\ Advance(w)[0] = kpc[0] + 1
  BY <1>1, <1>2, <1>3 DEF OutOf, Reductions, RowKernels
<1>7. top \in Vals("max") /\ top \in Int /\ total \in Int
  BY <1>1, <1>2, TopIs DEF Vals
<1>8. own \subseteq DOMAIN kout
  BY <1>1, <1>2, OutIn
<1>9. UNION {Columns(t) : t \in Lanes(w)} = own
  BY <1>1, <1>2, <1>3, <1>6, ColumnsOf
<1> DEFINE Holding(sh, out) ==
             /\ kpc[0] + 1 >= 1 => sh[0] = top
             /\ kpc[0] + 1 >= 3 => sh[1] = total
             /\ job.kernel = "softmax" /\ kpc[0] + 1 \in {3, 4} => \A i \in OfBlock(job, b) : out[i] = <<ExpsOf(job, b)[i]>>
<1>10. ASSUME Holding(Updated(kshared, wr.shared), Updated(kout, wr.out))
       PROVE  SharedKept(job, b, Advance(w), Updated(kshared, wr.shared), Updated(kout, wr.out))
  <2>1. SoftmaxKept(job, b, Advance(w), Updated(kshared, wr.shared), Updated(kout, wr.out))
    BY <1>1, <1>6, <1>10 DEF SoftmaxKept
  <2>2. QED
    BY <2>1 DEF SharedKept, Softmaxes
<1>11. CASE kpc[w] = 0
  <2>1. PICK f : f = [t \in Lanes(w) |-> MaxOf(job.in, Columns(t))]
    OBVIOUS
  <2>2. wr = ToShared(OneCell(w, WarpMax(f, w)))
    <3>1. wr = SoftmaxMax(w, 0)
      BY <1>1, <1>11, SoftmaxWrites
    <3>2. QED
      BY <2>1, <3>1 DEF SoftmaxMax
  <2>3. ASSUME NEW t \in Lanes(w) PROVE f[t] = Fold("max", job.in, OfThread(job, b, t))
    <3>1. Lanes(w) \subseteq 0 .. (job.dim - 1)
      BY <1>2, LanesAre
    <3>2. Columns(t) = OfThread(job, b, t)
      BY <1>1, <1>2, <1>3, <3>1, ColumnsOf
    <3>3. QED
      BY <2>1, <3>2 DEF Fold
  <2>4. \A i \in Elements(job) : job.in[i] \in Int
    BY <1>2, InputInts
  <2>5. DOMAIN f = Lanes(w) /\ f = [t \in DOMAIN f |-> f[t]]
    BY <2>1
  <2>6. PICK j, g : j = job /\ g = job.in
    OBVIOUS
  <2>7. WarpMax(f, w) = MaxOf(g, OfWarp(j, b, w))
    BY <1>2, <2>3, <2>4, <2>5, <2>6, WarpTotals DEF Modes
  <2>8. DOMAIN wr.shared = {0} /\ wr.shared[0] = top /\ wr.out = <<>>
    BY <1>1, <1>3, <2>2, <2>6, <2>7 DEF ToShared, OneCell, TopOf
  <2>9. Updated(kshared, wr.shared)[0] = top
    BY <1>4, <2>8, UpdatedIs
  <2>10. Holding(Updated(kshared, wr.shared), Updated(kout, wr.out))
    BY <1>3, <1>11, <2>9
  <2>11. DOMAIN wr.shared \subseteq DOMAIN kshared /\ DOMAIN wr.out \subseteq own /\ kpc[w] + 1 # Segments
    BY <1>2, <1>4, <1>11, <2>8
  <2>12. QED
    BY <1>1, <1>10, <2>10, <2>11 DEF StepKept
<1>12. CASE kpc[w] = 1
  <2>1. wr = ToShared(OneCell(0, MaxOf(kshared, {0})))
    <3>1. wr = SoftmaxMax(w, 1)
      BY <1>1, <1>12, SoftmaxWrites
    <3>2. QED
      BY <1>3, <3>1 DEF SoftmaxMax
  <2>2. MaxOf(kshared, {0}) = top
    BY <1>3, <1>5, <1>7, <1>12, OverOne
  <2>3. DOMAIN wr.shared = {0} /\ wr.shared[0] = top /\ wr.out = <<>>
    BY <2>1, <2>2 DEF ToShared, OneCell
  <2>4. Updated(kshared, wr.shared)[0] = top
    BY <1>4, <2>3, UpdatedIs
  <2>5. Holding(Updated(kshared, wr.shared), Updated(kout, wr.out))
    BY <1>3, <1>12, <2>4
  <2>6. DOMAIN wr.shared \subseteq DOMAIN kshared /\ DOMAIN wr.out \subseteq own /\ kpc[w] + 1 # Segments
    BY <1>2, <1>4, <1>12, <2>3
  <2>7. QED
    BY <1>1, <1>10, <2>5, <2>6 DEF StepKept
<1>13. CASE kpc[w] = 2
  <2>1. kshared[0] = top
    BY <1>3, <1>5, <1>13
  <2>2. /\ SoftmaxSum(0, 2).shared = OneCell(1, total)
        /\ \A i : RowExp(i) = Exp(job.in[i] - top)
    BY <1>1, <1>2, <2>1, SoftmaxTotal
  <2>3. wr.shared = OneCell(1, total)
    BY <1>1, <1>3, <1>13, <2>2, SoftmaxWrites
  <2>4. wr.out = IF job.kernel = "softmax" THEN [i \in own |-> <<RowExp(i)>>] ELSE <<>>
    BY <1>1, <1>9, <1>13, SoftmaxWrites, Zenon
  <2>5. DOMAIN wr.shared = {1} /\ wr.shared[1] = total
    BY <2>3 DEF OneCell
  <2>6. Updated(kshared, wr.shared)[0] = top /\ Updated(kshared, wr.shared)[1] = total
    BY <1>4, <2>1, <2>5, UpdatedIs
  <2>7. ASSUME job.kernel = "softmax", NEW i \in OfBlock(job, b) PROVE Updated(kout, wr.out)[i] = <<ExpsOf(job, b)[i]>>
    <3>1. wr.out = [x \in own |-> <<RowExp(x)>>]
      BY <2>4, <2>7
    <3>2. i \in DOMAIN wr.out /\ i \in DOMAIN kout /\ wr.out[i] = <<RowExp(i)>>
      BY <1>6, <1>8, <3>1
    <3>3. RowExp(i) = ExpsOf(job, b)[i]
      BY <1>1, <2>2 DEF ExpsOf
    <3>4. QED
      BY <3>2, <3>3, UpdatedIs
  <2>8. Holding(Updated(kshared, wr.shared), Updated(kout, wr.out))
    BY <2>6, <2>7
  <2>9. DOMAIN wr.shared \subseteq DOMAIN kshared /\ kpc[w] + 1 # Segments
    BY <1>2, <1>4, <1>13, <2>5
  <2>10. DOMAIN wr.out \subseteq own
    BY <2>4
  <2>11. QED
    BY <1>1, <1>10, <2>8, <2>9, <2>10 DEF StepKept
<1>14. CASE kpc[w] = 3
  <2>1. kshared[0] = top /\ kshared[1] = total
    BY <1>3, <1>5, <1>14
  <2>2. PICK f : f = [v \in {0} |-> Read(SumCell(v))]
    OBVIOUS
  <2>3. f[0] = total
    BY <1>4, <2>1, <2>2 DEF Read
  <2>4. SumOf(f, {0}) = total
    BY <1>7, <2>3, OverOne
  <2>5. SoftmaxSum(0, 3).shared = OneCell(1, total)
    <3>1. SoftmaxSum(0, 3) = ToShared(OneCell(SumCell(0), SumOf([v \in Warps |-> Read(SumCell(v))], Warps)))
      BY DEF SoftmaxSum
    <3>2. SoftmaxSum(0, 3) = ToShared(OneCell(1, total))
      BY <1>3, <1>4, <2>2, <2>4, <3>1
    <3>3. QED
      BY <3>2 DEF ToShared
  <2>6. wr.shared = OneCell(1, total) /\ wr.out = <<>>
    BY <1>1, <1>3, <1>14, <2>5, SoftmaxWrites, Zenon
  <2>7. DOMAIN wr.shared = {1} /\ wr.shared[1] = total
    BY <2>6 DEF OneCell
  <2>8. Updated(kshared, wr.shared)[0] = top /\ Updated(kshared, wr.shared)[1] = total
    BY <1>4, <2>1, <2>7, UpdatedIs
  <2>9. ASSUME job.kernel = "softmax", NEW i \in OfBlock(job, b) PROVE Updated(kout, wr.out)[i] = <<ExpsOf(job, b)[i]>>
    <3>1. kout[i] = <<ExpsOf(job, b)[i]>>
      BY <1>3, <1>5, <1>14, <2>9
    <3>2. i \in DOMAIN kout
      BY <1>6, <1>8
    <3>3. QED
      BY <2>6, <3>1, <3>2, UpdatedIs
  <2>10. Holding(Updated(kshared, wr.shared), Updated(kout, wr.out))
    BY <2>8, <2>9
  <2>11. DOMAIN wr.shared \subseteq DOMAIN kshared /\ DOMAIN wr.out \subseteq own /\ kpc[w] + 1 # Segments
    BY <1>2, <1>4, <1>14, <2>6, <2>7
  <2>12. QED
    BY <1>1, <1>10, <2>10, <2>11 DEF StepKept
<1>15. CASE kpc[w] = 4
  <2>1. kshared[0] = top /\ kshared[1] = total
    BY <1>3, <1>5, <1>15
  <2>2. wr = ToOut([i \in own |-> IF job.kernel = "softmax" THEN <<kout[i][1], kshared[SumCell(0)]>>
                                  ELSE <<job.in[i] - kshared[0], kshared[SumCell(0)]>>])
    BY <1>1, <1>9, <1>15, SoftmaxWrites
  <2>3. wr.shared = <<>> /\ DOMAIN wr.out = own
        /\ \A i \in own : wr.out[i] = IF job.kernel = "softmax" THEN <<kout[i][1], total>> ELSE <<job.in[i] - top, total>>
    BY <1>4, <2>1, <2>2 DEF ToOut
  <2>4. ASSUME NEW i \in own PROVE Updated(kout, wr.out)[i] = Target(job, b, i)
    <3>1. Updated(kout, wr.out)[i] = wr.out[i]
      BY <1>8, <2>3, UpdatedIs
    <3>2. CASE job.kernel = "softmax"
      <4>1. kout[i] = <<ExpsOf(job, b)[i]>>
        BY <1>3, <1>5, <1>6, <1>15, <3>2
      <4>2. kout[i][1] = ExpsOf(job, b)[i]
        BY <4>1
      <4>3. Target(job, b, i) = <<ExpsOf(job, b)[i], total>>
        BY <1>1, <3>2 DEF Target
      <4>4. QED
        BY <2>3, <3>1, <3>2, <4>2, <4>3
    <3>3. CASE job.kernel = "log_softmax"
      <4>1. Target(job, b, i) = <<job.in[i] - top, total>>
        BY <1>1, <3>3 DEF Target
      <4>2. QED
        BY <2>3, <3>1, <3>3, <4>1
    <3>4. QED
      BY <3>2, <3>3 DEF Softmaxes
  <2>5. Updated(kshared, wr.shared)[0] = top /\ Updated(kshared, wr.shared)[1] = total
    BY <1>4, <2>1, <2>3, UpdatedIs
  <2>6. Holding(Updated(kshared, wr.shared), Updated(kout, wr.out))
    BY <1>3, <1>15, <2>5
  <2>7. DOMAIN wr.shared \subseteq DOMAIN kshared /\ DOMAIN wr.out \subseteq own
    BY <2>3
  <2>8. QED
    BY <1>1, <1>10, <2>4, <2>6, <2>7 DEF StepKept
<1>16. QED
  BY <1>2, <1>11, <1>12, <1>13, <1>14, <1>15

-----------------------------------------------------------------------------
(* The steps of the kernels                                                *)

\* Any warp's next segment.
LEMMA SegmentStep ==
    ASSUME KernelInv, NEW w, MayRun(w)
    PROVE  StepKept(w, Segment(w, kpc[w]))
<1>1. job.kernel \in Kinds
  BY DEF KernelInv, KernelTypes, Launched
<1>2. CASE job.kernel \in Maps
  BY <1>2, MapStep
<1>3. CASE job.kernel \in {"sum", "bridge_sum"}
  BY <1>3, SumStep
<1>4. CASE job.kernel = "max"
  BY <1>4, MaxStep
<1>5. CASE job.kernel \in Softmaxes
  <2>1. CASE Overflows(job)
    BY <2>1, OverflowStep
  <2>2. CASE ~Overflows(job)
    BY <1>5, <2>2, SoftmaxStep
  <2>3. QED
    BY <2>1, <2>2
<1>6. CASE job.kernel = "rms_norm"
  BY <1>6, RmsStep
<1>7. CASE job.kernel = "layer_norm"
  BY <1>7, LayerStep
<1>8. QED
  BY <1>1, <1>2, <1>3, <1>4, <1>5, <1>6, <1>7 DEF Kinds, RowKernels, Maps, Softmaxes

\* A launch that leaves its memory has a second warp.
LEMMA OverflowWarps ==
    ASSUME NEW j, Launched(j), Overflows(j)
    PROVE  1 \in WarpsOf(j)
<1>1. PICK d, D : d = j.dim /\ D = d \div Warp
  OBVIOUS
<1>2. d \in Nat \ {0} /\ Warp \in Nat \ {0} /\ d % Warp = 0 /\ d > Warp
  BY <1>1, JobSize, KernelAssumption DEF Launched, Overflows
<1>3. Split(d, Warp, D, 0)
  BY <1>1, <1>2, SplitHas
<1>4. D \in Nat
  BY <1>1, <1>2, SplitNat
<1>5. D # 0 /\ D # 1
  BY <1>2, <1>3 DEF Split
<1>6. QED
  BY <1>1, <1>4, <1>5 DEF WarpsOf

LEMMA WarpKept ==
    ASSUME KernelInv, NEW w \in Warps, WarpStep(w)
    PROVE  KernelInv'
<1>1. PICK wr, k : wr = Segment(w, kpc[w]) /\ k = kpc[w]
  OBVIOUS
<1>2. /\ ~koutside /\ kblock < job.grid /\ kpc[w] < Segments /\ Barrier(w)
      /\ koutside' = ~(DOMAIN wr.shared \subseteq DOMAIN kshared)
      /\ kshared' = Updated(kshared, wr.shared) /\ kout' = Updated(kout, wr.out)
      /\ kpc' = Advance(w) /\ job' = job /\ kblock' = kblock
  BY <1>1 DEF WarpStep, Updated, Advance
<1>3. MayRun(w) /\ KernelTypes
  BY <1>2 DEF MayRun, KernelInv, KernelTypes, Warps
<1>4. StepKept(w, wr)
  BY <1>1, <1>3, SegmentStep
<1>5. /\ Launched(job) /\ w \in WarpsOf(job) /\ kblock \in 0 .. (job.grid - 1)
      /\ k \in Nat /\ k < Segments /\ Segments \in Nat
      /\ \A v \in WarpsOf(job) : kpc[v] \in {k, k + 1}
      /\ Advance(w) \in [WarpsOf(job) -> Nat]
      /\ \A v \in WarpsOf(job) : Advance(w)[v] = IF v = w THEN k + 1 ELSE kpc[v]
      /\ kpc \in [WarpsOf(job) -> 0 .. Segments] /\ DOMAIN kout = Elements(job)
  BY <1>1, <1>3, MayRunIs DEF KernelTypes
<1>6. Segments' = Segments
  BY <1>2 DEF Segments, Steps
<1>7. KernelTypes'
  <2>1. \A v \in WarpsOf(job) : kpc'[v] \in 0 .. Segments
    BY <1>2, <1>5
  <2>2. \A u, v \in WarpsOf(job) : kpc'[u] <= kpc'[v] + 1
    BY <1>2, <1>5
  <2>3. DOMAIN kshared' = DOMAIN kshared /\ DOMAIN kout' = DOMAIN kout
    BY <1>2 DEF Updated
  <2>4. koutside' => Overflows(job)
    BY <1>2, <1>4 DEF StepKept
  <2>5. kpc' \in [WarpsOf(job) -> 0 .. Segments]
    BY <1>2, <1>5, <2>1
  <2>6. kblock' \in 0 .. job.grid /\ kblock' # job.grid
    BY <1>2, <1>3, <1>5 DEF KernelTypes, Launched
  <2>7. QED
    BY <1>2, <1>3, <1>6, <2>2, <2>3, <2>4, <2>5, <2>6 DEF KernelTypes
<1>8. OutKept(job, kblock, kpc', kout', Segments)
  <2>1. OutKept(job, kblock, kpc, kout, Segments)
    BY DEF KernelInv
  <2>2. ASSUME NEW c \in 0 .. (job.grid - 1), NEW u \in WarpsOf(job), c # kblock \/ u # w,
               NEW i \in OutOf(job, c, u)
        PROVE  kout'[i] = kout[i]
    <3>1. i \in DOMAIN kout
      BY <1>5, OutIn
    <3>2. i \notin OutOf(job, kblock, w)
      BY <1>5, <2>2, OutApart
    <3>3. i \notin DOMAIN wr.out
      BY <1>4, <3>2 DEF StepKept
    <3>4. QED
      BY <1>2, <3>1, <3>3, UpdatedIs
  <2>3. ASSUME NEW c \in 0 .. (kblock - 1), NEW u \in WarpsOf(job), NEW i \in OutOf(job, c, u)
        PROVE  kout'[i] = Target(job, c, i)
    <3>1. c \in 0 .. (job.grid - 1) /\ c # kblock
      BY <1>3, <1>5 DEF KernelTypes, Launched
    <3>2. QED
      BY <2>1, <2>2, <3>1 DEF OutKept
  <2>4. ASSUME NEW u \in WarpsOf(job), kpc'[u] = Segments, NEW i \in OutOf(job, kblock, u)
        PROVE  kout'[i] = Target(job, kblock, i)
    <3>1. CASE u = w
      BY <1>1, <1>2, <1>4, <1>5, <2>4, <3>1 DEF StepKept
    <3>2. CASE u # w
      <4>1. kpc[u] = Segments
        BY <1>2, <1>5, <2>4, <3>2
      <4>2. QED
        BY <1>5, <2>1, <2>2, <3>2, <4>1 DEF OutKept
    <3>3. QED
      BY <3>1, <3>2
  <2>5. ASSUME job.kernel \in Maps, NEW c \in kblock .. (job.grid - 1), NEW u \in WarpsOf(job),
               c = kblock => kpc'[u] = 0, NEW i \in OutOf(job, c, u)
        PROVE  kout'[i] = <<>>
    <3>1. c # kblock \/ u # w
      BY <1>2, <1>5, <2>5
    <3>2. c = kblock => kpc[u] = 0
      BY <1>2, <1>5, <2>5, <3>1
    <3>3. kout[i] = <<>>
      BY <2>1, <2>5, <3>2 DEF OutKept
    <3>4. c \in 0 .. (job.grid - 1)
      BY <1>3, <1>5 DEF KernelTypes, Launched
    <3>5. QED
      BY <2>2, <3>1, <3>3, <3>4
  <2>6. QED
    BY <2>3, <2>4, <2>5 DEF OutKept
<1>9. SharedKept(job, kblock, kpc', kshared', kout')
  BY <1>2, <1>4 DEF StepKept
<1>10. OutsideKept(job, kpc', koutside')
  <2>1. ASSUME Overflows(job), ~koutside', NEW u \in WarpsOf(job), u # 0 PROVE kpc'[u] <= 2
    <3>1. kpc[u] <= 2
      BY <1>2, <2>1 DEF KernelInv, OutsideKept
    <3>2. CASE u # w
      BY <1>2, <1>5, <3>1, <3>2
    <3>3. CASE u = w
      <4>1. k # 2
        BY <1>1, <1>2, <1>3, <2>1, <3>3, OverflowStep
      <4>2. QED
        BY <1>1, <1>2, <1>5, <3>1, <3>3, <4>1
    <3>4. QED
      BY <3>2, <3>3
  <2>2. QED
    BY <2>1 DEF OutsideKept
<1>11. QED
  BY <1>2, <1>6, <1>7, <1>8, <1>9, <1>10 DEF KernelInv

LEMMA BlockKept ==
    ASSUME KernelInv, NextBlock
    PROVE  KernelInv'
<1>1. /\ ~koutside /\ kblock < job.grid /\ \A w \in Warps : kpc[w] = Segments
      /\ kblock' = kblock + 1 /\ kpc' = [w \in Warps |-> 0] /\ kshared' = Fresh(job.kernel, job.dim)
      /\ job' = job /\ kout' = kout /\ koutside' = koutside
  BY DEF NextBlock
<1>2. /\ Launched(job) /\ Warps = WarpsOf(job) /\ kblock \in Nat /\ job.grid \in Nat /\ DOMAIN kout = Elements(job)
      /\ kblock \in 0 .. (job.grid - 1)
  BY <1>1 DEF KernelInv, KernelTypes, Launched, Warps
<1>3. Segments' = Segments
  BY <1>1 DEF Segments, Steps
<1>4. Segments \in Nat /\ Segments # 0 /\ (job.kernel \in Softmaxes => Segments = 5)
  <2>1. job.dim \in Nat \ {0}
    BY <1>2, JobSize
  <2>2. Steps \in Nat
    BY <2>1, HalvingsEnd DEF Steps, Halved
  <2>3. QED
    BY <2>2 DEF Segments, Softmaxes
<1>5. 0 \in WarpsOf(job)
  <2>1. job.dim \div Warp \in Nat \ {0}
    BY <1>2, LanesAre
  <2>2. QED
    BY <2>1 DEF WarpsOf
<1>6. \A v \in WarpsOf(job) : kpc'[v] = 0
  BY <1>1, <1>2
<1>7. ~Overflows(job)
  <2>1. SUFFICES ASSUME Overflows(job) PROVE FALSE
    OBVIOUS
  <2>2. 1 \in WarpsOf(job)
    BY <1>2, <2>1, OverflowWarps
  <2>3. kpc[1] = 5
    BY <1>1, <1>2, <1>4, <2>1, <2>2 DEF Overflows, Softmaxes
  <2>4. kpc[1] <= 2
    BY <1>1, <2>1, <2>2 DEF KernelInv, OutsideKept
  <2>5. QED
    BY <2>3, <2>4
<1>8. KernelTypes'
  <2>1. kpc' \in [WarpsOf(job) -> 0 .. Segments]
    BY <1>1, <1>2, <1>4
  <2>2. \A v, w \in WarpsOf(job) : kpc'[v] <= kpc'[w] + 1
    BY <1>6
  <2>3. DOMAIN kshared' = 0 .. (Cells(job.kernel, job.dim) - 1)
    BY <1>1 DEF Fresh
  <2>4. kblock' \in 0 .. job.grid
    BY <1>1, <1>2
  <2>5. QED
    BY <1>1, <1>2, <1>3, <1>6, <2>1, <2>2, <2>3, <2>4 DEF KernelTypes
<1>9. OutKept(job, kblock', kpc', kout', Segments)
  <2>1. OutKept(job, kblock, kpc, kout, Segments)
    BY DEF KernelInv
  <2>2. ASSUME NEW c \in 0 .. (kblock' - 1), NEW u \in WarpsOf(job), NEW i \in OutOf(job, c, u)
        PROVE  kout'[i] = Target(job, c, i)
    <3>1. CASE c = kblock
      BY <1>1, <1>2, <2>1, <3>1 DEF OutKept
    <3>2. CASE c # kblock
      <4>1. c \in 0 .. (kblock - 1)
        BY <1>1, <1>2, <3>2
      <4>2. QED
        BY <1>1, <2>1, <4>1 DEF OutKept
    <3>3. QED
      BY <3>1, <3>2
  <2>3. \A u \in WarpsOf(job) : kpc'[u] # Segments
    BY <1>4, <1>6
  <2>4. ASSUME job.kernel \in Maps, NEW c \in kblock' .. (job.grid - 1), NEW u \in WarpsOf(job), NEW i \in OutOf(job, c, u)
        PROVE  kout'[i] = <<>>
    <3>1. c \in kblock .. (job.grid - 1) /\ c # kblock
      BY <1>1, <1>2
    <3>2. QED
      BY <1>1, <2>1, <2>4, <3>1 DEF OutKept
  <2>5. QED
    BY <2>2, <2>3, <2>4 DEF OutKept
<1>10. SharedKept(job, kblock', kpc', kshared', kout')
  <2>1. TreeKept(job, kblock', kpc', kshared') /\ MaxKept(job, kblock', kpc', kshared')
    BY <1>6 DEF TreeKept, MaxKept
  <2>2. RmsKept(job, kblock', kpc', kshared') /\ LayerKept(job, kblock', kpc', kshared')
    BY <1>5, <1>6 DEF RmsKept, LayerKept
  <2>3. SoftmaxKept(job, kblock', kpc', kshared', kout')
    BY <1>5, <1>6, <1>7 DEF SoftmaxKept
  <2>4. QED
    BY <2>1, <2>2, <2>3 DEF SharedKept
<1>11. OutsideKept(job, kpc', koutside')
  BY <1>7 DEF OutsideKept
<1>12. QED
  BY <1>1, <1>3, <1>8, <1>9, <1>10, <1>11 DEF KernelInv

LEMMA InitKept ==
    ASSUME KernelInit
    PROVE  KernelInv
<1>1. /\ kblock = 0 /\ kpc = [w \in WarpsOf(job) |-> 0] /\ kshared = Fresh(job.kernel, job.dim)
      /\ kout = [i \in DOMAIN job.in |-> <<>>] /\ ~koutside
  BY DEF KernelInit, WarpsOf
<1>2. Launched(job) /\ job.grid \in Nat \ {0} /\ DOMAIN job.in = Elements(job)
  BY JobIs DEF Launched
<1>3. Segments \in Nat /\ Segments # 0
  <2>1. job.dim \in Nat \ {0}
    BY <1>2, JobSize
  <2>2. Steps \in Nat
    BY <2>1, HalvingsEnd DEF Steps, Halved
  <2>3. QED
    BY <2>2 DEF Segments
<1>4. 0 \in WarpsOf(job)
  <2>1. job.dim \div Warp \in Nat \ {0}
    BY <1>2, LanesAre
  <2>2. QED
    BY <2>1 DEF WarpsOf
<1>5. \A v \in WarpsOf(job) : kpc[v] = 0
  BY <1>1
<1>6. KernelTypes
  <2>1. DOMAIN kshared = 0 .. (Cells(job.kernel, job.dim) - 1)
    BY <1>1 DEF Fresh
  <2>2. kpc \in [WarpsOf(job) -> 0 .. Segments]
    BY <1>1, <1>3
  <2>3. QED
    BY <1>1, <1>2, <1>5, <2>1, <2>2 DEF KernelTypes
<1>7. OutKept(job, kblock, kpc, kout, Segments)
  <2>1. \A c \in 0 .. (kblock - 1) : FALSE
    BY <1>1
  <2>2. \A u \in WarpsOf(job) : kpc[u] # Segments
    BY <1>3, <1>5
  <2>3. ASSUME NEW c \in kblock .. (job.grid - 1), NEW u \in WarpsOf(job), NEW i \in OutOf(job, c, u)
        PROVE  kout[i] = <<>>
    <3>1. c \in 0 .. (job.grid - 1)
      BY <1>1
    <3>2. i \in Elements(job)
      BY <1>2, <3>1, OutIn
    <3>3. QED
      BY <1>1, <1>2, <3>2
  <2>4. QED
    BY <2>1, <2>2, <2>3 DEF OutKept
<1>8. SharedKept(job, kblock, kpc, kshared, kout)
  <2>1. TreeKept(job, kblock, kpc, kshared) /\ MaxKept(job, kblock, kpc, kshared)
    BY <1>5 DEF TreeKept, MaxKept
  <2>2. RmsKept(job, kblock, kpc, kshared) /\ LayerKept(job, kblock, kpc, kshared)
    BY <1>4, <1>5 DEF RmsKept, LayerKept
  <2>3. SoftmaxKept(job, kblock, kpc, kshared, kout)
    BY <1>1, <1>4, <1>5 DEF SoftmaxKept
  <2>4. QED
    BY <2>1, <2>2, <2>3 DEF SharedKept
<1>9. OutsideKept(job, kpc, koutside)
  BY <1>5 DEF OutsideKept
<1>10. QED
  BY <1>6, <1>7, <1>8, <1>9 DEF KernelInv

LEMMA KernelIdle ==
    ASSUME KernelInv, UNCHANGED kernelVars
    PROVE  KernelInv'
<1>1. job' = job /\ kblock' = kblock /\ kpc' = kpc /\ kshared' = kshared /\ kout' = kout /\ koutside' = koutside
  BY DEF kernelVars
<1>2. Segments' = Segments
  BY <1>1 DEF Segments, Steps
<1>3. QED
  BY <1>1, <1>2 DEF KernelInv, KernelTypes

LEMMA KernelInvStep ==
    ASSUME part = "kernels" => KernelInv, [Next]_vars
    PROVE  (part = "kernels" => KernelInv)'
<1>1. part' = part
  BY DEF Next, RestOf, vars
<1>2. SUFFICES ASSUME part = "kernels" PROVE KernelInv'
  BY <1>1
<1>3. KernelNext \/ UNCHANGED kernelVars
  BY <1>2 DEF Next, RestOf, vars
<1>4. CASE UNCHANGED kernelVars
  BY <1>2, <1>4, KernelIdle
<1>5. CASE NextBlock
  BY <1>2, <1>5, BlockKept
<1>6. CASE \E w \in Warps : WarpStep(w)
  BY <1>2, <1>6, WarpKept
<1>7. QED
  BY <1>3, <1>4, <1>5, <1>6 DEF KernelNext

-----------------------------------------------------------------------------
(* What the kernels computed                                               *)

Spread(n, T, q, s, c) == n * n * q - 2 * n * T * s + T * T * c

Deviation(n, T, x) == (n * x - T) * (n * x - T)

Spreads(n, T, q, s, c, x, p) ==
    Deviation(n, T, x) + Spread(n, T, q, s, c) = Spread(n, T, p + q, x + s, c + 1)

LEMMA SpreadMore ==
    ASSUME NEW n \in Int, NEW T \in Int, NEW q \in Int, NEW s \in Int, NEW c \in Int, NEW x \in Int,
           NEW p \in Int, p = x * x
    PROVE  /\ Spreads(n, T, q, s, c, x, p)
           /\ Deviation(n, T, x) \in Int
BY DEF Deviation, Spread, Spreads

LEMMA SpreadIs ==
    ASSUME NEW S, IsFiniteSet(S), NEW n \in Int, NEW T \in Int,
           NEW f, \A x \in S : f[x] \in Int,
           NEW sq, \A x \in S : sq[x] = f[x] * f[x],
           NEW g, \A x \in S : g[x] = Deviation(n, T, f[x])
    PROVE  SumOf(g, S) = Spread(n, T, SumOf(sq, S), SumOf(f, S), Cardinality(S))
<1> DEFINE B == {U \in SUBSET S : SumOf(g, U) = Spread(n, T, SumOf(sq, U), SumOf(f, U), Cardinality(U))}
<1>1. \A x \in S : sq[x] \in Int /\ g[x] \in Int
  <2>1. ASSUME NEW x \in S PROVE sq[x] \in Int /\ g[x] \in Int
    <3>1. PICK y : y = f[x]
      OBVIOUS
    <3>2. y \in Int /\ y * y \in Int
      BY <3>1
    <3>3. Deviation(n, T, y) \in Int
      BY <3>2, SpreadMore
    <3>4. QED
      BY <3>1, <3>2, <3>3
  <2>2. QED
    BY <2>1
<1>2. {} \in B
  <2>1. SumOf(g, {}) = 0 /\ SumOf(sq, {}) = 0 /\ SumOf(f, {}) = 0
    <3>1. Fold("sum", g, {}) = 0 /\ Fold("sum", sq, {}) = 0 /\ Fold("sum", f, {}) = 0
      BY FoldEmpty DEF Modes, Unit
    <3>2. QED
      BY <3>1 DEF Fold
  <2>2. Cardinality({}) = 0
    BY FS_EmptySet
  <2>3. Spread(n, T, 0, 0, 0) = 0
    BY DEF Spread
  <2>4. QED
    BY <2>1, <2>2, <2>3
<1>3. ASSUME NEW U \in SUBSET S, NEW x \in S, U \in B, x \notin U PROVE U \cup {x} \in B
  <2>1. IsFiniteSet(U) /\ U \subseteq S
    BY FS_Subset
  <2>2. PICK a, p, q, s, c, t : a = f[x] /\ p = sq[x] /\ q = SumOf(sq, U) /\ s = SumOf(f, U) /\ c = Cardinality(U) /\ t = SumOf(g, U)
    OBVIOUS
  <2>3. a \in Int /\ c \in Int /\ p = a * a /\ p \in Int /\ g[x] = Deviation(n, T, a)
    BY <1>1, <2>1, <2>2, FS_CardinalityType
  <2>4. Fold("sum", sq, U) \in Int /\ Fold("sum", f, U) \in Int
    BY <1>1, <2>1, FoldVal DEF Modes
  <2>5. q \in Int /\ s \in Int
    BY <2>2, <2>4 DEF Fold
  <2>6. /\ SumOf(sq, U \cup {x}) = p + q
        /\ SumOf(f, U \cup {x}) = a + s
        /\ SumOf(g, U \cup {x}) = Deviation(n, T, a) + t
    <3>1. Fold("sum", sq, U \cup {x}) = Join("sum", sq[x], Fold("sum", sq, U))
      BY <1>1, <1>3, <2>1, FoldMore DEF Modes
    <3>2. Fold("sum", f, U \cup {x}) = Join("sum", f[x], Fold("sum", f, U))
      BY <1>1, <1>3, <2>1, FoldMore DEF Modes
    <3>3. Fold("sum", g, U \cup {x}) = Join("sum", g[x], Fold("sum", g, U))
      BY <1>1, <1>3, <2>1, FoldMore DEF Modes
    <3>4. QED
      BY <2>2, <2>3, <3>1, <3>2, <3>3 DEF Fold, Join
  <2>7. Cardinality(U \cup {x}) = c + 1
    BY <1>3, <2>1, <2>2, FS_AddElement
  <2>8. t = Spread(n, T, q, s, c)
    BY <1>3, <2>2
  <2>9. Deviation(n, T, a) + Spread(n, T, q, s, c) = Spread(n, T, p + q, a + s, c + 1)
    <3>1. Spreads(n, T, q, s, c, a, p)
      BY <2>3, <2>5, SpreadMore
    <3>2. QED
      BY <3>1 DEF Spreads
  <2>10. QED
    BY <2>6, <2>7, <2>8, <2>9
<1> HIDE DEF B
<1>4. S \in B
  BY <1>2, <1>3, SetInduct
<1>5. QED
  BY <1>4 DEF B

VarianceIs(n, q, s) == Spread(n, s, q, s, n) \div n = n * q - s * s

LEMMA SpreadDiv ==
    ASSUME NEW n \in Nat \ {0}, NEW q \in Int, NEW s \in Int
    PROVE  VarianceIs(n, q, s)
<1>1. PICK v : v = n * q - s * s
  OBVIOUS
<1>2. v \in Int
  BY <1>1
<1>3. Spread(n, s, q, s, n) = v * n
  BY <1>1 DEF Spread
<1>4. Split(Spread(n, s, q, s, n), n, v, 0)
  BY <1>2, <1>3 DEF Split
<1>5. Spread(n, s, q, s, n) \div n = v
  BY <1>4, SplitIs
<1>6. QED
  BY <1>1, <1>5 DEF VarianceIs

\* A row is the elements of its block.
LEMMA RowIs ==
    ASSUME Launched(job), job.kernel \in RowKernels, NEW i \in Elements(job)
    PROVE  /\ RowOf(i) = OfBlock(job, BlockAt(job, i)) /\ BlockAt(job, i) = i \div job.n
           /\ Cardinality(RowOf(i)) = job.n
<1>1. PICK n, G, q : n = job.n /\ G = job.grid /\ q = i \div n
  OBVIOUS
<1>2. n \in Nat \ {0} /\ G \in Nat \ {0} /\ Size(job) = G * n /\ BlockAt(job, i) = q
  BY <1>1, JobSize DEF Launched, BlockAt, RowKernels
<1>3. q \in 0 .. (G - 1)
  <2>1. job.kernel # "bridge_sum"
    BY DEF RowKernels
  <2>2. QED
    BY <1>1, <1>2, <2>1, BlockIn
<1>4. q \in Int /\ q \in Nat /\ q * n \in Nat
  BY <1>2, <1>3
<1>5. ASSUME NEW c \in 0 .. (n - 1) PROVE q * n + c \in OfBlock(job, q)
  <2>1. PICK x : x = q * n + c
    OBVIOUS
  <2>2. x \in Nat /\ Split(x, n, q, c)
    BY <1>2, <1>4, <2>1 DEF Split
  <2>3. x \div n = q
    BY <1>2, <2>2, SplitIs
  <2>4. Below(x, n, q, G)
    BY <1>2, <2>2, SplitBelow
  <2>5. G * n \in Int
    BY <1>2
  <2>6. x < G * n
    BY <1>2, <1>3, <2>4 DEF Below
  <2>7. x \in Elements(job)
    BY <1>2, <2>2, <2>5, <2>6 DEF Elements
  <2>8. BlockAt(job, x) = q
    BY <1>1, <2>3 DEF BlockAt, RowKernels
  <2>9. QED
    BY <2>1, <2>7, <2>8 DEF OfBlock
<1>6. ASSUME NEW x \in OfBlock(job, q) PROVE \E c \in 0 .. (n - 1) : x = q * n + c
  <2>1. x \in Elements(job) /\ x \div n = q
    BY <1>1 DEF OfBlock, BlockAt, RowKernels
  <2>2. x \in Int
    BY <2>1 DEF Elements
  <2>3. PICK r : r = x % n
    OBVIOUS
  <2>4. Split(x, n, x \div n, r)
    BY <1>2, <2>2, <2>3, SplitHas
  <2>5. r \in 0 .. (n - 1) /\ x = q * n + r
    BY <2>1, <2>4 DEF Split
  <2>6. QED
    BY <2>5
<1>7. RowOf(i) = {q * n + c : c \in 0 .. (n - 1)}
  BY <1>1 DEF RowOf
<1>8. RowOf(i) = OfBlock(job, q)
  BY <1>5, <1>6, <1>7
<1>9. RowOf(i) = (q * n) .. (q * n + n - 1)
  <2>1. \A y \in (q * n) .. (q * n + n - 1) : y - q * n \in 0 .. (n - 1) /\ y = q * n + (y - q * n)
    BY <1>2, <1>4
  <2>2. \A c \in 0 .. (n - 1) : q * n + c \in (q * n) .. (q * n + n - 1)
    BY <1>2, <1>4
  <2>3. QED
    BY <1>7, <2>1, <2>2
<1>10. Cardinality(RowOf(i)) = n
  <2>1. PICK a, z : a = q * n /\ z = a + n - 1
    OBVIOUS
  <2>2. a \in Int /\ z \in Int /\ a <= z /\ z - a + 1 = n
    BY <1>2, <1>4, <2>1
  <2>3. Cardinality(a .. z) = IF a > z THEN 0 ELSE z - a + 1
    BY <2>2, FS_Interval
  <2>4. QED
    BY <1>2, <1>9, <2>1, <2>2, <2>3
<1>11. QED
  BY <1>1, <1>2, <1>8, <1>10

\* At the end every cell a warp writes holds its target.
LEMMA AllWritten ==
    ASSUME KernelInv, kblock = job.grid
    PROVE  \A c \in 0 .. (job.grid - 1), w \in WarpsOf(job) : \A i \in OutOf(job, c, w) : kout[i] = Target(job, c, i)
BY DEF KernelInv, OutKept

\* sum_kernel and max_kernel: the partial results of the blocks make up the whole.
LEMMA PartialsAre ==
    ASSUME KernelInv, kblock = job.grid, job.kernel \in {"sum", "max"}, NEW m \in Modes, m # "prod", job.kernel = m,
           NEW h, \A b \in 0 .. (job.grid - 1) : h[b] = Partial(b)
    PROVE  Fold(m, h, 0 .. (job.grid - 1)) = Fold(m, job.in, Elements(job))
<1>1. Launched(job)
  BY DEF KernelInv, KernelTypes
<1>2. ASSUME NEW b \in 0 .. (job.grid - 1) PROVE h[b] = Fold(m, job.in, OfBlock(job, b))
  <2>1. 0 \in WarpsOf(job)
    <3>1. job.dim \div Warp \in Nat \ {0}
      BY <1>1, LanesAre
    <3>2. QED
      BY <3>1 DEF WarpsOf
  <2>2. b \in OutOf(job, b, 0)
    BY DEF OutOf, Reductions
  <2>3. kout[b] = Target(job, b, b)
    BY <2>1, <2>2, AllWritten
  <2>4. Target(job, b, b) = <<Fold(m, job.in, OfBlock(job, b))>>
    BY DEF Target, Fold, Modes
  <2>5. QED
    BY <2>3, <2>4 DEF Partial
<1>3. PICK j, x : j = job /\ x = job.in
  OBVIOUS
<1>4. \A i \in Elements(j) : x[i] \in Int
  BY <1>1, <1>3, InputInts
<1>5. \A b \in 0 .. (j.grid - 1) : h[b] = Fold(m, x, OfBlock(j, b))
  BY <1>2, <1>3
<1>6. j.kernel # "bridge_sum" /\ Launched(j)
  BY <1>1, <1>3
<1>7. Fold(m, h, 0 .. (j.grid - 1)) = Fold(m, x, Elements(j))
  BY <1>4, <1>5, <1>6, BlockParts, Zenon
<1>8. QED
  BY <1>3, <1>7

\* The bridge's sum_kernel: the first block of elements.
LEMMA BridgeIs ==
    ASSUME KernelInv, kblock = job.grid, job.kernel = "bridge_sum"
    PROVE  Partial(0) = SumOf(job.in, 0 .. (AtMost(job.n, job.dim) - 1))
<1>1. Launched(job) /\ job.grid = 1
  BY DEF KernelInv, KernelTypes, Launched
<1>2. 0 \in WarpsOf(job)
  <2>1. job.dim \div Warp \in Nat \ {0}
    BY <1>1, LanesAre
  <2>2. QED
    BY <2>1 DEF WarpsOf
<1>3. 0 \in OutOf(job, 0, 0)
  BY DEF OutOf, Reductions
<1>4. kout[0] = <<SumOf(job.in, OfBlock(job, 0))>>
  <2>1. kout[0] = Target(job, 0, 0)
    BY <1>1, <1>2, <1>3, AllWritten
  <2>2. QED
    BY <2>1 DEF Target
<1>5. OfBlock(job, 0) = 0 .. (AtMost(job.n, job.dim) - 1)
  <2>1. PICK d, n : d = job.dim /\ n = job.n
    OBVIOUS
  <2>2. d \in Nat \ {0} /\ n \in Nat \ {0} /\ Elements(job) = 0 .. (n - 1)
    BY <1>1, <2>1, JobSize DEF Launched, Elements, RowKernels
  <2>3. ASSUME NEW i \in Elements(job) PROVE BlockAt(job, i) = 0 <=> i < d
    <3>1. i \in Nat /\ i \in Int
      BY <2>2
    <3>2. PICK q, r : q = i \div d /\ r = i % d
      OBVIOUS
    <3>3. Split(i, d, q, r)
      BY <2>2, <3>1, <3>2, SplitHas
    <3>4. Below(i, d, q, 1)
      BY <2>2, <3>3, SplitBelow
    <3>5. q \in Nat
      BY <2>2, <3>1, <3>2, SplitNat
    <3>6. BlockAt(job, i) = q
      BY <2>1, <3>2 DEF BlockAt, RowKernels
    <3>7. QED
      BY <2>2, <3>4, <3>5, <3>6 DEF Below
  <2>4. QED
    BY <2>1, <2>2, <2>3 DEF OfBlock, AtMost
<1>6. QED
  BY <1>4, <1>5 DEF Partial

\* The row-wise and elementwise kernels: what a cell should hold is its target.
LEMMA TargetIs ==
    ASSUME Launched(job), job.kernel \notin Reductions, NEW i \in Elements(job)
    PROVE  Expected(i) = Target(job, BlockAt(job, i), i)
<1>1. CASE job.kernel \in Maps
  BY <1>1 DEF Expected, Target, Maps
<1>2. CASE job.kernel \in RowKernels
  <2>1. PICK b, row, f, n, T, sq : /\ b = BlockAt(job, i) /\ row = RowOf(i) /\ f = job.in /\ n = job.n
                                   /\ T = SumOf(job.in, RowOf(i)) /\ sq = SquaresOf(job)
    OBVIOUS
  <2>2. row = OfBlock(job, b) /\ Cardinality(row) = n /\ n \in Nat \ {0}
    BY <1>2, <2>1, RowIs DEF Launched
  <2>3. row \subseteq Elements(job) /\ IsFiniteSet(row)
    <3>1. \A c : IsFiniteSet(OfBlock(job, c))
      BY OfFinite
    <3>2. QED
      BY <2>2, <3>1 DEF OfBlock
  <2>4. \A x \in row : f[x] \in Int /\ sq[x] \in Int /\ sq[x] = f[x] * f[x]
    BY <2>1, <2>3, InputInts DEF SquaresOf
  <2>5. Squares = sq
    BY <2>1, SquaresAre
  <2>6. CASE job.kernel = "rms_norm"
    <3>1. Expected(i) = <<f[i], SumOf(sq, row)>>
      BY <2>1, <2>5, <2>6 DEF Expected
    <3>2. Target(job, b, i) = <<f[i], SumOf(sq, row)>>
      BY <2>1, <2>2, <2>6 DEF Target
    <3>3. QED
      BY <2>1, <3>1, <3>2
  <2>7. CASE job.kernel \in Softmaxes
    <3>1. PICK top : top = MaxOf(f, row)
      OBVIOUS
    <3>2. PICK g : g = [j \in row |-> Exp(f[j] - top)]
      OBVIOUS
    <3>3. TopOf(job, b) = top /\ ExpsOf(job, b) = g
      BY <2>1, <2>2, <3>1, <3>2 DEF TopOf, ExpsOf
    <3>4. i \in row
      BY <2>1, <2>2 DEF OfBlock
    <3>5. CASE job.kernel = "softmax"
      <4>1. Expected(i) = <<Exp(f[i] - top), SumOf(g, row)>>
        BY <2>1, <3>1, <3>2, <3>5 DEF Expected
      <4>2. Target(job, b, i) = <<g[i], SumOf(g, row)>>
        BY <2>1, <2>2, <3>3, <3>5 DEF Target
      <4>3. QED
        BY <2>1, <3>2, <3>4, <4>1, <4>2
    <3>6. CASE job.kernel = "log_softmax"
      <4>1. Expected(i) = <<f[i] - top, SumOf(g, row)>>
        BY <2>1, <3>1, <3>2, <3>6 DEF Expected
      <4>2. Target(job, b, i) = <<f[i] - top, SumOf(g, row)>>
        BY <2>1, <2>2, <3>3, <3>6 DEF Target
      <4>3. QED
        BY <2>1, <4>1, <4>2
    <3>7. QED
      BY <2>7, <3>5, <3>6 DEF Softmaxes
  <2>8. CASE job.kernel = "layer_norm"
    <3>1. PICK g, q : g = [j \in row |-> (n * f[j] - T) * (n * f[j] - T)] /\ q = SumOf(sq, row)
      OBVIOUS
    <3>2. Expected(i) = <<n * f[i] - T, SumOf(g, row) \div n>>
      BY <2>1, <2>8, <3>1 DEF Expected
    <3>3. q \in Int /\ T \in Int /\ T = SumOf(f, row)
      <4>1. Fold("sum", sq, row) \in Int /\ Fold("sum", f, row) \in Int
        BY <2>3, <2>4, FoldVal DEF Modes
      <4>2. QED
        BY <2>1, <3>1, <4>1 DEF Fold
    <3>4. \A x \in row : g[x] = Deviation(n, T, f[x])
      BY <3>1 DEF Deviation
    <3>5. n \in Int
      BY <2>2
    <3>6. SumOf(g, row) = Spread(n, T, q, T, n)
      <4>1. SumOf(g, row) = Spread(n, T, SumOf(sq, row), SumOf(f, row), Cardinality(row))
        <5>1. \A x \in row : f[x] \in Int
          BY <2>4
        <5>2. \A x \in row : sq[x] = f[x] * f[x]
          BY <2>4
        <5>3. QED
          BY <2>3, <3>3, <3>4, <3>5, <5>1, <5>2, SpreadIs
      <4>2. QED
        BY <2>2, <3>1, <3>3, <4>1
    <3>7. VarianceIs(n, q, T)
      BY <2>2, <3>3, SpreadDiv
    <3>8. Target(job, b, i) = <<n * f[i] - T, n * q - T * T>>
      BY <2>1, <2>2, <2>8, <3>1, <3>3 DEF Target, VarianceOf
    <3>9. SumOf(g, row) \div n = n * q - T * T
      BY <3>6, <3>7 DEF VarianceIs
    <3>10. QED
      BY <2>1, <3>2, <3>8, <3>9
  <2>9. QED
    BY <1>2, <2>6, <2>7, <2>8 DEF RowKernels, Softmaxes
<1>3. QED
  BY <1>1, <1>2 DEF Launched, Kinds, Reductions, Maps

LEMMA CellsSound ==
    ASSUME KernelInv, kblock = job.grid, job.kernel \notin Reductions, NEW i \in Elements(job)
    PROVE  kout[i] = Expected(i)
<1>1. Launched(job)
  BY DEF KernelInv, KernelTypes
<1>2. PICK b, t, w : b = BlockAt(job, i) /\ t = ThreadAt(job, i) /\ w = t \div Warp
  OBVIOUS
<1>3. b \in 0 .. (job.grid - 1)
  BY <1>1, <1>2, BlockIn DEF Reductions
<1>4. t \in 0 .. (job.dim - 1)
  BY <1>1, <1>2, ThreadIn
<1>5. w \in WarpsOf(job) /\ t \in Lanes(w)
  BY <1>1, <1>2, <1>4, LanesAre
<1>6. i \in OutOf(job, b, w)
  BY <1>2, <1>5 DEF OutOf, OfWarp
<1>7. kout[i] = Target(job, b, i)
  BY <1>3, <1>5, <1>6, AllWritten
<1>8. QED
  BY <1>1, <1>2, <1>7, TargetIs

LEMMA KernelSound ==
    ASSUME KernelInv
    PROVE  KernelsCompute
<1>1. Launched(job) /\ DOMAIN job.in = Elements(job)
  BY DEF KernelInv, KernelTypes, Launched
<1>2. koutside => job.kernel \in {"softmax", "log_softmax"} /\ job.dim > Warp
  BY DEF KernelInv, KernelTypes, Overflows
<1>3. ASSUME kblock = job.grid
      PROVE  LET all == DOMAIN job.in
                 blocks == 0 .. (job.grid - 1) IN
             CASE job.kernel = "sum" -> SumOf([b \in blocks |-> Partial(b)], blocks) = SumOf(job.in, all)
               [] job.kernel = "max" -> MaxOf([b \in blocks |-> Partial(b)], blocks) = MaxOf(job.in, all)
               [] job.kernel = "bridge_sum" -> Partial(0) = SumOf(job.in, 0 .. (AtMost(job.n, job.dim) - 1))
               [] OTHER -> \A i \in all : kout[i] = Expected(i)
  <2>1. PICK h : h = [b \in 0 .. (job.grid - 1) |-> Partial(b)]
    OBVIOUS
  <2>2. \A b \in 0 .. (job.grid - 1) : h[b] = Partial(b)
    BY <2>1
  <2>3. ASSUME job.kernel = "sum"
        PROVE  SumOf([b \in 0 .. (job.grid - 1) |-> Partial(b)], 0 .. (job.grid - 1)) = SumOf(job.in, DOMAIN job.in)
    <3>1. PICK m \in Modes : m = job.kernel
      BY <2>3 DEF Modes
    <3>2. Fold(m, h, 0 .. (job.grid - 1)) = Fold(m, job.in, Elements(job))
      BY <1>3, <2>2, <2>3, <3>1, PartialsAre
    <3>3. QED
      BY <1>1, <2>1, <2>3, <3>1, <3>2 DEF Fold
  <2>4. ASSUME job.kernel = "max"
        PROVE  MaxOf([b \in 0 .. (job.grid - 1) |-> Partial(b)], 0 .. (job.grid - 1)) = MaxOf(job.in, DOMAIN job.in)
    <3>1. PICK m \in Modes : m = job.kernel
      BY <2>4 DEF Modes
    <3>2. Fold(m, h, 0 .. (job.grid - 1)) = Fold(m, job.in, Elements(job))
      BY <1>3, <2>2, <2>4, <3>1, PartialsAre
    <3>3. QED
      BY <1>1, <2>1, <2>4, <3>1, <3>2 DEF Fold
  <2>5. ASSUME job.kernel = "bridge_sum"
        PROVE  Partial(0) = SumOf(job.in, 0 .. (AtMost(job.n, job.dim) - 1))
    BY <1>3, <2>5, BridgeIs
  <2>6. ASSUME job.kernel \notin Reductions PROVE \A i \in DOMAIN job.in : kout[i] = Expected(i)
    BY <1>1, <1>3, <2>6, CellsSound
  <2>7. QED
    BY <2>3, <2>4, <2>5, <2>6 DEF Reductions
<1>4. QED
  BY <1>2, <1>3 DEF KernelsCompute

\* The kernels, for any block size that is a power of two and a multiple of the
\* warp, any grid and length and every input of Inputs, in whatever order the warps run:
\* between its barriers no warp loses what another wrote, so the block reductions
\* and the row-wise kernels end with the sums and maxima of exactly the elements
\* they are given, the elementwise kernels write each element once, and only the
\* softmax launches of two warps or more write past their shared memory.
THEOREM WorkKernelsKept == Spec => []KernelsKept
<1>1. Init => (part = "kernels" => KernelInv)
  BY InitKept DEF Init
<1>2. (part = "kernels" => KernelInv) => KernelsKept
  BY KernelSound DEF KernelsKept
<1>3. QED
  BY <1>1, <1>2, KernelInvStep, PTL DEF Spec
=============================================================================
