---------------------------- MODULE GpuScheduler ----------------------------
(***************************************************************************)
(* GpuScheduler (gpu/gpu_scheduler): a deque of tasks, the worker thread   *)
(* that polls it, the streams, and shutdown, which destroys streams before *)
(* it joins the worker.  One client thread controls the scheduler, another *)
(* submits.  A task is the number of its submission and carries the stream *)
(* that was current then.  A CUDA error ends the process.                  *)
(***************************************************************************)
EXTENDS Integers, Sequences, FiniteSets, SequencesExt

CONSTANTS Handles,     \* bound: streams that are ever created, 1, 2, ...
          MaxSubmits   \* bound: tasks ever submitted

VARIABLES gqueue,      \* task_queue_
          grunning,    \* running_
          gcurrent,    \* current_stream_, 0 for null
          gstreams,    \* streams_
          gcreated,    \* streams created so far
          gopen,       \* streams not destroyed
          gworker,     \* the worker thread: "none", "poll", "pop", "execute", "ended"
          gtask,       \* the task it executes, or NoTask
          gcontrol,    \* where the controlling client is in shutdown, or "idle"
          gmade,       \* tasks submitted so far
          gdone,       \* history: the tasks executed, in order
          gtorn,       \* history: streams_ held a stream that was destroyed already
          glate,       \* history: tasks taken since running_ was cleared
          gend         \* the process has ended

schedVars == <<gqueue, grunning, gcurrent, gstreams, gcreated, gopen, gworker, gtask, gcontrol,
               gmade, gdone, gtorn, glate, gend>>

NoTask == [nr |-> 0, stream |-> 0]

SchedInit ==
  /\ gqueue = <<>> /\ grunning = FALSE
  /\ gcurrent = 0 /\ gstreams = {} /\ gcreated = 0 /\ gopen = {}
  /\ gworker = "none" /\ gtask = NoTask /\ gcontrol = "idle"
  /\ gmade = 0 /\ gdone = <<>> /\ gtorn = FALSE /\ glate = 0 /\ gend = FALSE

Ends == gend' = TRUE /\ UNCHANGED <<gqueue, grunning, gcurrent, gstreams, gcreated, gopen, gworker,
                                    gtask, gcontrol, gmade, gdone, gtorn, glate>>

NewStream == gcreated + 1

\* initialize: a stream that streams_ does not know, and the worker.  A worker
\* that was not joined is a joinable std::thread: assigning to it ends the process,
\* and so does a CUDA call that fails.
Initialize ==
  /\ ~gend /\ gcontrol = "idle" /\ NewStream \in Handles
  /\ \/ Ends
     \/ /\ gworker = "none"
        /\ gcurrent' = NewStream
        /\ gcreated' = NewStream
        /\ gopen' = gopen \cup {NewStream}
        /\ grunning' = TRUE
        /\ gworker' = "poll"
        /\ glate' = 0
        /\ UNCHANGED <<gqueue, gstreams, gtask, gcontrol, gmade, gdone, gtorn, gend>>

Submit ==
  /\ ~gend /\ gmade < MaxSubmits
  /\ gmade' = gmade + 1
  /\ gqueue' = Append(gqueue, [nr |-> gmade + 1, stream |-> gcurrent])
  /\ UNCHANGED <<grunning, gcurrent, gstreams, gcreated, gopen, gworker, gtask, gcontrol,
                 gdone, gtorn, glate, gend>>

\* cudaStreamSynchronize waits for the device and not for the deque; it fails on
\* a stream that was destroyed, and for an error of the device.
Synchronize ==
  /\ ~gend /\ gcontrol = "idle"
  /\ gcurrent # 0 /\ Ends

CreateStream ==
  /\ ~gend /\ gcontrol = "idle" /\ NewStream \in Handles
  /\ \/ Ends
     \/ /\ gcreated' = NewStream
        /\ gopen' = gopen \cup {NewStream}
        /\ gstreams' = gstreams \cup {NewStream}
        /\ UNCHANGED <<gqueue, grunning, gcurrent, gworker, gtask, gcontrol, gmade, gdone,
                       gtorn, glate, gend>>

\* The client destroys a stream it knows to be open; current_stream_ may be it.
DestroyStream ==
  \E s \in gopen :
    /\ ~gend /\ gcontrol = "idle"
    /\ gopen' = gopen \ {s}
    /\ gstreams' = gstreams \ {s}
    /\ UNCHANGED <<gqueue, grunning, gcurrent, gcreated, gworker, gtask, gcontrol, gmade,
                   gdone, gtorn, glate, gend>>

SetStream ==
  \E s \in gopen \cup {0} :
    /\ ~gend /\ gcontrol = "idle" /\ s # gcurrent
    /\ gcurrent' = s
    /\ UNCHANGED <<gqueue, grunning, gstreams, gcreated, gopen, gworker, gtask, gcontrol,
                   gmade, gdone, gtorn, glate, gend>>

\* shutdown, the calls of its body in their order.  current_stream_ stays, and what
\* is queued, or submitted later, stays for the next initialize, but for the task
\* that a worker which has read running_ already may yet take.
ShutdownBegin ==
  /\ ~gend /\ gcontrol = "idle" /\ grunning
  /\ grunning' = FALSE
  /\ gcontrol' = "synchronize"
  /\ UNCHANGED <<gqueue, gcurrent, gstreams, gcreated, gopen, gworker, gtask, gmade, gdone,
                 gtorn, glate, gend>>

ShutdownSynchronize ==
  /\ ~gend /\ gcontrol = "synchronize"
  /\ \/ gcurrent # 0 /\ Ends
     \/ /\ gcurrent \in gopen \cup {0}
        /\ gcontrol' = "destroy"
        /\ UNCHANGED <<gqueue, grunning, gcurrent, gstreams, gcreated, gopen, gworker,
                       gtask, gmade, gdone, gtorn, glate, gend>>

ShutdownDestroy ==
  /\ ~gend /\ gcontrol = "destroy"
  /\ gopen' = gopen \ gstreams
  /\ gtorn' = (gtorn \/ ~(gstreams \subseteq gopen))
  /\ gstreams' = {}
  /\ gcontrol' = "join"
  /\ UNCHANGED <<gqueue, grunning, gcurrent, gcreated, gworker, gtask, gmade, gdone, glate,
                 gend>>

\* Mutant: shutdown returns without the join.
ShutdownDetach ==
  /\ ~gend /\ gcontrol = "join"
  /\ gworker' = "none"
  /\ gcontrol' = "idle"
  /\ UNCHANGED <<gqueue, grunning, gcurrent, gstreams, gcreated, gopen, gtask, gmade, gdone,
                 gtorn, glate, gend>>

ShutdownJoin ==
  /\ ~gend /\ gcontrol = "join" /\ gworker = "ended"
  /\ gworker' = "none"
  /\ gcontrol' = "idle"
  /\ UNCHANGED <<gqueue, grunning, gcurrent, gstreams, gcreated, gopen, gtask, gmade, gdone,
                 gtorn, glate, gend>>

\* The worker's loop reads running_, a plain bool, without a lock.
PollRunning ==
  /\ ~gend /\ gworker = "poll"
  /\ gworker' = IF grunning THEN "pop" ELSE "ended"
  /\ UNCHANGED <<gqueue, grunning, gcurrent, gstreams, gcreated, gopen, gtask, gcontrol, gmade, gdone,
                 gtorn, glate, gend>>

\* process_queue up to the end of its lock, whatever running_ is by then.
PollPop ==
  /\ ~gend /\ gworker = "pop"
  /\ \/ gqueue = <<>> /\ gworker' = "poll" /\ UNCHANGED <<gqueue, gtask, glate>>
     \/ /\ gqueue # <<>>
        /\ gtask' = Head(gqueue)
        /\ gqueue' = Tail(gqueue)
        /\ gworker' = "execute"
        /\ glate' = IF grunning THEN glate ELSE glate + 1
  /\ UNCHANGED <<grunning, gcurrent, gstreams, gcreated, gopen, gcontrol, gmade, gdone,
                 gtorn, gend>>

\* execute: copies and GEMM fail or not with the device; a kernel is given the
\* stream of its submission, open or not.
Execute ==
  /\ ~gend /\ gworker = "execute"
  /\ \/ /\ gdone' = Append(gdone, gtask.nr)
        /\ gtask' = NoTask
        /\ gworker' = "poll"
        /\ UNCHANGED <<gqueue, grunning, gcurrent, gstreams, gcreated, gopen, gcontrol,
                       gmade, gtorn, glate, gend>>
     \/ Ends

SchedNext ==
  \/ Initialize \/ Submit \/ Synchronize \/ CreateStream \/ DestroyStream \/ SetStream
  \/ ShutdownBegin \/ ShutdownSynchronize \/ ShutdownDestroy \/ ShutdownJoin
  \/ PollRunning \/ PollPop \/ Execute

SchedSpec == SchedInit /\ [][SchedNext]_schedVars

-----------------------------------------------------------------------------
\* Tasks run once each and in the order of submission, across shutdowns that
\* leave some queued and initialisations that find them; once running_ is cleared
\* the worker takes at most one task more, though it reads running_ and takes a task
\* in two steps; when shutdown has returned no task runs; and shutdown never destroys
\* a stream a second time.
\* (That a task's stream is open when it runs does not hold: shutdown destroys
\* the streams before it joins.)
SchedulerOrder ==
  /\ gdone \o (IF gtask = NoTask THEN <<>> ELSE <<gtask.nr>>)
       \o [i \in DOMAIN gqueue |-> gqueue[i].nr] = [i \in 1..gmade |-> i]
  /\ glate <= 1
  /\ ~grunning /\ gcontrol = "idle" => gtask = NoTask
  /\ ~gtorn
=============================================================================
