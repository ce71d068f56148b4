------------------------------- MODULE MCWork -------------------------------
(***************************************************************************)
(* The components that schedule and compute, checked side by side like     *)
(* those of MCResources: they share no state, and the components that a    *)
(* behaviour is not about are not there.                                   *)
(***************************************************************************)
EXTENDS LegacyPool, GpuScheduler, TaskGraphs, Operators

VARIABLE part

ShapesUsed == {<<3>>, <<2, 2>>, <<2, 1, 2>>}

ValuesUsed == {-2, 0, 1}

NoLegacy ==
  /\ ltasks = <<>> /\ lmade = <<>> /\ lstop = <<>> /\ lpause = <<>> /\ lactive = <<>>
  /\ lqueued = <<>> /\ lcompleted = <<>> /\ lmtx = <<>> /\ wpc = <<>> /\ wtask = <<>>
  /\ cpc = <<>> /\ lran = <<>> /\ llate = <<>> /\ lgap = <<>>

NoSched ==
  /\ gqueue = <<>> /\ grunning = <<>> /\ gcurrent = <<>> /\ gstreams = <<>> /\ gcreated = <<>>
  /\ gopen = <<>> /\ gworker = <<>> /\ gtask = <<>> /\ gcontrol = <<>> /\ gmade = <<>>
  /\ gdone = <<>> /\ gtorn = <<>> /\ glate = <<>> /\ gend = <<>>

NoGraph ==
  asserts = <<>> /\ tasks = <<>> /\ edges = <<>> /\ keys = <<>> /\ revEdges = <<>>

NoKernel ==
  /\ job = <<>> /\ kblock = <<>> /\ kpc = <<>> /\ kshared = <<>> /\ kout = <<>> /\ koutside = <<>>

NoOp == shape = <<>> /\ mem = <<>> /\ before = <<>> /\ call = <<>> /\ answer = <<>>

Init ==
  /\ part \in {"legacy pool", "gpu scheduler", "task graph", "kernels", "operators"}
  /\ IF part = "legacy pool" THEN LegacyInit ELSE NoLegacy
  /\ IF part = "gpu scheduler" THEN SchedInit ELSE NoSched
  /\ IF part = "task graph" THEN GraphInit ELSE NoGraph
  /\ IF part = "kernels" THEN KernelInit ELSE NoKernel
  /\ IF part = "operators" THEN OpInit ELSE NoOp

RestOf(name, others) == part = name /\ UNCHANGED <<part, others>>

Next ==
  \/ RestOf("legacy pool", <<schedVars, tgVars, kernelVars, opVars>>) /\ LegacyNext
  \/ RestOf("gpu scheduler", <<legacyVars, tgVars, kernelVars, opVars>>) /\ SchedNext
  \/ RestOf("task graph", <<legacyVars, schedVars, kernelVars, opVars>>) /\ GraphNext
  \/ RestOf("kernels", <<legacyVars, schedVars, tgVars, opVars>>) /\ KernelNext
  \/ RestOf("operators", <<legacyVars, schedVars, tgVars, kernelVars>>) /\ OpNext

vars == <<part, legacyVars, schedVars, tgVars, kernelVars, opVars>>

Spec == Init /\ [][Next]_vars

-----------------------------------------------------------------------------
\* LegacyThreadPool: what WaitAll leaves, the counters, and what a Shutdown leaves
\* (LegacySound of LegacyPool).
LegacyKept == part = "legacy pool" => LegacySound

\* GpuScheduler: order across shutdowns, late tasks and streams (SchedulerOrder of GpuScheduler).
OrderKept == part = "gpu scheduler" => SchedulerOrder

\* TaskGraph: the two edge maps and every query, after any edits (GraphConsistent
\* of TaskGraphs).
GraphKept == part = "task graph" => GraphConsistent

\* The CUDA kernels' results and shared memory, whatever order the warps run in
\* (KernelsCompute of Kernels).
KernelsKept == part = "kernels" => KernelsCompute

\* The math operators, fill, views and GEMM against what they mean (MeetsReference
\* of Operators).
OperatorsKept == part = "operators" => MeetsReference
=============================================================================
