-------------------------- MODULE MCGraphExecutor --------------------------
(***************************************************************************)
(* GraphExecutor on graphs of three tasks: the join of the integration     *)
(* test, a task independent of a chain, and a cycle, which is_valid        *)
(* refuses.                                                                *)
(***************************************************************************)
EXTENDS GraphExecutor

MCTasks == 1 .. 3

MCGraphs == { {<<1, 3>>, <<2, 3>>},
              {<<1, 2>>},
              {<<1, 2>>, <<2, 1>>} }
=============================================================================
