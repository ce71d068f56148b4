----------------------------- MODULE TaskGraphs -----------------------------
(***************************************************************************)
(* TaskGraph (scheduler/task_graph): its edit operations and the queries   *)
(* that GraphExecutor and clients rely on.  Edges are kept twice, in       *)
(* edges_ and rev_edges_; an id without an entry there has no edges, but   *)
(* an entry of edges_ may be empty, which is_valid can tell from none.     *)
(* SCI_ASSERT ends the process in a debug build and is empty in a release, *)
(* where an edge may lead from or to an id that is no task.                *)
(***************************************************************************)
EXTENDS Integers, Sequences, FiniteSets, SequencesExt

CONSTANTS TaskIds,
          MaxEdges     \* bound: edges in the graph

ASSUME TaskAssumption == IsFiniteSet(TaskIds)

VARIABLES asserts,     \* the build checks SCI_ASSERT
          tasks,       \* the ids of tasks_
          edges,       \* edges_
          keys,        \* the ids with an entry in edges_
          revEdges     \* rev_edges_

tgVars == <<asserts, tasks, edges, keys, revEdges>>

NoEdges == [id \in TaskIds |-> <<>>]

GraphInit ==
  /\ asserts \in BOOLEAN
  /\ tasks = {} /\ edges = NoEdges /\ keys = {} /\ revEdges = NoEdges

\* erase(remove(...)): the others, in their order.
Erased(seq, id) ==
  FoldLeft(LAMBDA kept, x : IF x = id THEN kept ELSE Append(kept, x), <<>>, seq)

NumEdges == MapThenSumSet(LAMBDA id : Len(edges[id]), TaskIds)

-----------------------------------------------------------------------------
AddTask(id) ==
  /\ id \notin tasks
  /\ tasks' = tasks \cup {id}
  /\ UNCHANGED <<asserts, edges, keys, revEdges>>

\* Mutant: remove_task leaves its id in the rev_edges_ of the others.
RemoveForward(id) ==
  /\ id \in tasks
  /\ tasks' = tasks \ {id}
  /\ edges' = [f \in TaskIds |-> IF f = id THEN <<>> ELSE Erased(edges[f], id)]
  /\ keys' = keys \ {id}
  /\ revEdges' = [revEdges EXCEPT ![id] = <<>>]
  /\ UNCHANGED asserts

\* remove_task; the entries that its edges were in stay, empty or not.
RemoveTask(id) ==
  /\ id \in tasks \cup keys \/ revEdges[id] # <<>>
  /\ tasks' = tasks \ {id}
  /\ keys' = keys \ {id}
  /\ edges' = [f \in TaskIds |-> IF f = id THEN <<>> ELSE Erased(edges[f], id)]
  /\ revEdges' = [t \in TaskIds |-> IF t = id THEN <<>> ELSE Erased(revEdges[t], id)]
  /\ UNCHANGED asserts

\* add_edge; nothing stops a second edge between two tasks, or a cycle.
AddEdge(from, to) ==
  /\ asserts => from \in tasks /\ to \in tasks
  /\ NumEdges < MaxEdges
  /\ edges' = [edges EXCEPT ![from] = Append(@, to)]
  /\ keys' = keys \cup {from}
  /\ revEdges' = [revEdges EXCEPT ![to] = Append(@, from)]
  /\ UNCHANGED <<asserts, tasks>>

\* add_edges of two targets.
AddEdges(from, t1, t2) ==
  /\ asserts => {from, t1, t2} \subseteq tasks
  /\ NumEdges + 1 < MaxEdges
  /\ edges' = [edges EXCEPT ![from] = @ \o <<t1, t2>>]
  /\ keys' = keys \cup {from}
  /\ revEdges' = IF t1 = t2 THEN [revEdges EXCEPT ![t1] = @ \o <<from, from>>]
                 ELSE [revEdges EXCEPT ![t1] = Append(@, from), ![t2] = Append(@, from)]
  /\ UNCHANGED <<asserts, tasks>>

ClearGraph ==
  /\ tasks' = {} /\ edges' = NoEdges /\ keys' = {} /\ revEdges' = NoEdges
  /\ UNCHANGED asserts

GraphNext ==
  \/ ClearGraph
  \/ \E a, b \in TaskIds : AddEdge(a, b) \/ \E c \in TaskIds : AddEdges(a, b, c)
  \/ \E a \in TaskIds : AddTask(a) \/ RemoveTask(a)

GraphSpec == GraphInit /\ [][GraphNext]_tgVars

-----------------------------------------------------------------------------
(* Queries                                                                 *)

\* visited, in_stack, result and whether every call returned true so far.
Marks == [ok : BOOLEAN, visited : SUBSET TaskIds, stack : SUBSET TaskIds, result : Seq(TaskIds)]

\* The dfs of topological_sort, from each task.
Dfs[id \in TaskIds] == [st \in Marks |->
  IF id \in st.stack THEN [st EXCEPT !.ok = FALSE]
  ELSE IF id \in st.visited THEN st
  ELSE LET inner == FoldLeft(LAMBDA s, dep : IF s.ok THEN Dfs[dep][s] ELSE s,
                             [st EXCEPT !.visited = @ \cup {id}, !.stack = @ \cup {id}],
                             edges[id]) IN
       IF inner.ok THEN [inner EXCEPT !.stack = @ \ {id}, !.result = Append(@, id)] ELSE inner]

\* The loop over tasks_ in the order the map happens to have; dfs returns at once
\* from an id that was visited.
Walk(order) ==
  FoldLeft(LAMBDA s, id : IF s.ok THEN Dfs[id][s] ELSE s,
           [ok |-> TRUE, visited |-> {}, stack |-> {}, result |-> <<>>], order)

TopologicalSort(order) == IF Walk(order).ok THEN Reverse(Walk(order).result) ELSE <<>>

\* is_dag repeats that walk without the result.
IsDag(order) == Walk(order).ok

IsValid(order) ==
  /\ IsDag(order)
  /\ \A from \in keys : from \in tasks /\ ToSet(edges[from]) \subseteq tasks

\* depends_on: its queue starts with the dependencies of a.
DependsOn(a, b) ==
  LET search[queue \in Seq(TaskIds)] == [visited \in SUBSET TaskIds |->
        IF queue = <<>> THEN FALSE
        ELSE IF Head(queue) = b THEN TRUE
        ELSE IF Head(queue) \in visited THEN search[Tail(queue)][visited]
        ELSE search[Tail(queue) \o revEdges[Head(queue)]][visited \cup {Head(queue)}]] IN
  search[revEdges[a]][{}]

-----------------------------------------------------------------------------
\* b is reached from a: it is in every set that has what follows a, and what
\* follows each of its own.
Path(a, b) ==
  \A S \in SUBSET TaskIds :
    ToSet(edges[a]) \subseteq S /\ (\A x \in S : ToSet(edges[x]) \subseteq S) => b \in S

Count(seq, x) == Cardinality({i \in DOMAIN seq : seq[i] = x})

\* An edge from or to an id that is no task.
Dangling == \E f \in TaskIds : edges[f] # <<>> /\ ({f} \cup ToSet(edges[f])) \ tasks # {}

\* The two edge maps describe one graph, and a build with asserts has no edge, and
\* no entry of edges_, without its tasks.
EdgesAgree ==
  /\ \A f, t \in TaskIds : Count(edges[f], t) = Count(revEdges[t], f)
  /\ asserts => ~Dangling /\ keys \subseteq tasks

\* After any edits the edge maps are sound; is_dag is right about cycles;
\* topological_sort answers, in whatever order the map is walked, with every task
\* once and each before what depends on it, or with nothing when there is a
\* cycle; depends_on is reachability; and is_valid passes only graphs without a
\* cycle and without an edge that dangles.  It passes all of those in a build with
\* asserts; a release refuses the ones where an id that is no task was given edges
\* and keeps an entry in edges_, if only an empty one.
GraphConsistent ==
  LET seen == tasks \cup {b \in TaskIds : \E a \in tasks : Path(a, b)}  \* all that a walk gets to
      cyclic == \E id \in seen : Path(id, id) IN
  /\ EdgesAgree
  /\ \A a, b \in TaskIds : DependsOn(a, b) <=> Path(b, a)
  /\ \A order \in SetToSeqs(tasks) :
       LET sorted == TopologicalSort(order) IN
       /\ IsDag(order) <=> ~cyclic
       /\ IsValid(order) => ~cyclic /\ ~Dangling
       /\ ~cyclic /\ ~Dangling => IsValid(order) \/ keys \ tasks # {}
       /\ ToSet(sorted) = (IF cyclic THEN {} ELSE seen)
       /\ \A i, j \in DOMAIN sorted : Path(sorted[i], sorted[j]) => i < j
       /\ Len(sorted) = Cardinality(ToSet(sorted))
=============================================================================
