----------------------------- MODULE PlanGraph -----------------------------
(***************************************************************************)
(* The graph computations of runtime/application/executor and              *)
(* runtime/domain/graph.  An edge map is a function from node ids to the   *)
(* set of node ids each of them depends on, as in ExecutionPlan.edges; the *)
(* order of a dependency list and its duplicates are normalised away by    *)
(* the code itself (toStableUniqueStrings).                                *)
(*                                                                         *)
(* The code walks the graph with a queue or a recursion.  Here each walk   *)
(* is the set it computes, written without recursion so that theorems      *)
(* about it hold for graphs of every size.                                 *)
(***************************************************************************)

\* S contains the dependencies of each of its members.
ClosedUnder(edges, S) ==
  \A n \in S \cap DOMAIN edges : edges[n] \subseteq S

\* Slip: the closure forgets its seeds and keeps every node of the view.
WholeView(edges, seeds) == DOMAIN edges

\* collectDependencyClosure: everything the queue reaches from the seeds, i.e.
\* the least closed set that holds them.
DependencyClosure(edges, seeds) ==
  {n \in DOMAIN edges :
     \A S \in SUBSET DOMAIN edges :
       seeds \subseteq S /\ ClosedUnder(edges, S) => n \in S}

\* hasPath(edges, from, to), true of a node and itself.
HasPath(edges, from, to) == to \in DependencyClosure(edges, {from})

\* filterEdges: the edge map of the nodes a submit needs.
FilterEdges(edges, allowed) == [n \in allowed |-> edges[n] \cap allowed]

\* Slip: the search runs the other way, so a list that contradicts the dependencies
\* is left unchained instead of being refused as a cycle.
ChainEdgeReversed(edges, current, previous) ==
  IF previous \in edges[current] \/ HasPath(edges, previous, current)
    THEN edges
    ELSE [edges EXCEPT ![current] = @ \cup {previous}]

\* One iteration of addSequentialSubmitEdges: `current` waits for `previous`
\* unless it already does.
ChainEdge(edges, current, previous) ==
  IF previous \in edges[current] \/ HasPath(edges, current, previous)
    THEN edges
    ELSE [edges EXCEPT ![current] = @ \cup {previous}]

\* Slip: a node that reads its own result is not seen as a cycle.
HasCycleOfTwo(edges) ==
  \E S \in SUBSET DOMAIN edges :
    S # {} /\ \A n \in S : (edges[n] \ {n}) \cap S # {}

\* detectCycle: the depth-first search meets its own trail exactly when some set
\* of nodes has no member free of dependencies inside it.
HasCycle(edges) ==
  \E S \in SUBSET DOMAIN edges :
    S # {} /\ \A n \in S : edges[n] \cap S # {}

\* Slip: `some` in place of `every`.
NextLayerAny(edges, resolved) ==
  {n \in DOMAIN edges \ resolved :
     edges[n] = {} \/ edges[n] \cap resolved # {}}

\* One iteration of resolveExecutionOrder: the next layer of the schedule.
NextLayer(edges, resolved) ==
  {n \in DOMAIN edges \ resolved : edges[n] \subseteq resolved}
=============================================================================
