---------------------------- MODULE DagScheduler ----------------------------
(***************************************************************************)
(* The searches of runtime/domain/graph as the code performs them: a       *)
(* depth-first search with a trail, a queue with indegrees, a loop that    *)
(* peels off layers.  PlanGraph says what they compute without a search,   *)
(* and is what RuntimeExecutor and its proofs use; SearchesAgree is the    *)
(* claim that the two are the same.                                        *)
(***************************************************************************)
EXTENDS RuntimeExecutor, FiniteSets, Functions

CONSTANT Order   \* the node ids, in the order localeCompare gives them

ASSUME OrderAssumption == Order \in Seq(Node) /\ IsInjective(Order) /\ Range(Order) = Node

\* The head of toStableUniqueStrings(S).
First(S) == Order[CHOOSE i \in DOMAIN Order : Order[i] \in S /\ \A j \in 1 .. i - 1 : Order[j] \notin S]

\* GraphNode.downstream of buildDagDependencyGraph.
Downstream(edges, n) == {m \in DOMAIN edges : n \in edges[m]}

Arcs(edges) == {a \in (DOMAIN edges) \X (DOMAIN edges) : a[2] \in edges[a[1]]}

-----------------------------------------------------------------------------
(* detectCycle.  `visited` is shared by the whole search; the trail is     *)
(* that of the calls of `visit` that have not returned; `left` are the     *)
(* dependencies their loops, and `roots` the nodes the outer loop, have    *)
(* yet to visit.                                                           *)

\* Slip: every node seen before is taken for one on the trail.
VisitSeen(s, n) ==
  IF n \in s.visited \cup Range(s.trail) THEN [s EXCEPT !.cycle = Append(s.trail, n)]
  ELSE [s EXCEPT !.trail = Append(@, n)]

\* A call of visit.
Visit(s, n) ==
  IF n \in s.visited THEN s
  ELSE IF n \in Range(s.trail)
    THEN LET active == CHOOSE i \in DOMAIN s.trail : s.trail[i] = n
         IN  [s EXCEPT !.cycle = Append(SubSeq(s.trail, active, Len(s.trail)), n)]
  ELSE [s EXCEPT !.trail = Append(@, n)]

\* Its return without a cycle.
Return(s, n) ==
  [s EXCEPT !.visited = @ \cup {n}, !.trail = SubSeq(@, 1, Len(@) - 1)]

\* The next turn of the loop that is running.
Turn(s) ==
  IF s.cycle # << >> THEN s
  ELSE IF s.trail = << >> THEN
    IF s.roots = {} THEN s
    ELSE Visit([s EXCEPT !.roots = @ \ {First(s.roots)}], First(s.roots))
  ELSE LET n == s.trail[Len(s.trail)]
           next == First(s.left[n])
       IN  IF s.left[n] = {} THEN Return(s, n)
           ELSE Visit([s EXCEPT !.left[n] = @ \ {next}], next)

\* The path of a cycle, or <<>>.  Every node is a root once and returned from once,
\* and every arc is looked at once.
DetectCycle(edges) ==
  LET nodes == DOMAIN edges
      turns == 2 * Cardinality(nodes) + Cardinality(Arcs(edges))
      after[k \in 0 .. turns] ==
        IF k = 0 THEN [visited |-> {}, trail |-> << >>, left |-> edges, roots |-> nodes, cycle |-> << >>]
        ELSE Turn(after[k - 1])
  IN  after[turns].cycle

-----------------------------------------------------------------------------
(* topoSort and resolveExecutionOrder, on an edge map without cycles.      *)

\* The ready node that sorts first goes next.
Shift(edges, s) ==
  IF s.ready = {} THEN s
  ELSE LET current == First(s.ready)
           freed == Downstream(edges, current)
           indegree == [n \in DOMAIN edges |-> s.indegree[n] - (IF n \in freed THEN 1 ELSE 0)]
       IN  [ordered |-> Append(s.ordered, current),
            indegree |-> indegree,
            ready |-> (s.ready \ {current}) \cup {n \in freed : indegree[n] = 0}]

TopoSort(edges) ==
  LET indegree == [n \in DOMAIN edges |-> Cardinality(edges[n])]
      after[k \in 0 .. Cardinality(DOMAIN edges)] ==
        IF k = 0 THEN [ordered |-> << >>, indegree |-> indegree,
                       ready |-> {n \in DOMAIN edges : indegree[n] = 0}]
        ELSE Shift(edges, after[k - 1])
  IN  after[Cardinality(DOMAIN edges)].ordered

\* The layers, up to the round without one: all nodes are resolved, or the error is
\* "Unable to resolve DAG execution order".
Layers(edges) ==
  LET after[k \in 0 .. Cardinality(DOMAIN edges)] ==
        IF k = 0 THEN << >>
        ELSE LET next == NextLayer(edges, UNION Range(after[k - 1]))
             IN  IF next = {} THEN after[k - 1] ELSE Append(after[k - 1], next)
  IN  after[Cardinality(DOMAIN edges)]

-----------------------------------------------------------------------------
\* The search finds a cycle exactly in the graphs that have one, and what it reports
\* is a walk along dependencies that ends where it began; without a cycle, the sort
\* holds every node once and after its dependencies, and the layers are those
\* RuntimeExecutor starts one by one.
SearchesAgree(edges) ==
  LET path == DetectCycle(edges)
      order == TopoSort(edges)
      layers == Layers(edges)
  IN  /\ path # << >> <=> HasCycle(edges)
      /\ path # << >> =>
           /\ path[1] = path[Len(path)] /\ Len(path) > 1
           /\ \A i \in 1 .. Len(path) - 1 : path[i + 1] \in edges[path[i]]
      /\ path = << >> =>
           /\ IsInjective(order) /\ Range(order) = DOMAIN edges
           /\ \A i, j \in DOMAIN order : order[j] \in edges[order[i]] => j < i
           /\ \A i \in DOMAIN layers :
                layers[i] = NextLayer(edges, UNION {layers[k] : k \in 1 .. i - 1})
           /\ UNION Range(layers) = DOMAIN edges

\* What PlanGraph says of a plan's graph is what the searches of the code compute on
\* every graph that reaches the scheduler: cyclic or not, cut down to a submit list's
\* needs and chained.
ScheduleIsComputed == phase = "scheduling" => SearchesAgree(dag)
=============================================================================
