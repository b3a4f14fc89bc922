------------------------ MODULE RuntimeExecutorProofs ------------------------
(***************************************************************************)
(* Theorems about RuntimeExecutor, for every set of nodes, every graph and *)
(* every submit list, and about the searches of DagScheduler.              *)
(***************************************************************************)
EXTENDS DagScheduler, WellFoundedInduction, FiniteSetTheorems, TLAPS

-----------------------------------------------------------------------------
(* The graph computations.                                                 *)

Graph(edges) == edges \in [DOMAIN edges -> SUBSET DOMAIN edges]

\* The closure is a set of nodes that holds its seeds and everything its members
\* depend on.
LEMMA ClosureIsClosed ==
  ASSUME NEW edges, Graph(edges), NEW seeds \in SUBSET DOMAIN edges
  PROVE  LET C == DependencyClosure(edges, seeds)
         IN  seeds \subseteq C /\ C \subseteq DOMAIN edges /\ ClosedUnder(edges, C)
BY DEF Graph, DependencyClosure, ClosedUnder

\* It is the least such set.
LEMMA ClosureIsLeast ==
  ASSUME NEW edges, NEW seeds, NEW S \in SUBSET DOMAIN edges,
         seeds \subseteq S, ClosedUnder(edges, S)
  PROVE  DependencyClosure(edges, seeds) \subseteq S
BY DEF DependencyClosure

\* Every node of the closure is a seed or read by another node of the closure.
LEMMA ClosureIsNeeded ==
  ASSUME NEW edges, Graph(edges), NEW seeds \in SUBSET DOMAIN edges,
         NEW n \in DependencyClosure(edges, seeds), n \notin seeds
  PROVE  \E k \in DependencyClosure(edges, seeds) \ {n} : n \in edges[k]
<1> DEFINE C == DependencyClosure(edges, seeds)
<1>1. SUFFICES ASSUME \A k \in C \ {n} : n \notin edges[k] PROVE FALSE
  OBVIOUS
<1>2. seeds \subseteq C /\ C \subseteq DOMAIN edges /\ ClosedUnder(edges, C)
  BY ClosureIsClosed
<1>3. ClosedUnder(edges, C \ {n})
  BY <1>1, <1>2 DEF ClosedUnder
<1>4. C \subseteq C \ {n}
  <2>1. C \ {n} \in SUBSET DOMAIN edges /\ seeds \subseteq C \ {n}
    BY <1>2
  <2> QED BY <2>1, <1>3, ClosureIsLeast
<1> QED BY <1>4

\* What a path means to a closed set: it holds the end if it holds the start.
LEMMA PathInClosedSet ==
  ASSUME NEW edges, NEW from, NEW to, NEW S \in SUBSET DOMAIN edges,
         from \in S, ClosedUnder(edges, S), HasPath(edges, from, to)
  PROVE  to \in S
BY ClosureIsLeast DEF HasPath

\* Paths compose.
LEMMA PathTransitive ==
  ASSUME NEW edges, Graph(edges), NEW x \in DOMAIN edges, NEW y, NEW z,
         HasPath(edges, x, y), HasPath(edges, y, z)
  PROVE  HasPath(edges, x, z)
<1> DEFINE C == DependencyClosure(edges, {x})
<1>1. C \subseteq DOMAIN edges /\ ClosedUnder(edges, C) /\ y \in C
  <2>1. {x} \in SUBSET DOMAIN edges
    OBVIOUS
  <2> QED BY <2>1, ClosureIsClosed DEF HasPath
<1>2. z \in C
  BY <1>1, PathInClosedSet
<1> QED BY <1>2 DEF HasPath

\* Adding edges keeps paths.
LEMMA PathMonotone ==
  ASSUME NEW edges, NEW more, DOMAIN more = DOMAIN edges,
         \A n \in DOMAIN edges : edges[n] \subseteq more[n],
         NEW x, NEW y, HasPath(edges, x, y)
  PROVE  HasPath(more, x, y)
BY DEF HasPath, DependencyClosure, ClosedUnder

\* One chained submit node: the graph keeps its nodes and its edges, and the node
\* now reaches the one before it.
LEMMA ChainEdgeAddsPath ==
  ASSUME NEW edges, Graph(edges), NEW x \in DOMAIN edges, NEW y \in DOMAIN edges
  PROVE  LET new == ChainEdge(edges, x, y)
         IN  /\ Graph(new)
             /\ DOMAIN new = DOMAIN edges
             /\ \A n \in DOMAIN edges : edges[n] \subseteq new[n]
             /\ HasPath(new, x, y)
<1> DEFINE new == ChainEdge(edges, x, y)
<1>1. Graph(new) /\ DOMAIN new = DOMAIN edges
      /\ \A n \in DOMAIN edges : edges[n] \subseteq new[n]
  BY DEF ChainEdge, Graph
<1>2. y \in new[x] \/ HasPath(new, x, y)
  BY DEF ChainEdge, Graph
<1>3. ASSUME y \in new[x] PROVE HasPath(new, x, y)
  BY <1>1, <1>3 DEF HasPath, DependencyClosure, ClosedUnder
<1> QED BY <1>1, <1>2, <1>3

\* resolveExecutionOrder never gives up on a graph detectCycle accepts: as long as
\* a node is unresolved the next layer is not empty, and it is made of unresolved
\* nodes whose dependencies are all resolved.
THEOREM LayerExists ==
  ASSUME NEW edges, Graph(edges), ~HasCycle(edges),
         NEW resolved \in SUBSET DOMAIN edges, resolved # DOMAIN edges
  PROVE  /\ NextLayer(edges, resolved) # {}
         /\ NextLayer(edges, resolved) \subseteq DOMAIN edges \ resolved
         /\ \A n \in NextLayer(edges, resolved) : edges[n] \subseteq resolved
<1> DEFINE U == DOMAIN edges \ resolved
<1>1. PICK n \in U : edges[n] \cap U = {}
  BY DEF HasCycle
<1>2. n \in NextLayer(edges, resolved)
  BY <1>1 DEF NextLayer, Graph
<1> QED BY <1>2 DEF NextLayer

-----------------------------------------------------------------------------
(* The inductive invariant.                                                *)

\* Before execute() has scheduled the plan nothing has run.
NothingRanYet ==
  Planning \/ stage \in {"compile", "schedule"} =>
    /\ state = {} /\ layer = {}
    /\ Started = {}

\* The graph being built keeps every dependency of the view, holds the submit nodes,
\* and while the submit list is read it is the view's own graph.
DagFollowsView ==
  /\ \A n \in DOMAIN dag : view.edges[n] \subseteq dag[n]
  /\ \A i \in DOMAIN ids : ids[i] \in DOMAIN dag
  /\ \A i \in DOMAIN ids : \E k \in DOMAIN view.submit : view.submit[k] = ids[i]
  /\ phase = "requested" => ids = <<>> /\ dag = [n \in {} |-> {}]
  /\ stage = "compile" => phase = "failed" /\ ids = <<>> /\ dag = [n \in {} |-> {}]
  /\ phase = "collecting" =>
       dag = view.edges /\ \A k \in DOMAIN view.submit : view.submit[k] \in view.nodes

\* Once cut down, the plan holds nothing it does not need.
DagIsNeeded ==
  phase \notin {"requested", "collecting"} /\ stage # "compile" =>
    IF view.submit = <<>>
      THEN DOMAIN dag = view.nodes
      ELSE \A n \in DOMAIN dag :
             \/ \E k \in DOMAIN view.submit : view.submit[k] = n
             \/ \E k \in DOMAIN dag \ {n} : n \in view.edges[k]

\* The submit loops run only for a submit list, the second one from its second node.
Submitting ==
  /\ phase \in {"collecting", "chaining"} => view.submit # <<>>
  /\ phase = "chaining" => cursor > 1

\* Submit nodes chained so far: each reaches all those listed before it.
Chained ==
  phase \notin {"requested", "collecting"} =>
    \A i, j \in DOMAIN ids :
      i < j /\ (phase = "chaining" => j < cursor) => HasPath(dag, ids[j], ids[i])

\* While the plan runs its graph has no cycle.
Acyclic == phase = "running" => ~HasCycle(dag)

\* Nodes are started layer by layer, with snapshots that are closed sets.
Layered ==
  /\ Started = state \cup layer
  /\ state \cap layer = {}
  /\ \A n \in state : node[n] \in {"succeeded", "skipped"}
  /\ \A n \in Started :
       seen[n] \subseteq state /\ dag[n] \subseteq seen[n] /\ ClosedUnder(dag, seen[n])
  /\ ClosedUnder(dag, state)

\* The first failure is remembered; without one no node has failed.
FirstFailure ==
  /\ firstFail # NoNode => node[firstFail] = "failed"
  /\ firstFail = NoNode => \A n \in Node : node[n] # "failed"

\* The caller's answer agrees with what ran.
Outcome ==
  /\ phase = "succeeded" => state = DOMAIN dag /\ layer = {}
  /\ phase = "failed" => stage # "none"
  /\ phase # "failed" => stage = "none"

\* The database holds each write once, of nodes that went through their adapter,
\* in an order their snapshots allow.
DatabaseInOrder ==
  /\ \A i \in DOMAIN db : node[db[i]] \in {"applied", "succeeded", "failed"}
  /\ \A m \in Mutation : node[m] \in {"applied", "succeeded"} => m \in Written
  /\ \A i, j \in DOMAIN db : db[i] = db[j] => i = j
  /\ \A i, j \in DOMAIN db : i < j => db[j] \notin seen[db[i]]

\* Only mutations are ever between their write and their answer.
AppliedAreMutations == \A n \in Node : node[n] \in {"applied", "skipped"} => n \in Mutation

IInv ==
  /\ TypeOK
  /\ NothingRanYet
  /\ DagFollowsView
  /\ DagIsNeeded
  /\ Submitting
  /\ Chained
  /\ Acyclic
  /\ Layered
  /\ FirstFailure
  /\ Outcome
  /\ DatabaseInOrder
  /\ AppliedAreMutations

-----------------------------------------------------------------------------
(* Initially, and across every step.                                       *)

\* The invariant holds of a request nobody has looked at yet.
LEMMA InitEstablishes == Init => IInv
<1> SUFFICES ASSUME Init PROVE IInv
  OBVIOUS
<1>1. TypeOK
  BY ViewsAssumption, NoNodeAssumption, MutationAssumption DEF Init, TypeOK, Phases, Stages, NodeStates, EventTypes, Events, ClosedUnder
<1>2. NothingRanYet
  BY ViewsAssumption, NoNodeAssumption, MutationAssumption DEF Init, TypeOK, NothingRanYet, Planning, Started, ClosedUnder
<1>3. DagFollowsView
  BY ViewsAssumption, NoNodeAssumption, MutationAssumption DEF Init, TypeOK, DagFollowsView, WellFormed, ClosedUnder
<1>4. DagIsNeeded
  BY ViewsAssumption, NoNodeAssumption, MutationAssumption DEF Init, DagIsNeeded, ClosedUnder
<1>5. Submitting
  BY ViewsAssumption, NoNodeAssumption, MutationAssumption DEF Init, TypeOK, Submitting, ClosedUnder
<1>6. Chained
  BY ViewsAssumption, NoNodeAssumption, MutationAssumption DEF Init, Chained, ClosedUnder
<1>7. Acyclic
  BY ViewsAssumption, NoNodeAssumption, MutationAssumption DEF Init, Acyclic, ClosedUnder
<1>8. Layered
  BY ViewsAssumption, NoNodeAssumption, MutationAssumption DEF Init, TypeOK, Layered, Started, ClosedUnder
<1>9. FirstFailure
  BY ViewsAssumption, NoNodeAssumption, MutationAssumption DEF Init, TypeOK, FirstFailure, ClosedUnder
<1>10. Outcome
  BY ViewsAssumption, NoNodeAssumption, MutationAssumption DEF Init, Outcome, ClosedUnder
<1>11. DatabaseInOrder
  BY ViewsAssumption, NoNodeAssumption, MutationAssumption DEF Init, TypeOK, DatabaseInOrder, Written, ClosedUnder
<1>12. AppliedAreMutations
  BY ViewsAssumption, NoNodeAssumption, MutationAssumption DEF Init, TypeOK, AppliedAreMutations, ClosedUnder
<1> QED BY <1>1, <1>2, <1>3, <1>4, <1>5, <1>6, <1>7, <1>8, <1>9, <1>10, <1>11, <1>12 DEF IInv

\* Compiling reads the view's graph, or leaves everything untouched.
LEMMA CompileViewPreserves ==
  ASSUME IInv, CompileView
  PROVE  IInv'
<1> USE DEF IInv, CompileView
<1>1. TypeOK'
  BY DEF TypeOK, Phases, Stages, WellFormed, NothingRanYet, Planning
<1>2. NothingRanYet'
  BY DEF TypeOK, NothingRanYet, Planning, Started
<1>3. DagFollowsView'
  BY DEF TypeOK, DagFollowsView, WellFormed
<1>4. DagIsNeeded'
  BY DEF TypeOK, WellFormed, Outcome, DagIsNeeded
<1>5. Submitting'
  BY DEF TypeOK, Submitting
<1>6. Chained'
  BY DEF DagFollowsView, Chained
<1>7. Acyclic'
  BY DEF Acyclic
<1>8. Layered'
  <2>1. state = {} /\ layer = {} /\ Started = {}
    BY DEF NothingRanYet, Planning
  <2> QED BY <2>1 DEF Layered, Started, ClosedUnder
<1>9. FirstFailure'
  BY DEF TypeOK, FirstFailure
<1>10. Outcome'
  BY DEF Outcome
<1>11. DatabaseInOrder'
  BY DEF TypeOK, DatabaseInOrder, Written
<1>12. AppliedAreMutations'
  BY DEF TypeOK, AppliedAreMutations
<1> QED BY <1>1, <1>2, <1>3, <1>4, <1>5, <1>6, <1>7, <1>8, <1>9, <1>10, <1>11, <1>12

\* Reading the submit list and cutting the plan down to what it needs.
LEMMA CollectSubmitPreserves ==
  ASSUME IInv, CollectSubmit
  PROVE  IInv'
<1> USE DEF IInv, CollectSubmit
<1> DEFINE needed == DependencyClosure(dag, {ids[i] : i \in DOMAIN ids})
<1>a. /\ Graph(dag)
      /\ state = {} /\ layer = {} /\ Started = {}
      /\ ids \in Seq(Node) /\ view.submit \in Seq(Node)
      /\ stage = "none"
  BY DEF TypeOK, NothingRanYet, Planning, Graph, View, Outcome
<1>b. ASSUME cursor <= Len(view.submit)
      PROVE  TypeOK' /\ DagFollowsView' /\ DagIsNeeded' /\ Chained' /\ Layered'
  <2> DEFINE x == view.submit[cursor]
  <2>1. cursor \in DOMAIN view.submit
    BY <1>a, <1>b DEF TypeOK
  <2>0. x \in Node
    BY <1>a, <2>1
  <2>2. ids' \in Seq(Node)
    <3>1. ids' = ids \/ ids' = Append(ids, x)
      BY <1>b
    <3> HIDE DEF x
    <3> QED BY <1>a, <2>0, <3>1
  <2>3. \A i \in DOMAIN ids' : \E k \in DOMAIN view.submit : view.submit[k] = ids'[i]
    <3>1. ids' = ids \/ ids' = Append(ids, x)
      BY <1>b
    <3>2. \A i \in DOMAIN ids' : (i \in DOMAIN ids /\ ids'[i] = ids[i]) \/ ids'[i] = x
      <4> HIDE DEF x
      <4> QED BY <1>a, <2>0, <3>1
    <3> QED BY <2>1, <3>2 DEF DagFollowsView
  <2>4. TypeOK'
    BY <1>b, <2>2 DEF TypeOK, Phases
  <2>5. DagFollowsView'
    <3>1. \A k \in DOMAIN view.submit : view.submit[k] \in DOMAIN dag
      BY DEF DagFollowsView, TypeOK, WellFormed
    <3>2. \A i \in DOMAIN ids' : ids'[i] \in DOMAIN dag
      BY <2>3, <3>1
    <3> QED BY <1>a, <1>b, <2>3, <3>2 DEF DagFollowsView
  <2>6. DagIsNeeded' /\ Chained' /\ Layered'
    BY <1>a, <1>b DEF DagIsNeeded, Chained, Layered, Started
  <2> QED BY <2>4, <2>5, <2>6
<1>c. ASSUME ~(cursor <= Len(view.submit))
      PROVE  TypeOK' /\ DagFollowsView' /\ DagIsNeeded' /\ Chained' /\ Layered'
  <2>1. {ids[i] : i \in DOMAIN ids} \in SUBSET DOMAIN dag
    BY DEF DagFollowsView
  <2>2. /\ {ids[i] : i \in DOMAIN ids} \subseteq needed
        /\ needed \subseteq DOMAIN dag
        /\ ClosedUnder(dag, needed)
    BY <1>a, <2>1, ClosureIsClosed
  <2>3. /\ DOMAIN dag' = needed
        /\ \A n \in needed : dag'[n] = dag[n]
        /\ dag' \in [needed -> SUBSET needed]
    BY <1>a, <1>c, <2>2 DEF FilterEdges, ClosedUnder
  <2>4. TypeOK'
    <3>1. DOMAIN dag' \subseteq view.nodes /\ dag' \in [DOMAIN dag' -> SUBSET DOMAIN dag']
      BY <2>2, <2>3 DEF TypeOK
    <3>2. /\ phase' = "chaining" /\ cursor' = 2 /\ state' = {} /\ layer' = {}
          /\ UNCHANGED <<view, ids, stage, node, seen, firstFail, db, trail>>
      BY <1>a, <1>c
    <3> HIDE DEF CollectSubmit
    <3> QED BY <3>1, <3>2 DEF TypeOK, Phases
  <2>5. DagFollowsView'
    BY <1>a, <1>c, <2>2, <2>3 DEF DagFollowsView
  <2>6. DagIsNeeded'
    <3>1. dag = view.edges
      BY DEF DagFollowsView
    <3>2. \A n \in needed : \/ \E i \in DOMAIN ids : ids[i] = n
                            \/ \E k \in needed \ {n} : n \in dag[k]
      <4>1. SUFFICES ASSUME NEW n \in needed, n \notin {ids[i] : i \in DOMAIN ids}
                     PROVE  \E k \in needed \ {n} : n \in dag[k]
        OBVIOUS
      <4> QED BY <1>a, <2>1, <4>1, ClosureIsNeeded
    <3>3. \A n \in needed : \/ \E k \in DOMAIN view.submit : view.submit[k] = n
                            \/ \E k \in needed \ {n} : n \in view.edges[k]
      <4>1. \A i \in DOMAIN ids : \E k \in DOMAIN view.submit : view.submit[k] = ids[i]
        BY DEF DagFollowsView
      <4> HIDE DEF needed
      <4> QED BY <3>1, <3>2, <4>1
    <3>4. view.submit # <<>>
      BY DEF Submitting
    <3> QED BY <1>c, <2>3, <3>3, <3>4 DEF DagIsNeeded
  <2>7. Chained'
    BY <1>a, <1>c DEF Chained
  <2>8. Layered'
    <3>1. state' = {} /\ layer' = {} /\ Started' = {}
      BY <1>a, <1>c DEF Started
    <3> QED BY <3>1 DEF Layered, ClosedUnder
  <2> QED BY <2>4, <2>5, <2>6, <2>7, <2>8
<1>1. TypeOK'
  BY <1>b, <1>c
<1>2. NothingRanYet'
  BY DEF TypeOK, NothingRanYet, Planning, Started
<1>3. DagFollowsView'
  BY <1>b, <1>c
<1>4. DagIsNeeded'
  BY <1>b, <1>c
<1>5. Submitting'
  BY DEF TypeOK, Submitting
<1>6. Chained'
  BY <1>b, <1>c
<1>7. Acyclic'
  BY DEF Acyclic
<1>8. Layered'
  BY <1>b, <1>c
<1>9. FirstFailure'
  BY DEF TypeOK, FirstFailure
<1>10. Outcome'
  BY DEF Outcome
<1>11. DatabaseInOrder'
  BY DEF TypeOK, DatabaseInOrder, Written
<1>12. AppliedAreMutations'
  BY DEF TypeOK, AppliedAreMutations
<1> QED BY <1>1, <1>2, <1>3, <1>4, <1>5, <1>6, <1>7, <1>8, <1>9, <1>10, <1>11, <1>12

\* Chaining two submit nodes only ever adds an edge inside the plan.
LEMMA ChainSubmitPreserves ==
  ASSUME IInv, ChainSubmit
  PROVE  IInv'
<1> USE DEF IInv, ChainSubmit
<1>a. Graph(dag) /\ ids \in Seq(Node) /\ cursor \in Nat \ {0} /\ stage = "none"
  BY DEF TypeOK, Graph, Outcome
<1>b. /\ Graph(dag')
      /\ DOMAIN dag' = DOMAIN dag
      /\ \A n \in DOMAIN dag : dag[n] \subseteq dag'[n]
      /\ cursor <= Len(ids) => HasPath(dag', ids[cursor], ids[cursor - 1])
  <2>1. CASE cursor <= Len(ids)
    <3>1. cursor \in DOMAIN ids /\ cursor - 1 \in DOMAIN ids
      BY <1>a, <2>1 DEF Submitting
    <3>2. ids[cursor] \in DOMAIN dag /\ ids[cursor - 1] \in DOMAIN dag
      BY <3>1 DEF DagFollowsView
    <3> QED BY <1>a, <2>1, <3>2, ChainEdgeAddsPath
  <2>2. CASE ~(cursor <= Len(ids))
    BY <1>a, <2>2
  <2> QED BY <2>1, <2>2
<1>1. TypeOK'
  BY <1>a, <1>b DEF TypeOK, Phases, Graph
<1>2. NothingRanYet'
  BY DEF TypeOK, NothingRanYet, Planning, Started
<1>3. DagFollowsView'
  BY <1>a, <1>b DEF DagFollowsView
<1>4. DagIsNeeded'
  BY <1>a, <1>b DEF DagIsNeeded
<1>5. Submitting'
  BY DEF TypeOK, Submitting
<1>6. Chained'
  <2>1. SUFFICES ASSUME NEW i \in DOMAIN ids, NEW j \in DOMAIN ids, i < j,
                        phase' = "chaining" => j < cursor'
                 PROVE  HasPath(dag', ids[j], ids[i])
    BY DEF Chained
  <2>2. ASSUME NEW k \in DOMAIN ids, NEW h \in DOMAIN ids, h < k, k < cursor
        PROVE  HasPath(dag', ids[k], ids[h])
    BY <1>b, <2>2, PathMonotone DEF Chained
  <2>3. CASE j < cursor
    BY <2>1, <2>2, <2>3
  <2>4. CASE ~(j < cursor)
    <3>1. j = cursor /\ cursor <= Len(ids)
      BY <1>a, <2>1, <2>4
    <3>2. HasPath(dag', ids[j], ids[j - 1])
      BY <1>b, <3>1
    <3>3. CASE i = j - 1
      BY <3>2, <3>3
    <3>4. CASE i < j - 1
      <4>1. HasPath(dag', ids[j - 1], ids[i])
        <5>1. j - 1 \in DOMAIN ids /\ j - 1 < cursor
          BY <1>a, <3>1, <3>4
        <5> QED BY <2>2, <3>4, <5>1
      <4>2. ids[j] \in DOMAIN dag'
        BY <1>b DEF DagFollowsView
      <4> QED BY <1>b, <3>2, <4>1, <4>2, PathTransitive
    <3> QED BY <1>a, <2>1, <3>3, <3>4
  <2> QED BY <2>3, <2>4
<1>7. Acyclic'
  BY DEF Acyclic
<1>8. Layered'
  <2>1. state = {} /\ layer = {} /\ Started = {}
    BY DEF NothingRanYet, Planning
  <2> QED BY <2>1 DEF Layered, Started, ClosedUnder
<1>9. FirstFailure'
  BY DEF TypeOK, FirstFailure
<1>10. Outcome'
  BY DEF Outcome
<1>11. DatabaseInOrder'
  BY DEF TypeOK, DatabaseInOrder, Written
<1>12. AppliedAreMutations'
  BY DEF TypeOK, AppliedAreMutations
<1> QED BY <1>1, <1>2, <1>3, <1>4, <1>5, <1>6, <1>7, <1>8, <1>9, <1>10, <1>11, <1>12

\* A plan that passes the cycle check has a graph without a cycle.
LEMMA SchedulePreserves ==
  ASSUME IInv, Schedule
  PROVE  IInv'
<1> USE DEF IInv, Schedule
<1>1. TypeOK'
  <2>1. <<"plan.started", NoNode>> \in Events /\ <<"plan.failed", NoNode>> \in Events
    BY DEF Events, EventTypes
  <2> DEFINE started == <<"plan.started", NoNode>>
             failed == <<"plan.failed", NoNode>>
  <2>2. trail' = trail \o <<started, failed>> \/ trail' = Append(trail, started)
    OBVIOUS
  <2>3. trail \in Seq(Events)
    BY DEF TypeOK
  <2>4. trail' \in Seq(Events)
    <3> HIDE DEF started, failed, Schedule
    <3>1. CASE trail' = trail \o <<started, failed>>
      <4>1. <<started, failed>> \in Seq(Events)
        BY <2>1 DEF started, failed
      <4> QED BY <2>3, <3>1, <4>1
    <3>2. CASE trail' = Append(trail, started)
      BY <2>1, <2>3, <3>2 DEF started
    <3> QED BY <2>2, <3>1, <3>2
  <2> QED BY <2>4 DEF TypeOK, Phases, Stages
<1>2. NothingRanYet'
  BY DEF TypeOK, NothingRanYet, Planning, Started
<1>3. DagFollowsView'
  BY DEF TypeOK, DagFollowsView, WellFormed
<1>4. DagIsNeeded'
  BY DEF Outcome, DagIsNeeded
<1>5. Submitting'
  BY DEF TypeOK, Submitting
<1>6. Chained'
  BY DEF Chained
<1>7. Acyclic'
  BY DEF Acyclic
<1>8. Layered'
  BY DEF TypeOK, Layered, Started
<1>9. FirstFailure'
  BY DEF TypeOK, FirstFailure
<1>10. Outcome'
  BY DEF Outcome
<1>11. DatabaseInOrder'
  BY DEF TypeOK, DatabaseInOrder, Written
<1>12. AppliedAreMutations'
  BY DEF TypeOK, AppliedAreMutations
<1> QED BY <1>1, <1>2, <1>3, <1>4, <1>5, <1>6, <1>7, <1>8, <1>9, <1>10, <1>11, <1>12

\* The layer is made of nodes whose dependencies are all committed.
LEMMA StartLayerPreserves ==
  ASSUME IInv, StartLayer
  PROVE  IInv'
<1> USE DEF IInv, StartLayer
<1>a. Graph(dag) /\ ~HasCycle(dag) /\ state \in SUBSET DOMAIN dag
  BY DEF TypeOK, Graph, Acyclic
<1>b. /\ layer' # {}
      /\ layer' \subseteq DOMAIN dag \ state
      /\ \A n \in layer' : dag[n] \subseteq state
  BY <1>a, LayerExists
<1>c. DOMAIN dag \subseteq Node
  BY DEF TypeOK, View
<1>d. \A n \in layer' : node[n] = "idle"
  BY <1>b, <1>c DEF Layered, Started
<1>1. TypeOK'
  BY <1>b, <1>c DEF TypeOK, NodeStates
<1>2. NothingRanYet'
  BY DEF Outcome, NothingRanYet, Planning
<1>3. DagFollowsView'
  BY DEF TypeOK, DagFollowsView, WellFormed
<1>4. DagIsNeeded'
  BY DEF DagIsNeeded
<1>5. Submitting'
  BY DEF TypeOK, Submitting
<1>6. Chained'
  BY DEF Chained
<1>7. Acyclic'
  BY DEF Acyclic
<1>8. Layered'
  <2>1. Started' = state \cup layer'
    BY <1>b, <1>c DEF Layered, Started, TypeOK
  <2>2. \A n \in Started' :
          /\ seen'[n] \subseteq state
          /\ dag[n] \subseteq seen'[n]
          /\ ClosedUnder(dag, seen'[n])
    BY <1>b, <1>c, <2>1 DEF Layered, TypeOK
  <2>3. \A n \in state : node'[n] = node[n]
    BY <1>b, <1>c DEF TypeOK
  <2> QED BY <1>b, <2>1, <2>2, <2>3 DEF Layered
<1>9. FirstFailure'
  BY <1>d, NoNodeAssumption DEF FirstFailure, TypeOK
<1>10. Outcome'
  BY DEF Outcome
<1>11. DatabaseInOrder'
  <2>1. \A i \in DOMAIN db : db[i] \in Node /\ db[i] \notin layer'
    BY <1>d, MutationAssumption DEF DatabaseInOrder, TypeOK
  <2>2. \A i \in DOMAIN db : node'[db[i]] = node[db[i]] /\ seen'[db[i]] = seen[db[i]]
    BY <2>1
  <2>3. \A m \in Mutation : node'[m] \in {"applied", "succeeded"} => m \in Written
    BY MutationAssumption DEF DatabaseInOrder
  <2> QED BY <2>2, <2>3 DEF DatabaseInOrder, Written
<1>12. AppliedAreMutations'
  BY <1>d DEF TypeOK, AppliedAreMutations
<1> QED BY <1>1, <1>2, <1>3, <1>4, <1>5, <1>6, <1>7, <1>8, <1>9, <1>10, <1>11, <1>12

\* A write lands after everything that is in its node's snapshot.
LEMMA AdapterCommitsPreserves ==
  ASSUME IInv, NEW n \in Node, AdapterCommits(n)
  PROVE  IInv'
<1> USE DEF IInv, AdapterCommits
<1>1. TypeOK'
  BY DEF TypeOK, Phases, Stages, NodeStates, EventTypes, Events
<1>2. NothingRanYet'
  BY DEF TypeOK, NothingRanYet, Planning, Started
<1>3. DagFollowsView'
  BY DEF TypeOK, DagFollowsView, WellFormed
<1>4. DagIsNeeded'
  BY DEF DagIsNeeded
<1>5. Submitting'
  BY DEF TypeOK, Submitting
<1>6. Chained'
  BY DEF Chained
<1>7. Acyclic'
  BY DEF Acyclic
<1>8. Layered'
  BY DEF TypeOK, Layered, Started
<1>9. FirstFailure'
  BY DEF TypeOK, FirstFailure
<1>10. Outcome'
  BY DEF Outcome
<1>11. DatabaseInOrder'
  <2>1. /\ db \in Seq(Mutation)
        /\ \A m \in Node : node'[m] = IF m = n THEN "applied" ELSE node[m]
    BY DEF TypeOK
  <2>2. \A i \in DOMAIN db : db[i] # n /\ db[i] \in Node
    BY <2>1, MutationAssumption DEF DatabaseInOrder
  <2>3. /\ DOMAIN db' = 1 .. Len(db) + 1
        /\ \A i \in DOMAIN db : db'[i] = db[i]
        /\ db'[Len(db) + 1] = n
        /\ DOMAIN db = 1 .. Len(db) /\ Len(db) \in Nat
    BY <2>1
  <2>4. \A i \in DOMAIN db' : i \in DOMAIN db \/ i = Len(db) + 1
    BY <2>3
  <2>5. \A i \in DOMAIN db' : node'[db'[i]] \in {"applied", "succeeded", "failed"}
    BY <2>1, <2>2, <2>3, <2>4 DEF DatabaseInOrder
  <2>6. Written' = Written \cup {n}
    BY <2>3, <2>4 DEF Written
  <2>7. \A m \in Mutation : node'[m] \in {"applied", "succeeded"} => m \in Written'
    BY <2>1, <2>6, MutationAssumption DEF DatabaseInOrder
  <2>8. \A i, j \in DOMAIN db' : db'[i] = db'[j] => i = j
    BY <2>2, <2>3, <2>4 DEF DatabaseInOrder
  <2>9. \A i \in DOMAIN db : n \notin seen[db[i]]
    <3>1. \A m \in Started : seen[m] \subseteq state
      BY DEF Layered
    <3>2. n \notin state
      BY DEF Layered
    <3>3. \A i \in DOMAIN db : db[i] \in Started
      BY <2>2 DEF DatabaseInOrder, Started
    <3> QED BY <3>1, <3>2, <3>3
  <2>10. \A i, j \in DOMAIN db' : i < j => db'[j] \notin seen'[db'[i]]
    <3>1. SUFFICES ASSUME NEW i \in DOMAIN db', NEW j \in DOMAIN db', i < j
                   PROVE  db'[j] \notin seen[db'[i]]
      OBVIOUS
    <3>2. i \in DOMAIN db
      BY <2>3, <3>1
    <3>3. CASE j \in DOMAIN db
      BY <2>3, <3>1, <3>2, <3>3 DEF DatabaseInOrder
    <3>4. CASE j = Len(db) + 1
      BY <2>3, <2>9, <3>2, <3>4
    <3> QED BY <2>4, <3>3, <3>4
  <2> QED BY <2>5, <2>7, <2>8, <2>10 DEF DatabaseInOrder
<1>12. AppliedAreMutations'
  BY DEF TypeOK, AppliedAreMutations
<1> QED BY <1>1, <1>2, <1>3, <1>4, <1>5, <1>6, <1>7, <1>8, <1>9, <1>10, <1>11, <1>12

\* A node that resolves leaves the graph and the database alone.
LEMMA NodeSucceedsPreserves ==
  ASSUME IInv, NEW n \in Node, NodeSucceeds(n)
  PROVE  IInv'
<1> USE DEF IInv, NodeSucceeds
<1>1. TypeOK'
  <2>1. <<"node.succeeded", n>> \in Events
    BY DEF Events, EventTypes
  <2>2. trail' \in Seq(Events)
    BY <2>1 DEF TypeOK
  <2>3. node' \in [Node -> NodeStates]
    BY DEF TypeOK, NodeStates
  <2> QED BY <2>2, <2>3 DEF TypeOK
<1>2. NothingRanYet'
  BY DEF TypeOK, NothingRanYet, Planning, Started
<1>3. DagFollowsView'
  BY DEF TypeOK, DagFollowsView, WellFormed
<1>4. DagIsNeeded'
  BY DEF DagIsNeeded
<1>5. Submitting'
  BY DEF TypeOK, Submitting
<1>6. Chained'
  BY DEF Chained
<1>7. Acyclic'
  BY DEF Acyclic
<1>8. Layered'
  <2>1. node[n] # "idle" /\ node'[n] # "idle" /\ n \notin state
    BY DEF Layered, TypeOK
  <2>2. \A m \in Node \ {n} : node'[m] = node[m]
    BY DEF TypeOK
  <2>3. Started' = Started
    BY <2>1, <2>2 DEF Started
  <2>4. \A m \in state : m \in Node
    BY DEF TypeOK, View
  <2> QED BY <2>1, <2>2, <2>3, <2>4 DEF Layered
<1>9. FirstFailure'
  BY DEF TypeOK, FirstFailure
<1>10. Outcome'
  BY DEF Outcome
<1>11. DatabaseInOrder'
  <2>1. \A m \in Node : node'[m] = IF m = n THEN node'[n] ELSE node[m]
    BY DEF TypeOK
  <2>2. \A i \in DOMAIN db : db[i] \in Node
    BY MutationAssumption DEF TypeOK
  <2>3. \/ node[n] = "applied" /\ node'[n] = "succeeded"
        \/ node[n] = "running" /\ node'[n] = "skipped"
        \/ n \notin Mutation /\ node[n] = "running"
    BY DEF TypeOK
  <2>4. \A i \in DOMAIN db : node'[db[i]] \in {"applied", "succeeded", "failed"}
    BY <2>1, <2>2, <2>3 DEF DatabaseInOrder
  <2>5. \A m \in Mutation : node'[m] \in {"applied", "succeeded"} => m \in Written
    BY <2>1, <2>3, MutationAssumption DEF DatabaseInOrder
  <2> QED BY <2>4, <2>5 DEF DatabaseInOrder, Written
<1>12. AppliedAreMutations'
  BY DEF TypeOK, AppliedAreMutations
<1> QED BY <1>1, <1>2, <1>3, <1>4, <1>5, <1>6, <1>7, <1>8, <1>9, <1>10, <1>11, <1>12

\* The first rejection is the one that is kept.
LEMMA NodeFailsPreserves ==
  ASSUME IInv, NEW n \in Node, NodeFails(n)
  PROVE  IInv'
<1> USE DEF IInv, NodeFails
<1>1. TypeOK'
  BY DEF TypeOK, Phases, Stages, NodeStates, EventTypes, Events
<1>2. NothingRanYet'
  BY DEF TypeOK, NothingRanYet, Planning, Started
<1>3. DagFollowsView'
  BY DEF TypeOK, DagFollowsView, WellFormed
<1>4. DagIsNeeded'
  BY DEF DagIsNeeded
<1>5. Submitting'
  BY DEF TypeOK, Submitting
<1>6. Chained'
  BY DEF Chained
<1>7. Acyclic'
  BY DEF Acyclic
<1>8. Layered'
  BY DEF TypeOK, Layered, Started
<1>9. FirstFailure'
  BY NoNodeAssumption DEF TypeOK, FirstFailure
<1>10. Outcome'
  BY DEF Outcome
<1>11. DatabaseInOrder'
  BY DEF TypeOK, DatabaseInOrder, Written
<1>12. AppliedAreMutations'
  BY DEF TypeOK, AppliedAreMutations
<1> QED BY <1>1, <1>2, <1>3, <1>4, <1>5, <1>6, <1>7, <1>8, <1>9, <1>10, <1>11, <1>12

\* The answer changes nothing but the request's outcome.
LEMMA RejectPlanPreserves ==
  ASSUME IInv, RejectPlan
  PROVE  IInv'
<1> USE DEF IInv, RejectPlan
<1>1. TypeOK'
  BY DEF TypeOK, Phases, Stages, NodeStates, EventTypes, Events
<1>2. NothingRanYet'
  BY DEF TypeOK, NothingRanYet, Planning, Started
<1>3. DagFollowsView'
  BY DEF TypeOK, DagFollowsView, WellFormed
<1>4. DagIsNeeded'
  BY DEF Outcome, DagIsNeeded
<1>5. Submitting'
  BY DEF TypeOK, Submitting
<1>6. Chained'
  BY DEF Chained
<1>7. Acyclic'
  BY DEF Acyclic
<1>8. Layered'
  BY DEF TypeOK, Layered, Started
<1>9. FirstFailure'
  BY DEF TypeOK, FirstFailure
<1>10. Outcome'
  BY DEF Outcome
<1>11. DatabaseInOrder'
  BY DEF TypeOK, DatabaseInOrder, Written
<1>12. AppliedAreMutations'
  BY DEF TypeOK, AppliedAreMutations
<1> QED BY <1>1, <1>2, <1>3, <1>4, <1>5, <1>6, <1>7, <1>8, <1>9, <1>10, <1>11, <1>12

\* A layer is committed when all of it is resolved.
LEMMA CommitLayerPreserves ==
  ASSUME IInv, CommitLayer
  PROVE  IInv'
<1> USE DEF IInv, CommitLayer
<1>1. TypeOK'
  BY DEF TypeOK, Phases, Stages, NodeStates, EventTypes, Events
<1>2. NothingRanYet'
  BY DEF TypeOK, NothingRanYet, Planning, Started
<1>3. DagFollowsView'
  BY DEF TypeOK, DagFollowsView, WellFormed
<1>4. DagIsNeeded'
  BY DEF DagIsNeeded
<1>5. Submitting'
  BY DEF TypeOK, Submitting
<1>6. Chained'
  BY DEF Chained
<1>7. Acyclic'
  BY DEF Acyclic
<1>8. Layered'
  <2>1. layer \subseteq Started /\ \A n \in layer : node[n] \in {"succeeded", "skipped"}
    BY DEF Layered, Resolved
  <2>2. ClosedUnder(dag, state \cup layer)
    BY <2>1 DEF Layered, ClosedUnder, TypeOK
  <2> QED BY <2>1, <2>2 DEF Layered, Started
<1>9. FirstFailure'
  BY DEF TypeOK, FirstFailure
<1>10. Outcome'
  BY DEF Outcome
<1>11. DatabaseInOrder'
  BY DEF TypeOK, DatabaseInOrder, Written
<1>12. AppliedAreMutations'
  BY DEF TypeOK, AppliedAreMutations
<1> QED BY <1>1, <1>2, <1>3, <1>4, <1>5, <1>6, <1>7, <1>8, <1>9, <1>10, <1>11, <1>12

\* The answer changes nothing but the request's outcome.
LEMMA CloneFailsPreserves ==
  ASSUME IInv, CloneFails
  PROVE  IInv'
<1> USE DEF IInv, CloneFails
<1>1. TypeOK'
  BY DEF TypeOK, Phases, Stages, NodeStates, EventTypes, Events
<1>2. NothingRanYet'
  BY DEF TypeOK, NothingRanYet, Planning, Started
<1>3. DagFollowsView'
  BY DEF TypeOK, DagFollowsView, WellFormed
<1>4. DagIsNeeded'
  BY DEF Outcome, DagIsNeeded
<1>5. Submitting'
  BY DEF TypeOK, Submitting
<1>6. Chained'
  BY DEF Chained
<1>7. Acyclic'
  BY DEF Acyclic
<1>8. Layered'
  BY DEF TypeOK, Layered, Started
<1>9. FirstFailure'
  BY DEF TypeOK, FirstFailure
<1>10. Outcome'
  BY DEF Outcome
<1>11. DatabaseInOrder'
  BY DEF TypeOK, DatabaseInOrder, Written
<1>12. AppliedAreMutations'
  BY DEF TypeOK, AppliedAreMutations
<1> QED BY <1>1, <1>2, <1>3, <1>4, <1>5, <1>6, <1>7, <1>8, <1>9, <1>10, <1>11, <1>12

\* The answer changes nothing but the request's outcome.
LEMMA ResolveOutputPreserves ==
  ASSUME IInv, ResolveOutput
  PROVE  IInv'
<1> USE DEF IInv, ResolveOutput
<1>1. TypeOK'
  <2>1. <<"plan.succeeded", NoNode>> \in Events /\ <<"plan.failed", NoNode>> \in Events
    BY DEF Events, EventTypes
  <2>2. trail' \in Seq(Events)
    <3>1. trail \in Seq(Events)
      BY DEF TypeOK
    <3>2. CASE trail' = Append(trail, <<"plan.succeeded", NoNode>>)
      BY <2>1, <3>1, <3>2
    <3>3. CASE trail' = Append(trail, <<"plan.failed", NoNode>>)
      BY <2>1, <3>1, <3>3
    <3> QED BY <3>2, <3>3
  <2>3. phase' \in Phases /\ stage' \in Stages
    BY DEF TypeOK, Phases, Stages
  <2> QED BY <2>2, <2>3 DEF TypeOK
<1>2. NothingRanYet'
  BY DEF TypeOK, NothingRanYet, Planning, Started
<1>3. DagFollowsView'
  BY DEF TypeOK, DagFollowsView, WellFormed
<1>4. DagIsNeeded'
  BY DEF Outcome, DagIsNeeded
<1>5. Submitting'
  BY DEF TypeOK, Submitting
<1>6. Chained'
  BY DEF Chained
<1>7. Acyclic'
  BY DEF Acyclic
<1>8. Layered'
  BY DEF TypeOK, Layered, Started
<1>9. FirstFailure'
  BY DEF TypeOK, FirstFailure
<1>10. Outcome'
  BY DEF Outcome
<1>11. DatabaseInOrder'
  BY DEF TypeOK, DatabaseInOrder, Written
<1>12. AppliedAreMutations'
  BY DEF TypeOK, AppliedAreMutations
<1> QED BY <1>1, <1>2, <1>3, <1>4, <1>5, <1>6, <1>7, <1>8, <1>9, <1>10, <1>11, <1>12

\* A step that changes no variable.
LEMMA StutterPreserves == IInv /\ UNCHANGED vars => IInv'
<1> SUFFICES ASSUME IInv, UNCHANGED vars PROVE IInv'
  OBVIOUS
<1> USE DEF IInv, vars
<1>1. TypeOK' /\ NothingRanYet'
  BY DEF TypeOK, NothingRanYet, Planning, Started, WellFormed
<1>2. DagFollowsView' /\ DagIsNeeded' /\ Submitting' /\ Chained' /\ Acyclic'
  BY DEF DagFollowsView, DagIsNeeded, Submitting, Chained, Acyclic
<1>3. Layered' /\ FirstFailure' /\ Outcome'
  BY DEF Layered, FirstFailure, Outcome, Started
<1>4. DatabaseInOrder' /\ AppliedAreMutations'
  BY DEF DatabaseInOrder, AppliedAreMutations, Written
<1> QED BY <1>1, <1>2, <1>3, <1>4

\* The invariant is inductive.
LEMMA NextPreserves == IInv /\ [Next]_vars => IInv'
<1> SUFFICES ASSUME IInv, [Next]_vars PROVE IInv'
  OBVIOUS
<1>1. ASSUME Runtime PROVE IInv'
  BY <1>1, CompileViewPreserves, CollectSubmitPreserves, ChainSubmitPreserves,
     SchedulePreserves, StartLayerPreserves, RejectPlanPreserves,
     CommitLayerPreserves, CloneFailsPreserves, ResolveOutputPreserves DEF Runtime
<1>2. ASSUME NEW n \in Node, AdapterCommits(n) \/ Settle(n) PROVE IInv'
  BY <1>2, AdapterCommitsPreserves, NodeSucceedsPreserves, NodeFailsPreserves
  DEF Settle
<1>3. ASSUME Terminated \/ UNCHANGED vars PROVE IInv'
  BY <1>3, StutterPreserves DEF Terminated
<1> QED BY <1>1, <1>2, <1>3 DEF Next

\* Every reachable state satisfies it.
THEOREM Invariant == Spec => []IInv
<1>1. Init => IInv
  BY InitEstablishes
<1>2. IInv /\ [Next]_vars => IInv'
  BY NextPreserves
<1> QED BY <1>1, <1>2, PTL DEF Spec

-----------------------------------------------------------------------------
(* What the invariant means for the requests, the nodes and the database.  *)

\* Every variable keeps its type, whatever the view.
THEOREM TypeCorrect == Spec => []TypeOK
<1>1. IInv => TypeOK
  BY DEF IInv
<1> QED BY <1>1, Invariant, PTL

\* What a started node needs to know of the plan's graph.
LEMMA SnapshotIsClosed ==
  ASSUME IInv, NEW n \in Started
  PROVE  /\ view.edges[n] \subseteq seen[n] /\ dag[n] \subseteq seen[n]
         /\ seen[n] \subseteq state
         /\ ClosedUnder(view.edges, seen[n]) /\ ClosedUnder(dag, seen[n])
         /\ n \in DOMAIN dag /\ n \in DOMAIN view.edges
<1>1. n \in DOMAIN dag /\ n \in DOMAIN view.edges
  BY DEF IInv, TypeOK, Layered, WellFormed
<1>2. seen[n] \subseteq state /\ dag[n] \subseteq seen[n] /\ ClosedUnder(dag, seen[n])
  BY DEF IInv, Layered
<1>3. \A k \in DOMAIN dag : view.edges[k] \subseteq dag[k]
  BY DEF IInv, DagFollowsView
<1>4. ClosedUnder(view.edges, seen[n])
  BY <1>2, <1>3 DEF ClosedUnder, IInv, TypeOK
<1> QED BY <1>1, <1>2, <1>3, <1>4

\* No node is ever started without the results it reads: the cut to the submit
\* closure, the layering and the snapshot agree with the view, whatever its graph.
THEOREM SnapshotsAreComplete == Spec => []SnapshotHoldsAllDependencies
<1>1. IInv => SnapshotHoldsAllDependencies
  <2>1. IInv => state \cap layer = {}
    BY DEF IInv, Layered
  <2> QED BY <2>1, SnapshotIsClosed DEF SnapshotHoldsAllDependencies
<1> QED BY <1>1, Invariant, PTL

\* The submit list is an order of effects, whatever the graph: each submit node is
\* chained to the one before it, paths compose, and a snapshot is a closed set.
THEOREM SubmitsAreOrdered == Spec => []SubmitInOrder
<1>1. IInv => SubmitInOrder
  <2>1. SUFFICES ASSUME IInv, phase \notin {"requested", "collecting"},
                        NEW i \in DOMAIN ids, NEW j \in DOMAIN ids, i < j,
                        ids[j] \in Started
                 PROVE  ids[i] \in state \cup {ids[j]}
    BY DEF SubmitInOrder
  <2> DEFINE S == seen[ids[j]] \cup {ids[j]}
  <2>2. phase # "chaining"
    BY <2>1 DEF IInv, NothingRanYet, Planning
  <2>3. HasPath(dag, ids[j], ids[i])
    BY <2>1, <2>2 DEF IInv, Chained
  <2>4. /\ seen[ids[j]] \subseteq state
        /\ ClosedUnder(dag, S)
    BY <2>1, SnapshotIsClosed DEF ClosedUnder
  <2>5. S \in SUBSET DOMAIN dag
    BY <2>1, <2>4, SnapshotIsClosed DEF IInv, TypeOK
  <2>6. ids[i] \in S
    <3> HIDE DEF S
    <3>1. ids[j] \in S
      BY DEF S
    <3> QED BY <2>3, <2>4, <2>5, <3>1, PathInClosedSet
  <2> QED BY <2>4, <2>6
<1> QED BY <1>1, Invariant, PTL

\* The database never sees a write before a write it depends on, through however
\* many nodes: an earlier write's snapshot holds all it depends on.
THEOREM WritesAreOrdered == Spec => []WritesFollowDependencies
<1>1. IInv => WritesFollowDependencies
  <2>1. SUFFICES ASSUME IInv, NEW i \in DOMAIN db, NEW j \in DOMAIN db, i < j,
                        db[j] \in DependencyClosure(view.edges, {db[i]})
                 PROVE  FALSE
    BY DEF WritesFollowDependencies
  <2> DEFINE S == seen[db[i]] \cup {db[i]}
  <2>2. db[i] \in Started
    BY <2>1, MutationAssumption DEF IInv, TypeOK, DatabaseInOrder, Started
  <2>3. ClosedUnder(view.edges, S)
    BY <2>1, <2>2, SnapshotIsClosed DEF ClosedUnder
  <2>4. S \in SUBSET DOMAIN view.edges
    BY <2>1, <2>2, SnapshotIsClosed DEF IInv, TypeOK, WellFormed
  <2>5. db[j] \in S
    <3> HIDE DEF S
    <3>1. {db[i]} \subseteq S
      BY DEF S
    <3> QED BY <2>1, <2>3, <2>4, <3>1, ClosureIsLeast
  <2>6. db[j] # db[i] /\ db[j] \notin seen[db[i]]
    <3>1. i # j
      BY <2>1 DEF IInv, TypeOK
    <3> QED BY <2>1, <3>1 DEF IInv, DatabaseInOrder
  <2> QED BY <2>5, <2>6
<1> QED BY <1>1, Invariant, PTL

\* Success means exactly what was needed, with every write once.
THEOREM SuccessesAreExact == Spec => []SuccessIsExact
<1>1. IInv => SuccessIsExact
  <2>1. SUFFICES ASSUME IInv, phase = "succeeded" PROVE SuccessIsExact
    BY DEF SuccessIsExact
  <2>2. Started = state /\ state = DOMAIN dag /\ stage = "none"
    BY <2>1 DEF IInv, Layered, Outcome
  <2>3. /\ view.submit = <<>> => state = view.nodes
        /\ view.submit # <<>> =>
             \A n \in state :
               \/ \E i \in DOMAIN view.submit : view.submit[i] = n
               \/ \E k \in state \ {n} : n \in view.edges[k]
    BY <2>1, <2>2 DEF IInv, DagIsNeeded
  <2>4. Written = {m \in state \cap Mutation : node[m] # "skipped"}
    <3>1. \A m \in Written : m \in Mutation /\ m \in state /\ node[m] # "skipped"
      <4>1. SUFFICES ASSUME NEW i \in DOMAIN db
                     PROVE  db[i] \in Mutation /\ db[i] \in state /\ node[db[i]] # "skipped"
        BY DEF Written
      <4>2. db[i] \in Mutation /\ node[db[i]] \in {"applied", "succeeded", "failed"}
        BY <2>1, <4>1 DEF IInv, TypeOK, DatabaseInOrder
      <4> QED BY <2>2, <4>2, MutationAssumption DEF Started
    <3>2. \A m \in state \cap Mutation : node[m] # "skipped" => m \in Written
      BY <2>1 DEF IInv, Layered, DatabaseInOrder
    <3> QED BY <3>1, <3>2
  <2>5. \A i, j \in DOMAIN db : db[i] = db[j] => i = j
    BY <2>1 DEF IInv, DatabaseInOrder
  <2> QED BY <2>2, <2>3, <2>4, <2>5 DEF SuccessIsExact
<1> QED BY <1>1, Invariant, PTL

\* A failure stays inside its layer.
THEOREM FailuresAreContained == Spec => []FailureContained
<1>1. IInv => FailureContained
  <2>1. SUFFICES ASSUME IInv, firstFail # NoNode PROVE FailureContained
    BY DEF FailureContained
  <2>2. node[firstFail] = "failed" /\ firstFail \in Node
    BY <2>1 DEF IInv, TypeOK, FirstFailure
  <2>3. firstFail \in layer
    BY <2>1, <2>2 DEF IInv, Layered, Started
  <2>4. layer \cap state = {} /\ Started = state \cup layer
    BY <2>1 DEF IInv, Layered
  <2>5. Written \subseteq Started
    BY <2>1, MutationAssumption DEF IInv, TypeOK, Written, DatabaseInOrder, Started
  <2> QED BY <2>3, <2>4, <2>5 DEF FailureContained
<1> QED BY <1>1, Invariant, PTL

\* Only the siblings of a failed node move once the caller has its answer, and
\* they were started before it.
THEOREM AnswersAreFinal == Spec => NothingStartsAfterTheAnswer
<1>1. ASSUME IInv, [Next]_vars, Finished
      PROVE  UNCHANGED <<phase, stage, dag, state, layer, seen, Started>>
  <2> USE DEF Finished
  <2>1. ASSUME Runtime PROVE FALSE
    BY <1>1, <2>1 DEF Runtime, CompileView, CollectSubmit, ChainSubmit, Schedule,
       StartLayer, RejectPlan, CommitLayer, CloneFails, ResolveOutput
  <2>2. ASSUME NEW n \in Node, AdapterCommits(n) \/ Settle(n)
        PROVE  UNCHANGED <<phase, stage, dag, state, layer, seen, Started>>
    <3>1. UNCHANGED <<phase, stage, dag, state, layer, seen>>
      BY <2>2 DEF Settle, AdapterCommits, NodeSucceeds, NodeFails
    <3>2. node[n] # "idle" /\ node'[n] # "idle" /\ \A m \in Node \ {n} : node'[m] = node[m]
      BY <1>1, <2>2 DEF Settle, AdapterCommits, NodeSucceeds, NodeFails, IInv, TypeOK
    <3> QED BY <3>1, <3>2 DEF Started
  <2>3. ASSUME Terminated \/ UNCHANGED vars
        PROVE  UNCHANGED <<phase, stage, dag, state, layer, seen, Started>>
    BY <2>3 DEF Terminated, vars, Started
  <2> QED BY <1>1, <2>1, <2>2, <2>3 DEF Next
<1> QED BY <1>1, Invariant, PTL DEF Spec, NothingStartsAfterTheAnswer

-----------------------------------------------------------------------------
(* Refinement.                                                             *)

\* Each step of the executor is a step of the contract or leaves it alone.
LEMMA StepRefines ==
  IInv /\ [Next]_vars => [Contract!Next]_Contract!vars
<1> SUFFICES ASSUME IInv, [Next]_vars PROVE [Contract!Next]_Contract!vars
  OBVIOUS
<1> DEFINE Empty == [n \in {} |-> {}]
           E == IF Planning \/ stage \in {"compile", "schedule"} THEN Empty ELSE dag
           O == IF Planning THEN "new"
                ELSE IF phase = "running" THEN "pending"
                ELSE IF phase = "succeeded" THEN "success" ELSE "failure"
           Same == E' = E /\ O' = O /\ Started' = Started /\ state' = state /\ db' = db
<1>1. Same => [Contract!Next]_Contract!vars
  BY DEF Contract!vars
<1>2. ASSUME CompileView \/ CollectSubmit \/ ChainSubmit \/ Schedule
      PROVE  [Contract!Next]_Contract!vars
  <2>1. Planning /\ UNCHANGED <<Started, state, db>> /\ stage = "none"
    BY <1>2 DEF CompileView, CollectSubmit, ChainSubmit, Schedule, Planning, Started,
       IInv, Outcome
  <2>2. \/ Same
        \/ O = "new" /\ O' = "failure" /\ E' = E
        \/ O = "new" /\ O' = "pending" /\ E' = dag
    BY <1>2, <2>1 DEF CompileView, CollectSubmit, ChainSubmit, Schedule, Planning
  <2>3. dag \in Contract!EdgeMap
    BY DEF IInv, TypeOK, View, Contract!EdgeMap
  <2> QED BY <1>1, <2>1, <2>2, <2>3 DEF Contract!Next, Contract!Accept, Contract!Refuse
<1>3. ASSUME StartLayer PROVE [Contract!Next]_Contract!vars
  <2>1. E = dag /\ E' = dag /\ O = "pending" /\ O' = "pending"
    BY <1>3 DEF StartLayer, Planning, IInv, Outcome
  <2>2. /\ layer' \subseteq DOMAIN dag \ state
        /\ \A n \in layer' : dag[n] \subseteq state
    BY <1>3 DEF StartLayer, NextLayer
  <2>3. layer' \subseteq Node /\ Started = state
    BY <1>3, <2>2 DEF IInv, TypeOK, View, Layered, StartLayer
  <2>4. Started' = Started \cup layer' /\ UNCHANGED <<state, db>>
    BY <1>3, <2>3 DEF StartLayer, Started, IInv, TypeOK
  <2>5. Contract!Arm(layer')
    BY <2>1, <2>2, <2>3, <2>4 DEF Contract!Arm
  <2> QED BY <2>3, <2>5 DEF Contract!Next
<1>4. ASSUME NEW n \in Node, AdapterCommits(n) PROVE [Contract!Next]_Contract!vars
  <2>1. E' = E /\ O' = O /\ state' = state
    BY <1>4 DEF AdapterCommits, Planning
  <2>2. Started' = Started /\ n \in Started
    BY <1>4 DEF AdapterCommits, Started, IInv, TypeOK
  <2>3. n \notin state /\ \A i \in DOMAIN db : db[i] # n
    BY <1>4 DEF AdapterCommits, IInv, Layered, DatabaseInOrder
  <2>4. db' = Append(db, n)
    BY <1>4 DEF AdapterCommits
  <2>5. Contract!Write(n)
    BY <2>1, <2>2, <2>3, <2>4 DEF Contract!Write
  <2> QED BY <2>5 DEF Contract!Next
<1>5. ASSUME NEW n \in Node, Settle(n) PROVE [Contract!Next]_Contract!vars
  <2>1. E' = E /\ O' = O /\ state' = state /\ db' = db
    BY <1>5 DEF Settle, NodeSucceeds, NodeFails, Planning
  <2>2. node[n] # "idle" /\ node'[n] # "idle" /\ \A m \in Node \ {n} : node'[m] = node[m]
    BY <1>5 DEF Settle, NodeSucceeds, NodeFails, IInv, TypeOK
  <2>3. Started' = Started
    BY <2>2 DEF Started
  <2> QED BY <1>1, <2>1, <2>3
<1>6. ASSUME RejectPlan \/ CloneFails \/ ResolveOutput
      PROVE  [Contract!Next]_Contract!vars
  <2>1. E = dag /\ E' = dag /\ O = "pending" /\ UNCHANGED <<Started, state, db>>
    BY <1>6 DEF RejectPlan, CloneFails, ResolveOutput, Planning, Started, IInv, Outcome
  <2>2. O' = "failure" \/ (O' = "success" /\ state = DOMAIN dag)
    <3>1. phase' = "failed" \/ (phase' = "succeeded" /\ state = DOMAIN dag)
      BY <1>6 DEF RejectPlan, CloneFails, ResolveOutput
    <3>2. ~Planning'
      BY <3>1 DEF Planning
    <3> QED BY <3>1, <3>2
  <2> QED BY <2>1, <2>2 DEF Contract!Next, Contract!Succeed, Contract!Fail
<1>7. ASSUME CommitLayer PROVE [Contract!Next]_Contract!vars
  <2>1. E = dag /\ E' = dag /\ O = "pending" /\ O' = "pending"
    BY <1>7 DEF CommitLayer, Planning, IInv, Outcome
  <2>2. /\ layer \subseteq Started \ state /\ layer \subseteq Node
        /\ state' = state \cup layer /\ UNCHANGED <<Started, db>>
    BY <1>7 DEF CommitLayer, Started, IInv, Layered, TypeOK, View
  <2>3. Contract!Publish(layer)
    BY <2>1, <2>2 DEF Contract!Publish
  <2> QED BY <2>2, <2>3 DEF Contract!Next
<1>8. ASSUME Terminated \/ UNCHANGED vars PROVE [Contract!Next]_Contract!vars
  <2>1. Same
    BY <1>8 DEF Terminated, vars, Planning, Started
  <2> QED BY <1>1, <2>1
<1> QED BY <1>2, <1>3, <1>4, <1>5, <1>6, <1>7, <1>8 DEF Next, Runtime

\* Whatever the view and the order in which its nodes answer, a caller sees a plan
\* that keeps the contract.
THEOREM ExecutorKeepsContract == Spec => ImplementsContract
<1>1. Init => Contract!Init
  BY DEF Init, Contract!Init, Planning, Started
<1>2. IInv /\ [Next]_vars => [Contract!Next]_Contract!vars
  BY StepRefines
<1> QED BY <1>1, <1>2, Invariant, PTL DEF Spec, Contract!Spec, ImplementsContract
-----------------------------------------------------------------------------
(* The audit trail tells the story of the request.                         *)

EndTypes == {"plan.succeeded", "plan.failed"}
ReportTypes == {"node.succeeded", "node.failed"}

\* Nothing is told of a request whose plan has not been handed to execute().
Unheard == Planning \/ stage = "compile"

\* An entry about a node says what became of the node.
Truthful(entry) ==
  entry[1] \in ReportTypes =>
    /\ entry[2] \in Node
    /\ entry[1] = "node.succeeded" => node[entry[2]] \in {"succeeded", "skipped"}
    /\ entry[1] = "node.failed" => node[entry[2]] = "failed"

\* Of two entries about nodes, no two are of one node, and a node is told of after
\* those it reads.
Ordered(i, j) ==
  trail[i][1] \in ReportTypes /\ trail[j][1] \in ReportTypes =>
    /\ trail[i][2] = trail[j][2] => i = j
    /\ trail[i][2] \in view.edges[trail[j][2]] => i < j /\ trail[i][1] = "node.succeeded"

TrailInv ==
  /\ Unheard => trail = <<>>
  /\ ~Unheard => trail # <<>>
  /\ \A i \in 1 .. Len(trail) : trail[i][1] = "plan.started" <=> i = 1
  /\ \A i \in 1 .. Len(trail) : Truthful(trail[i])
  /\ \A i, j \in 1 .. Len(trail) : Ordered(i, j)
  /\ (\E i \in 1 .. Len(trail) : trail[i][1] \in EndTypes) <=> Finished /\ stage # "compile"
  /\ \A i, j \in 1 .. Len(trail) : trail[i][1] \in EndTypes /\ trail[j][1] \in EndTypes => i = j
  /\ \A i \in 1 .. Len(trail) : trail[i][1] \in EndTypes =>
       (trail[i][1] = "plan.succeeded" <=> phase = "succeeded")
  /\ \A i, e \in 1 .. Len(trail) :
       trail[i][1] \in ReportTypes /\ trail[e][1] \in EndTypes /\ e < i =>
         phase = "failed" /\ trail[i][2] \in layer

----------------------------------------------------------------------------
(* Steps that tell nothing, and steps that tell one thing.                 *)

Settled(n) == node[n] \in {"succeeded", "skipped", "failed"}

\* A step after which the trail is as it was, settled nodes are as they were, and the
\* request is finished if and as it was.
LEMMA QuietStep ==
  ASSUME TrailInv, trail' = trail, view' = view, Unheard' <=> Unheard,
         Finished' /\ stage' # "compile" <=> Finished /\ stage # "compile",
         ~Unheard /\ Finished => phase' = phase /\ layer' = layer,
         \A n \in Node : Settled(n) => node'[n] = node[n]
  PROVE  TrailInv'
<1>1. (\A i \in 1 .. Len(trail) : Truthful(trail[i]))'
  BY DEF TrailInv, Truthful, Settled, ReportTypes
<1>2. (\A i, j \in 1 .. Len(trail) : Ordered(i, j))'
  BY DEF TrailInv, Ordered
<1> QED BY <1>1, <1>2 DEF TrailInv, Finished, Unheard, Planning

\* What an entry at the end of the trail leaves alone.
LEMMA Told ==
  ASSUME TypeOK, NEW entry \in Events, trail' = Append(trail, entry)
  PROVE  /\ Len(trail) \in Nat
         /\ Len(trail') = Len(trail) + 1
         /\ \A i \in 1 .. Len(trail) : trail'[i] = trail[i]
         /\ trail'[Len(trail) + 1] = entry
         /\ trail' # <<>>
BY DEF TypeOK

\* A node in flight is one of the current layer, and all it reads is committed.
LEMMA InFlightIsOfLayer ==
  ASSUME IInv, NEW n \in Node, node[n] \in {"running", "applied"}
  PROVE  /\ n \in layer
         /\ ~Unheard
         /\ phase = "running" \/ phase = "failed"
         /\ \A m \in view.edges[n] : m \in Node /\ node[m] \in {"succeeded", "skipped"}
<1>1. n \in Started
  BY DEF Started
<1>2. n \in layer
  BY <1>1 DEF IInv, Layered
<1>3. ~Unheard /\ (phase = "running" \/ phase = "failed")
  BY <1>1, <1>2 DEF IInv, NothingRanYet, Unheard, Planning, Outcome, TypeOK, Phases
<1>4. view.edges[n] \subseteq state
  BY <1>1, SnapshotIsClosed
<1>5. state \subseteq Node
  BY DEF IInv, TypeOK, View
<1> QED BY <1>2, <1>3, <1>4, <1>5 DEF IInv, Layered

\* A node settles: its entry comes after those of all it reads, and after plan.failed
\* only if it is of the layer that failed.
LEMMA SettleTells ==
  ASSUME IInv, TrailInv, NEW n \in Node, Settle(n)
  PROVE  TrailInv'
<1>1. PICK t \in ReportTypes :
        /\ trail' = Append(trail, <<t, n>>)
        /\ node[n] \in {"running", "applied"}
        /\ t = "node.succeeded" => node'[n] \in {"succeeded", "skipped"}
        /\ t = "node.failed" => node'[n] = "failed"
        /\ \A m \in Node \ {n} : node'[m] = node[m]
        /\ UNCHANGED <<view, phase, stage, layer>>
  BY DEF Settle, NodeSucceeds, NodeFails, ReportTypes, IInv, TypeOK
<1>2. <<t, n>> \in Events
  BY DEF Events, EventTypes, ReportTypes
<1> DEFINE last == Len(trail) + 1
<1>3. /\ Len(trail) \in Nat /\ Len(trail') = last /\ trail' # <<>>
      /\ \A i \in 1 .. Len(trail) : trail'[i] = trail[i]
      /\ trail'[last] = <<t, n>>
  BY <1>1, <1>2, Told DEF IInv
<1>4. /\ n \in layer /\ ~Unheard
      /\ phase = "running" \/ phase = "failed"
      /\ \A m \in view.edges[n] : m \in Node /\ node[m] \in {"succeeded", "skipped"}
  BY <1>1, InFlightIsOfLayer
<1>5. trail'[last][1] = t /\ trail'[last][2] = n
  BY <1>3
<1>6. t \notin EndTypes /\ t # "plan.started" /\ t \in ReportTypes
  BY DEF ReportTypes, EndTypes
<1>7. \A i \in 1 .. last : i \in 1 .. Len(trail) \/ i = last
  BY <1>3
<1>8. \A i \in 1 .. Len(trail) : trail[i][1] \in ReportTypes =>
        /\ trail[i][2] \in Node \ {n} /\ node'[trail[i][2]] = node[trail[i][2]]
        /\ node[trail[i][2]] \in {"succeeded", "skipped", "failed"}
  BY <1>1 DEF TrailInv, Truthful, ReportTypes
<1>9. (\A i \in 1 .. Len(trail) : Truthful(trail[i]))'
  <2> SUFFICES ASSUME NEW i \in 1 .. last PROVE Truthful(trail[i])'
    BY <1>3
  <2>1. CASE i = last
    BY <2>1, <1>1, <1>5 DEF Truthful
  <2>2. CASE i \in 1 .. Len(trail)
    <3>1. Truthful(trail[i]) /\ trail'[i] = trail[i]
      BY <2>2, <1>3 DEF TrailInv
    <3> QED BY <2>2, <3>1, <1>8 DEF Truthful
  <2> QED BY <2>1, <2>2, <1>7
<1>10. (\A i, j \in 1 .. Len(trail) : Ordered(i, j))'
  <2> SUFFICES ASSUME NEW i \in 1 .. last, NEW j \in 1 .. last PROVE Ordered(i, j)'
    BY <1>3
  <2>1. CASE i \in 1 .. Len(trail) /\ j \in 1 .. Len(trail)
    <3>1. Ordered(i, j)
      BY <2>1 DEF TrailInv
    <3> QED BY <2>1, <3>1, <1>1, <1>3 DEF Ordered
  <2>2. CASE i = last /\ j \in 1 .. Len(trail)
    <3>1. ASSUME trail[j][1] \in ReportTypes, n \in view.edges[trail[j][2]] PROVE FALSE
      <4> DEFINE k == trail[j][2]
      <4>1. k \in Started
        BY <2>2, <3>1, <1>8 DEF Started
      <4>2. n \in state
        BY <3>1, <4>1, SnapshotIsClosed
      <4> QED BY <4>2, <1>1 DEF IInv, Layered
    <3>2. trail'[j] = trail[j] /\ j < last
      BY <2>2, <1>3
    <3> QED BY <2>2, <3>1, <3>2, <1>1, <1>5, <1>8 DEF Ordered
  <2>3. CASE i \in 1 .. Len(trail) /\ j = last
    <3>1. trail'[i] = trail[i] /\ i < last
      BY <2>3, <1>3
    <3>2. ASSUME trail[i][1] \in ReportTypes, trail[i][2] \in view.edges[n]
          PROVE  trail[i][1] = "node.succeeded"
      <4>1. node[trail[i][2]] \in {"succeeded", "skipped"}
        BY <3>2, <1>4
      <4> QED BY <2>3, <3>2, <4>1 DEF TrailInv, Truthful, ReportTypes
    <3> QED BY <2>3, <3>1, <3>2, <1>1, <1>5, <1>8 DEF Ordered
  <2>4. CASE i = last /\ j = last
    <3>1. n \notin view.edges[n]
      BY <1>1, <1>4
    <3> QED BY <2>4, <3>1, <1>1, <1>5 DEF Ordered
  <2> QED BY <2>1, <2>2, <2>3, <2>4, <1>7
<1>11. \A i \in 1 .. last : trail'[i][1] \in EndTypes => i \in 1 .. Len(trail) /\ trail'[i] = trail[i]
  BY <1>3, <1>5, <1>6, <1>7
<1>12. (\E i \in 1 .. last : trail'[i][1] \in EndTypes) <=> Finished' /\ stage' # "compile"
  <2>1. (\E i \in 1 .. last : trail'[i][1] \in EndTypes)
          <=> (\E i \in 1 .. Len(trail) : trail[i][1] \in EndTypes)
    BY <1>3, <1>11
  <2> QED BY <2>1, <1>1 DEF TrailInv, Finished
<1>13. \A i \in 1 .. last : trail'[i][1] = "plan.started" <=> i = 1
  <2>1. Len(trail) > 0
    BY <1>3, <1>4 DEF TrailInv, IInv, TypeOK
  <2> QED BY <2>1, <1>3, <1>5, <1>6, <1>7 DEF TrailInv
<1>14. \A i, e \in 1 .. last :
         trail'[i][1] \in ReportTypes /\ trail'[e][1] \in EndTypes /\ e < i =>
           phase' = "failed" /\ trail'[i][2] \in layer'
  <2> SUFFICES ASSUME NEW i \in 1 .. last, NEW e \in 1 .. last,
                      trail'[i][1] \in ReportTypes, trail'[e][1] \in EndTypes, e < i
               PROVE  phase = "failed" /\ trail'[i][2] \in layer
    BY <1>1
  <2>1. e \in 1 .. Len(trail) /\ trail[e][1] \in EndTypes
    BY <1>11
  <2>2. CASE i = last
    BY <2>1, <2>2, <1>4, <1>5 DEF TrailInv, Finished
  <2>3. CASE i \in 1 .. Len(trail)
    BY <2>1, <2>3, <1>3 DEF TrailInv
  <2> QED BY <2>2, <2>3, <1>7
<1>15. /\ \A i, j \in 1 .. last : trail'[i][1] \in EndTypes /\ trail'[j][1] \in EndTypes => i = j
       /\ \A i \in 1 .. last : trail'[i][1] \in EndTypes =>
            (trail'[i][1] = "plan.succeeded" <=> phase' = "succeeded")
  BY <1>1, <1>11 DEF TrailInv
<1>16. ~Unheard'
  BY <1>1, <1>4 DEF Unheard, Planning
<1> QED BY <1>3, <1>9, <1>10, <1>12, <1>13, <1>14, <1>15, <1>16 DEF TrailInv

\* The plan ends while it runs: nothing has ended before, and everything told so far was
\* told before.
LEMMA EndTells ==
  ASSUME IInv, TrailInv, NEW t \in EndTypes, phase = "running",
         phase' = (IF t = "plan.succeeded" THEN "succeeded" ELSE "failed"),
         stage' # "compile",
         trail' = Append(trail, <<t, NoNode>>), view' = view, node' = node
  PROVE  TrailInv'
<1>1. <<t, NoNode>> \in Events
  BY DEF Events, EventTypes, EndTypes
<1> DEFINE last == Len(trail) + 1
<1>2. /\ Len(trail) \in Nat /\ Len(trail') = last /\ trail' # <<>>
      /\ \A i \in 1 .. Len(trail) : trail'[i] = trail[i]
      /\ trail'[last] = <<t, NoNode>>
  BY <1>1, Told DEF IInv
<1>3. trail'[last][1] = t
  BY <1>2
<1>4. t \notin ReportTypes /\ t # "plan.started" /\ t \in EndTypes
  BY DEF ReportTypes, EndTypes
<1>5. \A i \in 1 .. last : i \in 1 .. Len(trail) \/ i = last
  BY <1>2
<1>6. ~Unheard /\ ~Unheard' /\ ~Finished /\ Finished'
  BY DEF Unheard, Planning, Finished, IInv, Outcome, EndTypes
<1>7. \A i \in 1 .. Len(trail) : trail[i][1] \notin EndTypes
  BY <1>6 DEF TrailInv
<1>8. (\A i \in 1 .. Len(trail) : Truthful(trail[i]))'
  BY <1>2, <1>3, <1>4, <1>5 DEF TrailInv, Truthful
<1>9. (\A i, j \in 1 .. Len(trail) : Ordered(i, j))'
  BY <1>2, <1>3, <1>4, <1>5 DEF TrailInv, Ordered
<1>10. \A i \in 1 .. last : trail'[i][1] = "plan.started" <=> i = 1
  <2>1. Len(trail) > 0
    BY <1>2, <1>6 DEF TrailInv, IInv, TypeOK
  <2> QED BY <2>1, <1>2, <1>3, <1>4, <1>5 DEF TrailInv
<1>11. \A i \in 1 .. last : trail'[i][1] \in EndTypes <=> i = last
  BY <1>2, <1>3, <1>4, <1>5, <1>7
<1>12. \A i \in 1 .. last : trail'[i][1] \in EndTypes =>
         (trail'[i][1] = "plan.succeeded" <=> phase' = "succeeded")
  BY <1>3, <1>11
<1>13. last \in 1 .. last /\ \A i \in 1 .. last : ~(last < i)
  BY <1>2
<1> QED BY <1>2, <1>6, <1>8, <1>9, <1>10, <1>11, <1>12, <1>13 DEF TrailInv

\* execute() is entered: the trail begins, and ends at once if the plan has a cycle.
LEMMA ScheduleTells ==
  ASSUME IInv, TrailInv, Schedule
  PROVE  TrailInv'
<1>1. trail = <<>>
  BY DEF TrailInv, Unheard, Planning, Schedule
<1>2. CASE HasCycle(dag)
  <2>1. trail' = <<<<"plan.started", NoNode>>, <<"plan.failed", NoNode>>>>
    BY <1>1, <1>2 DEF Schedule
  <2>2. /\ Len(trail') = 2
        /\ trail'[1][1] = "plan.started" /\ trail'[2][1] = "plan.failed"
        /\ phase' = "failed" /\ stage' = "schedule"
    BY <2>1, <1>2 DEF Schedule
  <2>3. ~Unheard' /\ Finished'
    BY <2>2 DEF Unheard, Planning, Finished
  <2>4. (\A i \in 1 .. Len(trail) : Truthful(trail[i]))'
    BY <2>2 DEF Truthful, ReportTypes
  <2>5. (\A i, j \in 1 .. Len(trail) : Ordered(i, j))'
    BY <2>2 DEF Ordered, ReportTypes
  <2>6. \A i \in 1 .. 2 : i = 1 \/ i = 2
    OBVIOUS
  <2> QED BY <2>1, <2>2, <2>3, <2>4, <2>5, <2>6 DEF TrailInv, ReportTypes, EndTypes
<1>3. CASE ~HasCycle(dag)
  <2>1. trail' = <<<<"plan.started", NoNode>>>>
    BY <1>1, <1>3 DEF Schedule
  <2>2. Len(trail') = 1 /\ trail'[1][1] = "plan.started" /\ phase' = "running"
        /\ stage' = stage
    BY <2>1, <1>3 DEF Schedule
  <2>3. ~Unheard' /\ ~Finished'
    BY <2>2 DEF Unheard, Planning, Finished, IInv, Outcome, Schedule
  <2>4. (\A i \in 1 .. Len(trail) : Truthful(trail[i]))'
    BY <2>2 DEF Truthful, ReportTypes
  <2>5. (\A i, j \in 1 .. Len(trail) : Ordered(i, j))'
    BY <2>2 DEF Ordered, ReportTypes
  <2> QED BY <2>1, <2>2, <2>3, <2>4, <2>5 DEF TrailInv, ReportTypes, EndTypes
<1> QED BY <1>2, <1>3

----------------------------------------------------------------------------
(* Every step, and what the invariant means.                               *)

LEMMA RuntimeTells ==
  ASSUME IInv, TrailInv, Runtime
  PROVE  TrailInv'
<1>1. CASE CompileView
  <2>1. Unheard /\ Unheard' /\ ~(Finished /\ stage # "compile")
        /\ ~(Finished' /\ stage' # "compile")
    BY <1>1 DEF CompileView, Unheard, Planning, Finished
  <2> QED BY <1>1, <2>1, QuietStep DEF CompileView
<1>2. CASE CollectSubmit \/ ChainSubmit
  <2>1. Unheard /\ Unheard' /\ ~Finished /\ ~Finished'
    BY <1>2 DEF CollectSubmit, ChainSubmit, Unheard, Planning, Finished
  <2> QED BY <1>2, <2>1, QuietStep DEF CollectSubmit, ChainSubmit
<1>3. CASE Schedule
  BY <1>3, ScheduleTells
<1>4. CASE StartLayer
  <2>1. ~Finished /\ ~Finished' /\ (Unheard' <=> Unheard)
    BY <1>4 DEF StartLayer, Unheard, Planning, Finished
  <2>2. \A n \in Node : Settled(n) => node'[n] = node[n]
    <3>1. \A n \in NextLayer(dag, state) : n \notin state
      BY DEF NextLayer
    <3>2. \A n \in Node : Settled(n) => n \in state
      BY <1>4 DEF StartLayer, Settled, IInv, Layered, Started
    <3> QED BY <1>4, <3>1, <3>2 DEF StartLayer
  <2> QED BY <1>4, <2>1, <2>2, QuietStep DEF StartLayer
<1>5. CASE CommitLayer
  <2>1. ~Finished /\ ~Finished' /\ (Unheard' <=> Unheard)
    BY <1>5 DEF CommitLayer, Unheard, Planning, Finished
  <2> QED BY <1>5, <2>1, QuietStep DEF CommitLayer
<1>6. CASE RejectPlan
  BY <1>6, EndTells DEF RejectPlan, EndTypes
<1>7. CASE CloneFails
  BY <1>7, EndTells DEF CloneFails, EndTypes
<1>8. CASE ResolveOutput
  <2>1. stage # "compile"
    BY <1>8 DEF ResolveOutput, IInv, Outcome
  <2> QED BY <1>8, <2>1, EndTells DEF ResolveOutput, EndTypes
<1> QED BY <1>1, <1>2, <1>3, <1>4, <1>5, <1>6, <1>7, <1>8 DEF Runtime

LEMMA StepTells == IInv /\ TrailInv /\ [Next]_vars => TrailInv'
<1> SUFFICES ASSUME IInv, TrailInv, [Next]_vars PROVE TrailInv'
  OBVIOUS
<1>1. CASE Runtime
  BY <1>1, RuntimeTells
<1>2. ASSUME NEW n \in Node, AdapterCommits(n) PROVE TrailInv'
  <2>1. \A m \in Node : Settled(m) => node'[m] = node[m]
    BY <1>2 DEF AdapterCommits, Settled, IInv, TypeOK
  <2>2. UNCHANGED <<trail, view, phase, stage, layer>>
    BY <1>2 DEF AdapterCommits
  <2> QED BY <2>1, <2>2, QuietStep DEF Unheard, Planning, Finished
<1>3. ASSUME NEW n \in Node, Settle(n) PROVE TrailInv'
  BY <1>3, SettleTells
<1>4. CASE Terminated \/ UNCHANGED vars
  <2>1. UNCHANGED <<trail, view, phase, stage, layer, node>>
    BY <1>4 DEF Terminated, vars
  <2> QED BY <2>1, QuietStep DEF Unheard, Planning, Finished
<1> QED BY <1>1, <1>2, <1>3, <1>4 DEF Next

\* What the audit observer is told, in whatever order nodes of a layer end and however
\* the plan does: the trail begins with plan.started, ends once and as the caller was
\* answered, reports each node once and after everything it reads, and is followed only
\* by siblings of the layer that failed.
THEOREM TrailsTellTheStory == Spec => []TrailTellsTheStory
<1>1. Init => TrailInv
  BY DEF Init, TrailInv, Unheard, Planning, Finished
<1>2. TypeOK /\ TrailInv => TrailTellsTheStory
  <2> SUFFICES ASSUME TypeOK, TrailInv PROVE TrailTellsTheStory
    OBVIOUS
  <2>1. DOMAIN trail = 1 .. Len(trail)
    BY DEF TypeOK
  <2> QED BY <2>1 DEF TrailTellsTheStory, TrailInv, Ordered, EndTypes, ReportTypes
<1>3. IInv => TypeOK
  BY DEF IInv
<1> QED BY <1>1, <1>2, <1>3, Invariant, StepTells, PTL DEF Spec

-----------------------------------------------------------------------------
-----------------------------------------------------------------------------
(* The searches.                                                           *)

LEMMA LeastNumber ==
  ASSUME NEW S \in SUBSET Nat, S # {}
  PROVE  \E n \in S : \A m \in S : n <= m
<1>1. PICK n \in S : \A m \in S : <<m, n>> \notin OpToRel(<, Nat)
  BY NatLessThanWellFounded, WFMin
<1>2. ASSUME NEW m \in S PROVE n <= m
  <2>1. ~(m < n)
    BY <1>1 DEF OpToRel
  <2> QED BY <2>1
<1> QED BY <1>2

\* Induction, over a set of numbers.
LEMMA EveryNumber ==
  ASSUME NEW S, 0 \in S, \A n \in Nat : n \in S => n + 1 \in S
  PROVE  Nat \subseteq S
<1>1. SUFFICES ASSUME Nat \ S # {} PROVE FALSE
  OBVIOUS
<1>2. PICK m \in Nat \ S : \A k \in Nat \ S : m <= k
  <2>1. Nat \ S \in SUBSET Nat
    OBVIOUS
  <2> QED BY <1>1, <2>1, LeastNumber
<1>3. m - 1 \in Nat /\ (m - 1) + 1 = m
  BY <1>2
<1>4. m - 1 \in S
  BY <1>2, <1>3
<1> QED BY <1>2, <1>3, <1>4

LEMMA NodeFinite == IsFiniteSet(Node)
<1>1. Order \in Seq(Node) /\ Range(Order) = Node
  BY OrderAssumption
<1>2. Len(Order) \in Nat /\ Order \in Surjection(1 .. Len(Order), Node)
  BY <1>1 DEF Surjection, Range
<1>3. IsFiniteSet(1 .. Len(Order))
  BY <1>2, FS_Interval
<1> QED BY <1>2, <1>3, FS_Surjection

\* The head of a stable order is one of those that are ordered.
LEMMA FirstIs ==
  ASSUME NEW S \in SUBSET Node, S # {}
  PROVE  First(S) \in S
<1> DEFINE I == {i \in DOMAIN Order : Order[i] \in S}
<1>1. Order \in Seq(Node) /\ Range(Order) = Node
  BY OrderAssumption
<1>2. DOMAIN Order = 1 .. Len(Order) /\ Len(Order) \in Nat
  BY <1>1
<1>3. I # {} /\ I \in SUBSET Nat
  BY <1>1, <1>2 DEF Range
<1>4. PICK i \in I : \A j \in I : i <= j
  BY <1>3, LeastNumber
<1>5. \A j \in 1 .. i - 1 : Order[j] \notin S
  BY <1>2, <1>4
<1> QED BY <1>4, <1>5 DEF First

\* Of any number of turns of a search there is a record.
Recorded(f, start, turns) == f = [k \in 0 .. turns |-> IF k = 0 THEN start ELSE Turn(f[k - 1])]

LEMMA TurnsExist ==
  ASSUME NEW start, NEW turns \in Nat
  PROVE  \E f : Recorded(f, start, turns)
<1> DEFINE Good(f, m) == f = [k \in 0 .. m |-> IF k = 0 THEN start ELSE Turn(f[k - 1])]
           S == {m \in Nat : \E f : Good(f, m)}
<1>1. 0 \in S
  <2>1. Good([k \in 0 .. 0 |-> start], 0)
    OBVIOUS
  <2> QED BY <2>1
<1>2. ASSUME NEW m \in Nat, m \in S PROVE m + 1 \in S
  <2>1. PICK f : Good(f, m)
    BY <1>2
  <2> DEFINE g == [k \in 0 .. m + 1 |-> IF k = m + 1 THEN Turn(f[m]) ELSE f[k]]
  <2>2. ASSUME NEW k \in 0 .. m + 1
        PROVE  g[k] = IF k = 0 THEN start ELSE Turn(g[k - 1])
    <3>1. CASE k = 0
      BY <2>1, <3>1
    <3>2. CASE k \in 1 .. m
      <4>1. k - 1 \in 0 .. m /\ k \in 0 .. m /\ k # 0 /\ g[k] = f[k] /\ g[k - 1] = f[k - 1]
        BY <3>2
      <4>2. f[k] = Turn(f[k - 1])
        BY <2>1, <4>1
      <4> QED BY <4>1, <4>2
    <3>3. CASE k = m + 1
      <4>1. k - 1 = m /\ m \in 0 .. m + 1 /\ m # m + 1 /\ k # 0
        BY <3>3
      <4>2. g[m] = f[m] /\ g[k] = Turn(f[m])
        BY <3>3, <4>1
      <4> QED BY <4>1, <4>2
    <3> QED BY <3>1, <3>2, <3>3
  <2>3. Good(g, m + 1)
    BY <2>2
  <2> HIDE DEF g
  <2> QED BY <2>3
<1> HIDE DEF Good
<1>3. Nat \subseteq S
  BY <1>1, <1>2, EveryNumber
<1> QED BY <1>3 DEF Good, Recorded

\* A set of nodes that each depend on one of it.
Knot(edges, S) == S # {} /\ \A n \in S : edges[n] \cap S # {}

\* Where the search of detectCycle is, as long as it has found no cycle: the trail is a
\* walk without repetition; what was returned from depends on what was returned from,
\* and is in no knot; of a node on the trail, a dependency that was looked at has been
\* returned from or is next on the trail.
Consistent(edges, visited, path, left, roots) ==
  /\ visited \subseteq DOMAIN edges /\ roots \subseteq DOMAIN edges
  /\ path \in Seq(DOMAIN edges)
  /\ left \in [DOMAIN edges -> SUBSET DOMAIN edges]
  /\ \A n \in DOMAIN edges : left[n] \subseteq edges[n]
  /\ \A i, j \in 1 .. Len(path) : path[i] = path[j] => i = j
  /\ \A i \in 1 .. Len(path) : path[i] \notin visited
  /\ \A i \in 1 .. Len(path) - 1 : path[i + 1] \in edges[path[i]]
  /\ \A n \in visited : edges[n] \subseteq visited
  /\ \A S \in SUBSET DOMAIN edges : Knot(edges, S) => S \cap visited = {}
  /\ \A i \in 1 .. Len(path) : \A d \in edges[path[i]] \ left[path[i]] :
       d \in visited \/ (i < Len(path) /\ d = path[i + 1])
  /\ \A n \in DOMAIN edges \ visited : (\A i \in 1 .. Len(path) : path[i] # n) => left[n] = edges[n]
  /\ \A n \in DOMAIN edges \ roots : n \in visited \/ \E i \in 1 .. Len(path) : path[i] = n

\* The loop that runs takes n: the outer one, or that of the last node on the trail.
Takes(edges, path, left, roots, n, more, others) ==
  \/ path = << >> /\ n \in roots /\ more = left /\ others = roots \ {n}
  \/ /\ path # << >> /\ n \in left[path[Len(path)]] /\ others = roots
     /\ more = [left EXCEPT ![path[Len(path)]] = @ \ {n}]

LEMMA SkipKeeps ==
  ASSUME NEW edges, Graph(edges), NEW visited, NEW path, NEW left, NEW roots,
         Consistent(edges, visited, path, left, roots),
         NEW n \in visited, NEW more, NEW others,
         Takes(edges, path, left, roots, n, more, others)
  PROVE  Consistent(edges, visited, path, more, others)
<1>1. CASE path = << >>
  BY <1>1 DEF Takes, Consistent
<1>2. CASE path # << >>
  <2> DEFINE m == path[Len(path)]
  <2>1. /\ others = roots /\ more = [left EXCEPT ![m] = @ \ {n}]
        /\ path \in Seq(DOMAIN edges) /\ Len(path) \in 1 .. Len(path) /\ m \in DOMAIN edges
    BY <1>2 DEF Takes, Consistent
  <2>2. /\ more \in [DOMAIN edges -> SUBSET DOMAIN edges]
        /\ \A k \in DOMAIN edges : more[k] = IF k = m THEN left[k] \ {n} ELSE left[k]
    BY <2>1 DEF Consistent
  <2>3. \A k \in DOMAIN edges : more[k] \subseteq edges[k]
    BY <2>2 DEF Consistent
  <2>4. \A i \in 1 .. Len(path) : \A d \in edges[path[i]] \ more[path[i]] :
          d \in visited \/ (i < Len(path) /\ d = path[i + 1])
    BY <2>1, <2>2 DEF Consistent
  <2>5. \A k \in DOMAIN edges \ visited :
          (\A i \in 1 .. Len(path) : path[i] # k) => more[k] = edges[k]
    BY <2>1, <2>2 DEF Consistent
  <2> QED BY <2>1, <2>2, <2>3, <2>4, <2>5 DEF Consistent
<1> QED BY <1>1, <1>2

LEMMA PushKeeps ==
  ASSUME NEW edges, Graph(edges), NEW visited, NEW path, NEW left, NEW roots,
         Consistent(edges, visited, path, left, roots),
         NEW n \in DOMAIN edges \ visited, NEW more, NEW others,
         \A i \in 1 .. Len(path) : path[i] # n,
         Takes(edges, path, left, roots, n, more, others)
  PROVE  Consistent(edges, visited, Append(path, n), more, others)
<1> DEFINE longer == Append(path, n)
           l == Len(path)
<1>1. /\ path \in Seq(DOMAIN edges) /\ l \in Nat
      /\ longer \in Seq(DOMAIN edges) /\ Len(longer) = l + 1
      /\ longer[l + 1] = n /\ \A i \in 1 .. l : longer[i] = path[i] /\ path[i] \in DOMAIN edges
  BY DEF Consistent
<1>2. /\ more \in [DOMAIN edges -> SUBSET DOMAIN edges] /\ others \subseteq DOMAIN edges
      /\ \A k \in DOMAIN edges : more[k] \subseteq edges[k]
      /\ \A k \in DOMAIN edges : more[k] # left[k] => l > 0 /\ k = path[l] /\ n \in edges[k]
                                                      /\ more[k] = left[k] \ {n}
      /\ l > 0 => n \in edges[path[l]]
      /\ \A k \in roots \ others : k = n
  <2>1. CASE path = << >>
    <3>1. l = 0 /\ more = left /\ others = roots \ {n}
      BY <2>1 DEF Takes
    <3> QED BY <3>1 DEF Consistent
  <2>2. CASE path # << >>
    <3> DEFINE m == path[l]
    <3>1. /\ others = roots /\ more = [left EXCEPT ![m] = @ \ {n}] /\ n \in left[m]
      BY <2>2 DEF Takes
    <3>2. l > 0 /\ m \in DOMAIN edges
      BY <1>1, <2>2
    <3> QED BY <3>1, <3>2 DEF Consistent
  <2> QED BY <2>1, <2>2
<1> HIDE DEF longer
<1>3. \A i, j \in 1 .. l + 1 : longer[i] = longer[j] => i = j
  <2>1. \A i \in 1 .. l + 1 : i = l + 1 \/ i \in 1 .. l
    BY <1>1
  <2> QED BY <1>1, <2>1 DEF Consistent
<1>4. \A i \in 1 .. l + 1 : longer[i] \notin visited
  <2>1. \A i \in 1 .. l + 1 : i = l + 1 \/ i \in 1 .. l
    BY <1>1
  <2> QED BY <1>1, <2>1 DEF Consistent
<1>5. ASSUME NEW i \in 1 .. l PROVE longer[i + 1] \in edges[longer[i]]
  <2>1. CASE i = l
    BY <1>1, <1>2, <2>1
  <2>2. CASE i # l
    <3>1. i \in 1 .. l - 1 /\ i + 1 \in 1 .. l
      BY <1>1, <2>2
    <3> QED BY <1>1, <3>1 DEF Consistent
  <2> QED BY <2>1, <2>2
<1>6. ASSUME NEW i \in 1 .. l + 1, NEW d \in edges[longer[i]] \ more[longer[i]]
      PROVE  d \in visited \/ (i < l + 1 /\ d = longer[i + 1])
  <2>1. CASE i = l + 1
    <3>1. more[n] = left[n]
      BY <1>1, <1>2
    <3>2. left[n] = edges[n]
      BY DEF Consistent
    <3> QED BY <1>1, <1>6, <2>1, <3>1, <3>2
  <2>2. CASE i = l /\ l > 0
    <3>1. i \in 1 .. l /\ longer[i] = path[i] /\ longer[i + 1] = n
      BY <1>1, <2>2
    <3>2. CASE d = n
      BY <1>1, <2>2, <3>1, <3>2
    <3>3. CASE d # n
      <4>1. d \in edges[path[i]] \ left[path[i]]
        BY <1>1, <1>2, <1>6, <3>1, <3>3
      <4> QED BY <1>1, <2>2, <3>1, <4>1 DEF Consistent
    <3> QED BY <3>2, <3>3
  <2>3. CASE i \in 1 .. l /\ i # l
    <3>1. i + 1 \in 1 .. l /\ l \in 1 .. l /\ longer[i] = path[i] /\ longer[i + 1] = path[i + 1]
      BY <1>1, <2>3
    <3>2. path[i] # path[l]
      BY <2>3, <3>1 DEF Consistent
    <3>3. more[path[i]] = left[path[i]]
      BY <1>1, <1>2, <2>3, <3>2
    <3> QED BY <1>1, <1>6, <2>3, <3>1, <3>3 DEF Consistent
  <2> QED BY <1>1, <2>1, <2>2, <2>3
<1>7. ASSUME NEW k \in DOMAIN edges \ visited, \A i \in 1 .. l + 1 : longer[i] # k
      PROVE  more[k] = edges[k]
  <2>1. \A i \in 1 .. l : path[i] # k
    BY <1>1, <1>7
  <2>2. more[k] = left[k]
    BY <1>1, <1>2, <2>1
  <2> QED BY <2>1, <2>2 DEF Consistent
<1>8. ASSUME NEW k \in DOMAIN edges \ others
      PROVE  k \in visited \/ \E i \in 1 .. l + 1 : longer[i] = k
  <2>1. CASE k \in roots
    <3>1. k = n /\ l + 1 \in 1 .. l + 1
      BY <1>1, <1>2, <2>1, <1>8
    <3> QED BY <1>1, <3>1
  <2>2. CASE k \notin roots
    <3>1. k \in visited \/ \E i \in 1 .. l : path[i] = k
      BY <2>2 DEF Consistent
    <3>2. \A i \in 1 .. l : i \in 1 .. l + 1
      BY <1>1
    <3> QED BY <1>1, <3>1, <3>2
  <2> QED BY <2>1, <2>2
<1>9. /\ visited \subseteq DOMAIN edges
      /\ \A k \in visited : edges[k] \subseteq visited
      /\ \A S \in SUBSET DOMAIN edges : Knot(edges, S) => S \cap visited = {}
  BY DEF Consistent
<1>10. Len(longer) - 1 = l
  BY <1>1
<1> HIDE DEF l
<1>11. Consistent(edges, visited, longer, more, others)
  BY <1>1, <1>2, <1>3, <1>4, <1>5, <1>6, <1>7, <1>8, <1>9, <1>10 DEF Consistent
<1> QED BY <1>11 DEF longer

\* Part of a sequence.
LEMMA PartIs ==
  ASSUME NEW S, NEW s \in Seq(S), NEW i \in 1 .. Len(s), NEW j \in Nat, i - 1 <= j, j <= Len(s)
  PROVE  LET part == SubSeq(s, i, j)
         IN  /\ part \in Seq(S) /\ Len(part) = j - i + 1
             /\ \A k \in 1 .. j - i + 1 : part[k] = s[i + k - 1] /\ i + k - 1 \in 1 .. Len(s)
<1> DEFINE part == SubSeq(s, i, j)
           n == j - i + 1
<1>1. Len(s) \in Nat /\ n \in Nat /\ \A k \in 1 .. n : i + k - 1 \in 1 .. Len(s)
  OBVIOUS
<1>2. part = [k \in 1 .. n |-> s[i + k - 1]]
  BY <1>1
<1>3. \A k \in 1 .. n : s[i + k - 1] \in S
  BY <1>1
<1> HIDE DEF n
<1>4. part \in [1 .. n -> S]
  BY <1>2, <1>3
<1>5. part \in Seq(S) /\ Len(part) = n
  BY <1>1, <1>4
<1> QED BY <1>1, <1>2, <1>5 DEF n

LEMMA ReturnKeeps ==
  ASSUME NEW edges, Graph(edges), NEW visited, NEW path, NEW left, NEW roots,
         Consistent(edges, visited, path, left, roots),
         path # << >>, left[path[Len(path)]] = {}
  PROVE  Consistent(edges, visited \cup {path[Len(path)]}, SubSeq(path, 1, Len(path) - 1), left, roots)
<1> DEFINE l == Len(path)
           n == path[l]
           more == visited \cup {n}
           shorter == SubSeq(path, 1, l - 1)
<1>1. /\ path \in Seq(DOMAIN edges) /\ l \in Nat /\ l > 0 /\ l \in 1 .. l /\ n \in DOMAIN edges
      /\ shorter \in Seq(DOMAIN edges) /\ Len(shorter) = l - 1
      /\ \A i \in 1 .. l - 1 : shorter[i] = path[i] /\ i \in 1 .. l
  <2>1. path \in Seq(DOMAIN edges) /\ l \in Nat /\ l > 0 /\ l \in 1 .. l /\ n \in DOMAIN edges
    BY DEF Consistent
  <2>2. 1 \in 1 .. l /\ l - 1 \in Nat /\ 1 - 1 <= l - 1 /\ l - 1 <= l /\ (l - 1) - 1 + 1 = l - 1
    BY <2>1
  <2> HIDE DEF n
  <2>3. /\ shorter \in Seq(DOMAIN edges) /\ Len(shorter) = l - 1
        /\ \A i \in 1 .. l - 1 : shorter[i] = path[1 + i - 1]
    BY <2>1, <2>2, PartIs
  <2>4. \A i \in 1 .. l - 1 : 1 + i - 1 = i /\ i \in 1 .. l
    BY <2>1
  <2> QED BY <2>1, <2>3, <2>4
<1>2. n \notin visited /\ left[n] = {} /\ edges[n] \subseteq visited
  BY <1>1 DEF Consistent
<1>3. \A i \in 1 .. l - 1 : path[i] # n
  BY <1>1 DEF Consistent
<1>4. ASSUME NEW S \in SUBSET DOMAIN edges, Knot(edges, S) PROVE S \cap more = {}
  <2>1. S \cap visited = {}
    BY <1>4 DEF Consistent
  <2>2. n \notin S
    BY <1>2, <1>4, <2>1 DEF Knot
  <2> QED BY <2>1, <2>2
<1>5. /\ more \subseteq DOMAIN edges
      /\ \A k \in more : edges[k] \subseteq more
      /\ roots \subseteq DOMAIN edges /\ left \in [DOMAIN edges -> SUBSET DOMAIN edges]
      /\ \A k \in DOMAIN edges : left[k] \subseteq edges[k]
  BY <1>1, <1>2 DEF Consistent
<1> HIDE DEF shorter
<1>6. /\ \A i, j \in 1 .. l - 1 : shorter[i] = shorter[j] => i = j
      /\ \A i \in 1 .. l - 1 : shorter[i] \notin more
  BY <1>1, <1>3 DEF Consistent
<1>7. ASSUME NEW i \in 1 .. l - 2 PROVE shorter[i + 1] \in edges[shorter[i]]
  <2>1. i \in 1 .. l - 1 /\ i + 1 \in 1 .. l - 1
    BY <1>1
  <2> QED BY <1>1, <2>1 DEF Consistent
<1>8. ASSUME NEW i \in 1 .. l - 1, NEW d \in edges[shorter[i]] \ left[shorter[i]]
      PROVE  d \in more \/ (i < l - 1 /\ d = shorter[i + 1])
  <2>1. d \in visited \/ (i < l /\ d = path[i + 1])
    BY <1>1, <1>8 DEF Consistent
  <2>2. CASE i = l - 1
    BY <1>1, <2>1, <2>2
  <2>3. CASE i # l - 1
    <3>1. i + 1 \in 1 .. l - 1
      BY <1>1, <2>3
    <3> QED BY <1>1, <2>1, <3>1
  <2> QED BY <2>2, <2>3
<1>9. ASSUME NEW k \in DOMAIN edges \ more, \A i \in 1 .. l - 1 : shorter[i] # k
       PROVE  left[k] = edges[k]
  <2>1. \A i \in 1 .. l : path[i] # k
    <3>1. \A i \in 1 .. l : i = l \/ i \in 1 .. l - 1
      BY <1>1
    <3> QED BY <1>1, <1>9, <3>1
  <2> QED BY <1>9, <2>1 DEF Consistent
<1>10. ASSUME NEW k \in DOMAIN edges \ roots
       PROVE  k \in more \/ \E i \in 1 .. l - 1 : shorter[i] = k
  <2>1. \A i \in 1 .. l : i = l \/ i \in 1 .. l - 1
    BY <1>1
  <2>2. k \in visited \/ \E i \in 1 .. l : path[i] = k
    BY DEF Consistent
  <2> QED BY <1>1, <2>1, <2>2
<1>11. Len(shorter) - 1 = l - 2
  BY <1>1
<1>12. Consistent(edges, more, shorter, left, roots)
  <2> HIDE DEF more, l
  <2> QED BY <1>1, <1>4, <1>5, <1>6, <1>7, <1>8, <1>9, <1>10, <1>11 DEF Consistent
<1> QED BY <1>12 DEF shorter

\* What detectCycle reports: a walk along dependencies that ends where it began.
Round(edges, cycle) ==
  /\ cycle \in Seq(DOMAIN edges) /\ Len(cycle) > 1 /\ cycle[1] = cycle[Len(cycle)]
  /\ \A i \in 1 .. Len(cycle) - 1 : cycle[i + 1] \in edges[cycle[i]]

LEMMA TrailCloses ==
  ASSUME NEW edges, Graph(edges), NEW visited, NEW path, NEW left, NEW roots,
         Consistent(edges, visited, path, left, roots),
         NEW i \in 1 .. Len(path), path[i] \in edges[path[Len(path)]]
  PROVE  Round(edges, Append(SubSeq(path, i, Len(path)), path[i]))
<1> DEFINE l == Len(path)
           part == SubSeq(path, i, l)
           cycle == Append(part, path[i])
           n == l - i + 1
<1>1. /\ path \in Seq(DOMAIN edges) /\ l \in Nat /\ l > 0 /\ path[i] \in DOMAIN edges
      /\ part \in Seq(DOMAIN edges) /\ Len(part) = n /\ n \in Nat /\ n > 0
      /\ \A j \in 1 .. n : part[j] = path[i + j - 1]
  <2>1. path \in Seq(DOMAIN edges) /\ l \in Nat /\ l > 0 /\ path[i] \in DOMAIN edges
    BY DEF Consistent
  <2>2. n \in Nat /\ n > 0 /\ i - 1 <= l /\ l <= l
    BY <2>1
  <2> QED BY <2>1, <2>2, PartIs
<1> HIDE DEF part
<1>2. /\ cycle \in Seq(DOMAIN edges) /\ Len(cycle) = n + 1 /\ cycle[n + 1] = path[i]
      /\ \A j \in 1 .. n : cycle[j] = path[i + j - 1]
  <2> HIDE DEF n
  <2>1. /\ cycle \in Seq(DOMAIN edges) /\ Len(cycle) = n + 1 /\ cycle[n + 1] = path[i]
        /\ \A j \in 1 .. n : cycle[j] = part[j]
    BY <1>1
  <2> QED BY <1>1, <2>1
<1>3. cycle[1] = path[i]
  <2>1. 1 \in 1 .. n /\ i + 1 - 1 = i
    BY <1>1
  <2> QED BY <1>2, <2>1
<1>4. ASSUME NEW j \in 1 .. n PROVE cycle[j + 1] \in edges[cycle[j]]
  <2>1. CASE j = n
    <3>1. i + j - 1 = l /\ j \in 1 .. n
      BY <1>1, <2>1
    <3> QED BY <1>2, <2>1, <3>1
  <2>2. CASE j # n
    <3> DEFINE k == i + j - 1
    <3>1. j + 1 \in 1 .. n /\ k \in 1 .. l - 1 /\ i + (j + 1) - 1 = k + 1
      <4> HIDE DEF l
      <4> QED BY <1>1, <2>2
    <3>2. cycle[j] = path[k] /\ cycle[j + 1] = path[k + 1]
      BY <1>2, <3>1
    <3>3. path[k + 1] \in edges[path[k]]
      BY <3>1 DEF Consistent
    <3> QED BY <3>2, <3>3
  <2> QED BY <2>1, <2>2
<1>5. Len(cycle) - 1 = n /\ Len(cycle) > 1
  BY <1>1, <1>2
<1> HIDE DEF cycle, n
<1>6. Round(edges, cycle)
  BY <1>2, <1>3, <1>4, <1>5 DEF Round
<1> QED BY <1>6 DEF cycle, part

\* A walk that returns is a knot.
LEMMA RoundIsKnot ==
  ASSUME NEW edges, Graph(edges), NEW cycle, Round(edges, cycle)
  PROVE  HasCycle(edges)
<1> DEFINE l == Len(cycle)
           S == {cycle[i] : i \in 1 .. l}
<1>1. cycle \in Seq(DOMAIN edges) /\ l \in Nat /\ l > 1 /\ cycle[1] = cycle[l]
  BY DEF Round
<1>2. S \in SUBSET DOMAIN edges /\ S # {}
  BY <1>1
<1>3. ASSUME NEW i \in 1 .. l PROVE edges[cycle[i]] \cap S # {}
  <2>1. CASE i \in 1 .. l - 1
    <3>1. cycle[i + 1] \in edges[cycle[i]] /\ i + 1 \in 1 .. l
      BY <1>1, <2>1 DEF Round
    <3> QED BY <3>1
  <2>2. CASE i = l
    <3>1. 1 \in 1 .. l - 1 /\ 1 + 1 \in 1 .. l /\ cycle[i] = cycle[1]
      BY <1>1, <2>2
    <3>2. cycle[1 + 1] \in edges[cycle[1]]
      BY <3>1 DEF Round
    <3> QED BY <3>1, <3>2
  <2> QED BY <1>1, <2>1, <2>2
<1>4. \A k \in S : edges[k] \cap S # {}
  <2> HIDE DEF l
  <2> QED BY <1>3
<1> HIDE DEF S
<1> QED BY <1>2, <1>4 DEF HasCycle

\* What is left to do: roots and arcs to take, nodes to return from.
Remaining(edges, visited, left, roots) ==
  Cardinality(roots) + Cardinality(Arcs(left)) + Cardinality(DOMAIN edges \ visited)

LEMMA RemainingIsNumber ==
  ASSUME NEW edges, Graph(edges), IsFiniteSet(DOMAIN edges), NEW visited, NEW path, NEW left, NEW roots,
         Consistent(edges, visited, path, left, roots)
  PROVE  /\ IsFiniteSet(roots) /\ IsFiniteSet(Arcs(left)) /\ IsFiniteSet(DOMAIN edges \ visited)
         /\ Cardinality(roots) \in Nat /\ Cardinality(Arcs(left)) \in Nat
         /\ Cardinality(DOMAIN edges \ visited) \in Nat
<1>1. roots \subseteq DOMAIN edges /\ DOMAIN left = DOMAIN edges
  BY DEF Consistent
<1>2. IsFiniteSet((DOMAIN edges) \X (DOMAIN edges))
  BY FS_Product
<1>3. Arcs(left) \subseteq (DOMAIN edges) \X (DOMAIN edges)
  BY <1>1 DEF Arcs
<1>4. IsFiniteSet(roots) /\ IsFiniteSet(Arcs(left)) /\ IsFiniteSet(DOMAIN edges \ visited)
  BY <1>1, <1>2, <1>3, FS_Subset
<1> QED BY <1>4, FS_CardinalityType

LEMMA TakingCounts ==
  ASSUME NEW edges, Graph(edges), IsFiniteSet(DOMAIN edges), NEW visited, NEW path, NEW left, NEW roots,
         Consistent(edges, visited, path, left, roots), NEW n, NEW more, NEW others,
         Takes(edges, path, left, roots, n, more, others)
  PROVE  Remaining(edges, visited, more, others) = Remaining(edges, visited, left, roots) - 1
<1>1. /\ IsFiniteSet(roots) /\ IsFiniteSet(Arcs(left))
      /\ Cardinality(roots) \in Nat /\ Cardinality(Arcs(left)) \in Nat
      /\ Cardinality(DOMAIN edges \ visited) \in Nat
  BY RemainingIsNumber
<1>2. CASE path = << >>
  <2>1. n \in roots /\ more = left /\ others = roots \ {n}
    BY <1>2 DEF Takes
  <2>2. Cardinality(others) = Cardinality(roots) - 1
    BY <1>1, <2>1, FS_RemoveElement
  <2> QED BY <1>1, <2>1, <2>2 DEF Remaining
<1>3. CASE path # << >>
  <2> DEFINE m == path[Len(path)]
  <2>1. others = roots /\ more = [left EXCEPT ![m] = @ \ {n}] /\ n \in left[m]
    BY <1>3 DEF Takes
  <2>2. m \in DOMAIN edges /\ left \in [DOMAIN edges -> SUBSET DOMAIN edges]
    BY <1>3 DEF Consistent
  <2>3. /\ <<m, n>> \in Arcs(left) /\ DOMAIN more = DOMAIN left
        /\ \A k \in DOMAIN left : more[k] = IF k = m THEN left[k] \ {n} ELSE left[k]
    BY <2>1, <2>2 DEF Arcs
  <2>4. Arcs(more) = Arcs(left) \ {<<m, n>>}
    <3>1. ASSUME NEW a \in Arcs(more) PROVE a \in Arcs(left) \ {<<m, n>>}
      BY <2>3 DEF Arcs
    <3>2. ASSUME NEW a \in Arcs(left), a # <<m, n>> PROVE a \in Arcs(more)
      <4>1. PICK x \in DOMAIN left, y \in DOMAIN left : a = <<x, y>> /\ y \in left[x]
        BY DEF Arcs
      <4>2. y \in more[x]
        BY <2>3, <3>2, <4>1
      <4> QED BY <2>3, <4>1, <4>2 DEF Arcs
    <3> QED BY <3>1, <3>2
  <2>5. Cardinality(Arcs(more)) = Cardinality(Arcs(left)) - 1
    <3> DEFINE arc == <<m, n>>
    <3>1. arc \in Arcs(left) /\ Arcs(more) = Arcs(left) \ {arc}
      BY <2>3, <2>4
    <3> HIDE DEF arc
    <3> QED BY <1>1, <3>1, FS_RemoveElement
  <2> QED BY <1>1, <2>1, <2>5 DEF Remaining
<1> QED BY <1>2, <1>3

LEMMA ReturningCounts ==
  ASSUME NEW edges, Graph(edges), IsFiniteSet(DOMAIN edges), NEW visited, NEW path, NEW left, NEW roots,
         Consistent(edges, visited, path, left, roots), path # << >>
  PROVE  Remaining(edges, visited \cup {path[Len(path)]}, left, roots)
           = Remaining(edges, visited, left, roots) - 1
<1> DEFINE m == path[Len(path)]
           S == DOMAIN edges \ visited
<1>1. m \in S
  BY DEF Consistent
<1>2. DOMAIN edges \ (visited \cup {m}) = S \ {m}
  OBVIOUS
<1>3. /\ IsFiniteSet(S) /\ Cardinality(S) \in Nat
      /\ Cardinality(roots) \in Nat /\ Cardinality(Arcs(left)) \in Nat
  BY RemainingIsNumber
<1> HIDE DEF m, S
<1>4. Cardinality(S \ {m}) = Cardinality(S) - 1
  BY <1>1, <1>3, FS_RemoveElement
<1>5. /\ Remaining(edges, visited \cup {m}, left, roots)
           = Cardinality(roots) + Cardinality(Arcs(left)) + Cardinality(S \ {m})
      /\ Remaining(edges, visited, left, roots)
           = Cardinality(roots) + Cardinality(Arcs(left)) + Cardinality(S)
  BY <1>2 DEF Remaining, S
<1>6. Remaining(edges, visited \cup {m}, left, roots) = Remaining(edges, visited, left, roots) - 1
  BY <1>3, <1>4, <1>5
<1> QED BY <1>6 DEF m

\* A state of the search, which has no more than so many turns to go.
Search(visited, path, left, roots, cycle) ==
  [visited |-> visited, trail |-> path, left |-> left, roots |-> roots, cycle |-> cycle]

Searching(edges, s, turns) ==
  /\ s = Search(s.visited, s.trail, s.left, s.roots, s.cycle)
  /\ s.cycle # << >> => Round(edges, s.cycle)
  /\ s.cycle = << >> =>
       /\ Consistent(edges, s.visited, s.trail, s.left, s.roots)
       /\ (s.trail = << >> /\ s.roots = {}) \/ Remaining(edges, s.visited, s.left, s.roots) = turns

\* cycle is what is reported when n is found on the trail.
Closes(path, n, cycle) ==
  \E i \in DOMAIN path : path[i] = n /\ cycle = Append(SubSeq(path, i, Len(path)), n)

LEMMA VisitIs ==
  ASSUME NEW visited, NEW path, NEW left, NEW roots, NEW n
  PROVE  LET s == Search(visited, path, left, roots, << >>)
         IN  /\ n \in visited => Visit(s, n) = s
             /\ n \notin visited /\ n \in Range(path) =>
                  \E cycle : Closes(path, n, cycle) /\ Visit(s, n) = Search(visited, path, left, roots, cycle)
             /\ n \notin visited /\ n \notin Range(path) =>
                  Visit(s, n) = Search(visited, Append(path, n), left, roots, << >>)
<1> DEFINE s == Search(visited, path, left, roots, << >>)
           i == CHOOSE j \in DOMAIN path : path[j] = n
           cycle == Append(SubSeq(path, i, Len(path)), n)
<1>1. n \in visited => Visit(s, n) = s
  BY DEF Visit, Search
<1>2. n \notin visited /\ n \in Range(path) => Visit(s, n) = Search(visited, path, left, roots, cycle)
  BY DEF Visit, Search
<1>3. n \notin visited /\ n \notin Range(path) =>
        Visit(s, n) = Search(visited, Append(path, n), left, roots, << >>)
  BY DEF Visit, Search
<1>4. ASSUME n \in Range(path) PROVE Closes(path, n, cycle)
  <2>1. i \in DOMAIN path /\ path[i] = n
    BY <1>4 DEF Range
  <2> HIDE DEF i
  <2> QED BY <2>1 DEF Closes
<1> HIDE DEF s, i, cycle
<1> QED BY <1>1, <1>2, <1>3, <1>4 DEF s

LEMMA RootsChange ==
  ASSUME NEW visited, NEW path, NEW left, NEW roots, NEW cycle, NEW x
  PROVE  [Search(visited, path, left, roots, cycle) EXCEPT !.roots = x]
           = Search(visited, path, left, x, cycle)
BY DEF Search

LEMMA FoundIs ==
  ASSUME NEW edges, NEW visited, NEW path, NEW left, NEW roots, NEW cycle, NEW turns,
         Round(edges, cycle), cycle # << >>
  PROVE  Searching(edges, Search(visited, path, left, roots, cycle), turns)
BY DEF Searching, Search

LEMMA RootTurn ==
  ASSUME NEW visited, NEW left, NEW roots, roots # {}
  PROVE  Turn(Search(visited, << >>, left, roots, << >>))
           = Visit(Search(visited, << >>, left, roots \ {First(roots)}, << >>), First(roots))
<1> DEFINE s == Search(visited, << >>, left, roots, << >>)
           r == First(roots)
           others == roots \ {r}
<1>1. s.trail = << >> /\ s.roots = roots /\ s.cycle = << >>
  BY DEF Search
<1>2. Turn(s) = Visit([s EXCEPT !.roots = others], r)
  <2> HIDE DEF s
  <2> QED BY <1>1 DEF Turn
<1>3. [s EXCEPT !.roots = others] = Search(visited, << >>, left, others, << >>)
  <2> HIDE DEF others
  <2> QED BY RootsChange
<1> HIDE DEF s, r, others
<1>4. Turn(s) = Visit(Search(visited, << >>, left, others, << >>), r)
  BY <1>2, <1>3
<1> QED BY <1>4 DEF s, r, others

LEMMA ArcTurn ==
  ASSUME NEW visited, NEW path, NEW left, NEW roots, path # << >>,
         NEW n, n = path[Len(path)], left[n] # {}, NEW d, d = First(left[n]),
         NEW more, more = [left EXCEPT ![n] = @ \ {d}]
  PROVE  Turn(Search(visited, path, left, roots, << >>))
           = Visit(Search(visited, path, more, roots, << >>), d)
<1> DEFINE s == Search(visited, path, left, roots, << >>)
           rest == left[n] \ {d}
<1>1. s.trail = path /\ s.left = left /\ s.cycle = << >>
  BY DEF Search
<1>2. Turn(s) = Visit([s EXCEPT !.left[n] = rest], d)
  <2> HIDE DEF s
  <2> QED BY <1>1 DEF Turn
<1>3. [s EXCEPT !.left[n] = rest] = Search(visited, path, [left EXCEPT ![n] = rest], roots, << >>)
  <2> HIDE DEF rest
  <2> QED BY DEF Search
<1>4. more = [left EXCEPT ![n] = rest]
  OBVIOUS
<1> HIDE DEF s, rest
<1>5. Turn(s) = Visit(Search(visited, path, more, roots, << >>), d)
  BY <1>2, <1>3, <1>4
<1> QED BY <1>5 DEF s

LEMMA ReturnTurn ==
  ASSUME NEW visited, NEW path, NEW left, NEW roots, path # << >>,
         NEW n, n = path[Len(path)], left[n] = {}
  PROVE  Turn(Search(visited, path, left, roots, << >>))
           = Search(visited \cup {n}, SubSeq(path, 1, Len(path) - 1), left, roots, << >>)
BY DEF Turn, Return, Search

LEMMA VisitKeeps ==
  ASSUME NEW edges, Graph(edges), IsFiniteSet(DOMAIN edges), NEW turns \in Nat,
         NEW visited, NEW path, NEW left, NEW roots,
         Consistent(edges, visited, path, left, roots), Remaining(edges, visited, left, roots) = turns,
         NEW n \in DOMAIN edges, NEW more, NEW others, Takes(edges, path, left, roots, n, more, others)
  PROVE  Searching(edges, Visit(Search(visited, path, more, others, << >>), n), turns - 1)
<1> DEFINE t == Visit(Search(visited, path, more, others, << >>), n)
<1>1. Remaining(edges, visited, more, others) = turns - 1
  BY TakingCounts
<1>2. path \in Seq(DOMAIN edges)
  BY DEF Consistent
<1>3. CASE n \in visited
  <2>1. t = Search(visited, path, more, others, << >>)
    BY <1>3, VisitIs
  <2>2. Consistent(edges, visited, path, more, others)
    BY <1>3, SkipKeeps
  <2> QED BY <1>1, <2>1, <2>2 DEF Searching, Search
<1>4. CASE n \notin visited /\ n \in Range(path)
  <2>1. PICK cycle : Closes(path, n, cycle) /\ t = Search(visited, path, more, others, cycle)
    BY <1>4, VisitIs
  <2>2. PICK i \in DOMAIN path : path[i] = n /\ cycle = Append(SubSeq(path, i, Len(path)), n)
    BY <2>1 DEF Closes
  <2>3. path # << >> /\ i \in 1 .. Len(path)
    BY <1>2, <2>2
  <2>4. n \in edges[path[Len(path)]]
    BY <1>2, <2>3 DEF Takes, Consistent
  <2>5. Round(edges, cycle)
    BY <2>2, <2>3, <2>4, TrailCloses
  <2>6. cycle # << >>
    BY <2>5 DEF Round
  <2> QED BY <2>1, <2>5, <2>6, FoundIs
<1>5. CASE n \notin visited /\ n \notin Range(path)
  <2>1. t = Search(visited, Append(path, n), more, others, << >>)
    BY <1>5, VisitIs
  <2>2. \A i \in 1 .. Len(path) : path[i] # n
    BY <1>2, <1>5 DEF Range
  <2>3. Consistent(edges, visited, Append(path, n), more, others)
    BY <1>5, <2>2, PushKeeps
  <2> DEFINE longer == Append(path, n)
  <2>4. t = Search(visited, longer, more, others, << >>) /\ Consistent(edges, visited, longer, more, others)
    BY <2>1, <2>3
  <2> HIDE DEF longer
  <2> QED BY <1>1, <2>4 DEF Searching, Search
<1> QED BY <1>3, <1>4, <1>5

LEMMA TurnKeeps ==
  ASSUME NEW edges, Graph(edges), DOMAIN edges \subseteq Node, NEW turns \in Nat,
         NEW s, Searching(edges, s, turns)
  PROVE  Searching(edges, Turn(s), turns - 1)
<1>0. IsFiniteSet(DOMAIN edges)
  BY NodeFinite, FS_Subset
<1>1. CASE s.cycle # << >>
  BY <1>1 DEF Turn, Searching
<1>2. CASE s.cycle = << >> /\ s.trail = << >> /\ s.roots = {}
  BY <1>2 DEF Turn, Searching
<1>3. CASE s.cycle = << >> /\ ~(s.trail = << >> /\ s.roots = {})
  <2>1. PICK visited, path, left, roots :
          /\ s = Search(visited, path, left, roots, << >>) /\ ~(path = << >> /\ roots = {})
          /\ Consistent(edges, visited, path, left, roots)
          /\ Remaining(edges, visited, left, roots) = turns
    BY <1>3 DEF Searching
  <2>2. CASE path = << >>
    <3> DEFINE n == First(roots)
    <3>1. roots # {} /\ roots \subseteq DOMAIN edges /\ roots \in SUBSET Node
      BY <2>1, <2>2 DEF Consistent
    <3>2. n \in roots /\ n \in DOMAIN edges
      BY <3>1, FirstIs
    <3>3. Turn(s) = Visit(Search(visited, path, left, roots \ {n}, << >>), n)
      BY <2>1, <2>2, <3>1, RootTurn
    <3> HIDE DEF n
    <3>4. Takes(edges, path, left, roots, n, left, roots \ {n})
      BY <2>2, <3>2 DEF Takes
    <3> QED BY <1>0, <2>1, <3>2, <3>3, <3>4, VisitKeeps
  <2>3. CASE path # << >> /\ left[path[Len(path)]] # {}
    <3> DEFINE m == path[Len(path)]
               n == First(left[m])
               more == [left EXCEPT ![m] = @ \ {n}]
    <3>1. m \in DOMAIN edges /\ left \in [DOMAIN edges -> SUBSET DOMAIN edges]
      BY <2>1, <2>3 DEF Consistent
    <3>2. left[m] \in SUBSET Node /\ left[m] # {}
      BY <2>3, <3>1
    <3> HIDE DEF m
    <3>3. n \in left[m] /\ n \in DOMAIN edges
      BY <3>1, <3>2, FirstIs
    <3>4. Turn(s) = Visit(Search(visited, path, more, roots, << >>), n)
      BY <2>1, <2>3, ArcTurn DEF m
    <3> HIDE DEF n
    <3>5. Takes(edges, path, left, roots, n, more, roots)
      BY <2>3, <3>3 DEF Takes, m
    <3> HIDE DEF more
    <3> QED BY <1>0, <2>1, <3>3, <3>4, <3>5, VisitKeeps
  <2>4. CASE path # << >> /\ left[path[Len(path)]] = {}
    <3> DEFINE m == path[Len(path)]
               shorter == SubSeq(path, 1, Len(path) - 1)
               done == visited \cup {m}
    <3>1. Turn(s) = Search(done, shorter, left, roots, << >>)
      BY <2>1, <2>4, ReturnTurn
    <3>2. Consistent(edges, done, shorter, left, roots)
      BY <2>1, <2>4, ReturnKeeps
    <3>3. Remaining(edges, done, left, roots) = turns - 1
      BY <1>0, <2>1, <2>4, ReturningCounts
    <3> HIDE DEF m, shorter, done
    <3> QED BY <3>1, <3>2, <3>3 DEF Searching, Search
  <2> QED BY <2>2, <2>3, <2>4
<1> QED BY <1>1, <1>2, <1>3

\* detectCycle finds a cycle in a graph that has one, what it reports is one, and in the
\* other graphs it finds none.
LEMMA DetectCycleIs ==
  ASSUME NEW edges, Graph(edges), DOMAIN edges \subseteq Node
  PROVE  /\ DetectCycle(edges) # << >> <=> HasCycle(edges)
         /\ DetectCycle(edges) # << >> => Round(edges, DetectCycle(edges))
<1> DEFINE nodes == DOMAIN edges
           turns == 2 * Cardinality(nodes) + Cardinality(Arcs(edges))
           start == [visited |-> {}, trail |-> << >>, left |-> edges, roots |-> nodes, cycle |-> << >>]
           Record(f) == f = [k \in 0 .. turns |-> IF k = 0 THEN start ELSE Turn(f[k - 1])]
<1>1. start = Search({}, << >>, edges, nodes, << >>)
  BY DEF Search
<1>2. Consistent(edges, {}, << >>, edges, nodes)
  BY DEF Consistent, Graph
<1>3. /\ Cardinality(nodes) \in Nat /\ Cardinality(Arcs(edges)) \in Nat /\ turns \in Nat
      /\ Remaining(edges, {}, edges, nodes) = turns
  <2>1. IsFiniteSet(nodes)
    BY NodeFinite, FS_Subset
  <2>2. /\ Cardinality(nodes) \in Nat /\ Cardinality(Arcs(edges)) \in Nat
    BY <1>2, <2>1, RemainingIsNumber
  <2>3. nodes \ {} = nodes
    OBVIOUS
  <2> HIDE DEF nodes
  <2> QED BY <2>2, <2>3 DEF Remaining, nodes
<1>4. Searching(edges, start, turns)
  <2> HIDE DEF start, turns
  <2> QED BY <1>1, <1>2, <1>3 DEF Searching, Search
<1>5. PICK f : Record(f) /\ DetectCycle(edges) = f[turns].cycle
  <2>1. \E f : Recorded(f, start, turns)
    <3> HIDE DEF start, turns
    <3> QED BY <1>3, TurnsExist
  <2> QED BY <2>1 DEF DetectCycle, Recorded
<1> DEFINE S == {k \in Nat : k <= turns => Searching(edges, f[k], turns - k)}
<1> HIDE DEF start, turns
<1>6. 0 \in S
  <2>1. f[0] = start /\ turns - 0 = turns
    BY <1>3, <1>5
  <2> QED BY <1>4, <2>1
<1>7. ASSUME NEW k \in Nat, k \in S PROVE k + 1 \in S
  <2>1. SUFFICES ASSUME k + 1 <= turns PROVE Searching(edges, f[k + 1], turns - (k + 1))
    OBVIOUS
  <2>2. Searching(edges, f[k], turns - k) /\ turns - k \in Nat
    BY <1>3, <1>7, <2>1
  <2>3. k + 1 \in 0 .. turns /\ k + 1 # 0 /\ (k + 1) - 1 = k /\ (turns - k) - 1 = turns - (k + 1)
    BY <1>3, <2>1
  <2>4. f[k + 1] = Turn(f[k])
    <3> DEFINE j == k + 1
    <3>1. j \in 0 .. turns /\ j # 0 /\ j - 1 = k
      BY <2>3
    <3> HIDE DEF j
    <3>2. f[j] = Turn(f[k])
      BY <1>5, <3>1
    <3> QED BY <3>2 DEF j
  <2>5. Searching(edges, Turn(f[k]), (turns - k) - 1)
    BY <2>2, TurnKeeps
  <2> QED BY <2>3, <2>4, <2>5
<1>8. Searching(edges, f[turns], 0)
  <2> HIDE DEF S
  <2>1. turns \in S
    BY <1>3, <1>6, <1>7, EveryNumber
  <2> QED BY <1>3, <2>1 DEF S
<1> DEFINE s == f[turns]
<1>9. CASE s.cycle # << >>
  <2>1. Round(edges, s.cycle)
    BY <1>8, <1>9 DEF Searching
  <2> QED BY <1>5, <1>9, <2>1, RoundIsKnot
<1>10. CASE s.cycle = << >>
  <2>1. Consistent(edges, s.visited, s.trail, s.left, s.roots)
    BY <1>8, <1>10 DEF Searching
  <2>2. DOMAIN edges \subseteq s.visited
    <3>1. CASE s.trail = << >> /\ s.roots = {}
      BY <2>1, <3>1 DEF Consistent
    <3>2. CASE Remaining(edges, s.visited, s.left, s.roots) = 0
      <4>1. IsFiniteSet(DOMAIN edges)
        BY NodeFinite, FS_Subset
      <4>2. /\ IsFiniteSet(DOMAIN edges \ s.visited) /\ Cardinality(DOMAIN edges \ s.visited) \in Nat
            /\ Cardinality(s.roots) \in Nat /\ Cardinality(Arcs(s.left)) \in Nat
        BY <2>1, <4>1, RemainingIsNumber
      <4>3. Cardinality(DOMAIN edges \ s.visited) = 0
        BY <3>2, <4>2 DEF Remaining
      <4> QED BY <4>2, <4>3, FS_EmptySet
    <3> QED BY <1>8, <1>10, <3>1, <3>2 DEF Searching
  <2>3. ~HasCycle(edges)
    <3>1. ASSUME NEW R \in SUBSET DOMAIN edges, Knot(edges, R) PROVE FALSE
      <4>1. R \cap s.visited = {}
        BY <2>1, <3>1 DEF Consistent
      <4> QED BY <2>2, <3>1, <4>1 DEF Knot
    <3> QED BY <3>1 DEF HasCycle, Knot
  <2> QED BY <1>5, <1>10, <2>3
<1> QED BY <1>9, <1>10

Shifted(f, edges, start, turns) == f = [k \in 0 .. turns |-> IF k = 0 THEN start ELSE Shift(edges, f[k - 1])]

LEMMA ShiftsExist ==
  ASSUME NEW edges, NEW start, NEW turns \in Nat
  PROVE  \E f : Shifted(f, edges, start, turns)
<1> DEFINE Good(f, m) == f = [k \in 0 .. m |-> IF k = 0 THEN start ELSE Shift(edges, f[k - 1])]
           S == {m \in Nat : \E f : Good(f, m)}
<1>1. 0 \in S
  <2>1. Good([k \in 0 .. 0 |-> start], 0)
    OBVIOUS
  <2> QED BY <2>1
<1>2. ASSUME NEW m \in Nat, m \in S PROVE m + 1 \in S
  <2>1. PICK f : Good(f, m)
    BY <1>2
  <2> DEFINE g == [k \in 0 .. m + 1 |-> IF k = m + 1 THEN Shift(edges, f[m]) ELSE f[k]]
  <2>2. ASSUME NEW k \in 0 .. m + 1
        PROVE  g[k] = IF k = 0 THEN start ELSE Shift(edges, g[k - 1])
    <3>1. CASE k = 0
      BY <2>1, <3>1
    <3>2. CASE k \in 1 .. m
      <4>1. k - 1 \in 0 .. m /\ k \in 0 .. m /\ k # 0 /\ g[k] = f[k] /\ g[k - 1] = f[k - 1]
        BY <3>2
      <4>2. f[k] = Shift(edges, f[k - 1])
        BY <2>1, <4>1
      <4> QED BY <4>1, <4>2
    <3>3. CASE k = m + 1
      <4>1. k - 1 = m /\ m \in 0 .. m + 1 /\ m # m + 1 /\ k # 0
        BY <3>3
      <4>2. g[m] = f[m] /\ g[k] = Shift(edges, f[m])
        BY <3>3, <4>1
      <4> QED BY <4>1, <4>2
    <3> QED BY <3>1, <3>2, <3>3
  <2>3. Good(g, m + 1)
    BY <2>2
  <2> HIDE DEF g
  <2> QED BY <2>3
<1> HIDE DEF Good
<1>3. Nat \subseteq S
  BY <1>1, <1>2, EveryNumber
<1> QED BY <1>3 DEF Good, Shifted

\* One round of resolveExecutionOrder.
Peel(edges, layers) ==
  LET next == NextLayer(edges, UNION Range(layers))
  IN  IF next = {} THEN layers ELSE Append(layers, next)

Peeled(f, edges, start, turns) == f = [k \in 0 .. turns |-> IF k = 0 THEN start ELSE Peel(edges, f[k - 1])]

LEMMA LayersExist ==
  ASSUME NEW edges, NEW start, NEW turns \in Nat
  PROVE  \E f : Peeled(f, edges, start, turns)
<1> DEFINE Good(f, m) == f = [k \in 0 .. m |-> IF k = 0 THEN start ELSE Peel(edges, f[k - 1])]
           S == {m \in Nat : \E f : Good(f, m)}
<1>1. 0 \in S
  <2>1. Good([k \in 0 .. 0 |-> start], 0)
    OBVIOUS
  <2> QED BY <2>1
<1>2. ASSUME NEW m \in Nat, m \in S PROVE m + 1 \in S
  <2>1. PICK f : Good(f, m)
    BY <1>2
  <2> DEFINE g == [k \in 0 .. m + 1 |-> IF k = m + 1 THEN Peel(edges, f[m]) ELSE f[k]]
  <2>2. ASSUME NEW k \in 0 .. m + 1
        PROVE  g[k] = IF k = 0 THEN start ELSE Peel(edges, g[k - 1])
    <3>1. CASE k = 0
      BY <2>1, <3>1
    <3>2. CASE k \in 1 .. m
      <4>1. k - 1 \in 0 .. m /\ k \in 0 .. m /\ k # 0 /\ g[k] = f[k] /\ g[k - 1] = f[k - 1]
        BY <3>2
      <4>2. f[k] = Peel(edges, f[k - 1])
        BY <2>1, <4>1
      <4> QED BY <4>1, <4>2
    <3>3. CASE k = m + 1
      <4>1. k - 1 = m /\ m \in 0 .. m + 1 /\ m # m + 1 /\ k # 0
        BY <3>3
      <4>2. g[m] = f[m] /\ g[k] = Peel(edges, f[m])
        BY <3>3, <4>1
      <4> QED BY <4>1, <4>2
    <3> QED BY <3>1, <3>2, <3>3
  <2>3. Good(g, m + 1)
    BY <2>2
  <2> HIDE DEF g
  <2> QED BY <2>3
<1> HIDE DEF Good
<1>3. Nat \subseteq S
  BY <1>1, <1>2, EveryNumber
<1> QED BY <1>3 DEF Good, Peeled

\* Where topoSort is after some turns: what is ordered comes after its dependencies,
\* and what is ready waits for none.
Sorting(edges, s, turns) ==
  /\ s.ordered \in Seq(DOMAIN edges)
  /\ \A i, j \in 1 .. Len(s.ordered) : s.ordered[i] = s.ordered[j] => i = j
  /\ \A i, j \in 1 .. Len(s.ordered) : s.ordered[j] \in edges[s.ordered[i]] => j < i
  /\ \A n \in Range(s.ordered) : edges[n] \subseteq Range(s.ordered)
  /\ s.indegree = [n \in DOMAIN edges |-> Cardinality(edges[n] \ Range(s.ordered))]
  /\ s.ready = NextLayer(edges, Range(s.ordered))
  /\ s.ready = {} \/ Len(s.ordered) = turns

LEMMA ShiftKeeps ==
  ASSUME NEW edges, Graph(edges), DOMAIN edges \subseteq Node, NEW turns \in Nat,
         NEW s, Sorting(edges, s, turns)
  PROVE  Sorting(edges, Shift(edges, s), turns + 1)
<1>1. CASE s.ready = {}
  BY <1>1 DEF Shift, Sorting
<1>2. CASE s.ready # {}
  <2> DEFINE D == DOMAIN edges
             c == First(s.ready)
             old == s.ordered
             l == Len(old)
             new == Append(old, c)
             R == Range(old)
             freed == Downstream(edges, c)
             indegree == [n \in D |-> s.indegree[n] - (IF n \in freed THEN 1 ELSE 0)]
             ready == (s.ready \ {c}) \cup {n \in freed : indegree[n] = 0}
  <2>1. old \in Seq(D) /\ l \in Nat /\ s.ready = NextLayer(edges, R) /\ l = turns
    BY <1>2 DEF Sorting
  <2>2. s.ready \in SUBSET Node
    BY <2>1 DEF NextLayer
  <2>3. c \in D /\ c \notin R /\ edges[c] \subseteq R /\ c \in s.ready
    BY <1>2, <2>1, <2>2, FirstIs DEF NextLayer
  <2>4. Shift(edges, s) = [ordered |-> new, indegree |-> indegree, ready |-> ready]
    BY <1>2 DEF Shift
  <2>5. /\ new \in Seq(D) /\ Len(new) = l + 1 /\ new[l + 1] = c
        /\ \A i \in 1 .. l : new[i] = old[i] /\ old[i] \in R
        /\ \A i \in 1 .. l + 1 : i = l + 1 \/ i \in 1 .. l
    <3> HIDE DEF c
    <3>1. /\ new \in Seq(D) /\ Len(new) = l + 1 /\ new[l + 1] = c
          /\ \A i \in 1 .. l : new[i] = old[i]
      BY <2>1, <2>3
    <3>2. \A i \in 1 .. l : old[i] \in R
      BY <2>1 DEF Range
    <3> QED BY <2>1, <3>1, <3>2
  <2> HIDE DEF c, new, R
  <2>6. Range(new) = R \cup {c}
    <3>1. DOMAIN new = 1 .. l + 1 /\ DOMAIN old = 1 .. l
      BY <2>1, <2>5
    <3>2. ASSUME NEW x \in Range(new) PROVE x \in R \cup {c}
      <4>1. PICK i \in 1 .. l + 1 : new[i] = x
        BY <3>1 DEF Range
      <4> QED BY <2>5, <4>1
    <3>3. c \in Range(new)
      <4>1. l + 1 \in 1 .. l + 1
        BY <2>1
      <4> QED BY <2>5, <3>1, <4>1 DEF Range
    <3>4. ASSUME NEW x \in R PROVE x \in Range(new)
      <4>1. PICK i \in 1 .. l : old[i] = x
        BY <3>1 DEF R, Range
      <4>2. i \in 1 .. l + 1
        BY <2>1
      <4> QED BY <2>5, <3>1, <4>1, <4>2 DEF Range
    <3> QED BY <3>2, <3>3, <3>4
  <2>7. \A n \in R : edges[n] \subseteq R
    BY DEF Sorting, R
  <2>8. \A i, j \in 1 .. l + 1 : new[i] = new[j] => i = j
    <3>1. \A i, j \in 1 .. l : old[i] = old[j] => i = j
      BY DEF Sorting
    <3> QED BY <2>3, <2>5, <3>1
  <2>9. ASSUME NEW i \in 1 .. l + 1, NEW j \in 1 .. l + 1, new[j] \in edges[new[i]]
        PROVE  j < i
    <3>1. CASE i = l + 1
      <4>1. j # l + 1
        BY <2>3, <2>5, <2>9, <3>1
      <4> QED BY <2>1, <3>1, <4>1
    <3>2. CASE i \in 1 .. l
      <4>1. new[j] \in R
        BY <2>5, <2>7, <2>9, <3>2
      <4>2. j \in 1 .. l
        BY <2>3, <2>5, <4>1
      <4> QED BY <2>5, <2>9, <3>2, <4>2 DEF Sorting
    <3> QED BY <2>5, <3>1, <3>2
  <2>10. \A n \in Range(new) : edges[n] \subseteq Range(new)
    BY <2>3, <2>6, <2>7
  <2>11. ASSUME NEW n \in D PROVE indegree[n] = Cardinality(edges[n] \ Range(new))
    <3> DEFINE T == edges[n] \ R
    <3>1. s.indegree[n] = Cardinality(T)
      BY DEF Sorting, R
    <3>2. T \in SUBSET Node
      BY DEF Graph
    <3>3. IsFiniteSet(T) /\ Cardinality(T) \in Nat
      BY <3>2, NodeFinite, FS_Subset, FS_CardinalityType
    <3>4. edges[n] \ Range(new) = T \ {c}
      BY <2>6
    <3>5. c \in T <=> n \in freed
      BY <2>3 DEF Downstream
    <3> HIDE DEF T
    <3>6. Cardinality(T \ {c}) = IF c \in T THEN Cardinality(T) - 1 ELSE Cardinality(T)
      BY <3>3, FS_RemoveElement
    <3> QED BY <3>1, <3>3, <3>4, <3>5, <3>6
  <2>12. indegree = [n \in D |-> Cardinality(edges[n] \ Range(new))]
    BY <2>11
  <2>13. ASSUME NEW n \in D PROVE n \in ready <=> n \in NextLayer(edges, Range(new))
    <3>1. n \in freed <=> c \in edges[n]
      BY DEF Downstream
    <3>2. n \in s.ready <=> n \notin R /\ edges[n] \subseteq R
      BY <2>1 DEF NextLayer
    <3>3. indegree[n] = 0 <=> edges[n] \subseteq R \cup {c}
      <4> DEFINE T == edges[n] \ Range(new)
      <4>1. T \in SUBSET Node
        BY DEF Graph
      <4>2. IsFiniteSet(T)
        BY <4>1, NodeFinite, FS_Subset
      <4>3. Cardinality(T) = 0 <=> T = {}
        BY <4>2, FS_EmptySet
      <4> QED BY <2>6, <2>11, <4>3
    <3>4. n \in NextLayer(edges, Range(new)) <=> n \notin R \cup {c} /\ edges[n] \subseteq R \cup {c}
      BY <2>6 DEF NextLayer
    <3> HIDE DEF indegree, freed
    <3>5. n \in ready <=> (n \in s.ready /\ n # c) \/ (n \in freed /\ indegree[n] = 0)
      OBVIOUS
    <3>6. c \in edges[n] => n \notin R \cup {c}
      BY <2>3, <2>7
    <3> HIDE DEF ready
    <3> QED BY <3>1, <3>2, <3>3, <3>4, <3>5, <3>6
  <2>14. ready = NextLayer(edges, Range(new))
    <3>1. ready \subseteq D
      BY <2>1 DEF NextLayer, Downstream
    <3>2. NextLayer(edges, Range(new)) \subseteq D
      BY DEF NextLayer
    <3> HIDE DEF ready, D
    <3> QED BY <2>13, <3>1, <3>2
  <2> HIDE DEF indegree, ready, freed, old, l
  <2> QED BY <2>1, <2>4, <2>5, <2>8, <2>9, <2>10, <2>12, <2>14 DEF Sorting
<1> QED BY <1>1, <1>2


LEMMA StartSorts ==
  ASSUME NEW edges, Graph(edges), DOMAIN edges \subseteq Node,
         NEW indegree, indegree = [n \in DOMAIN edges |-> Cardinality(edges[n])],
         NEW start, start = [ordered |-> << >>, indegree |-> indegree,
                             ready |-> {n \in DOMAIN edges : indegree[n] = 0}]
  PROVE  Sorting(edges, start, 0)
<1>1. Range(<< >>) = {} /\ << >> \in Seq(DOMAIN edges) /\ Len(<< >>) = 0
  BY DEF Range
<1>2. \A n \in DOMAIN edges : edges[n] \ {} = edges[n]
  OBVIOUS
<1>3. ASSUME NEW n \in DOMAIN edges PROVE indegree[n] = 0 <=> edges[n] \subseteq {}
  <2>1. edges[n] \in SUBSET Node
    BY DEF Graph
  <2>2. Cardinality(edges[n]) = 0 <=> edges[n] = {}
    BY <2>1, NodeFinite, FS_Subset, FS_EmptySet
  <2> QED BY <2>2
<1>4. start.ready = NextLayer(edges, {})
  BY <1>3 DEF NextLayer
<1>5. start.ordered = << >> /\ start.indegree = indegree
  OBVIOUS
<1>6. indegree = [n \in DOMAIN edges |-> Cardinality(edges[n] \ {})]
  BY <1>2
<1>7. /\ \A i, j \in 1 .. 0 : FALSE
      /\ \A n \in {} : edges[n] \subseteq {}
  OBVIOUS
<1>8. /\ start.ordered \in Seq(DOMAIN edges) /\ Range(start.ordered) = {}
      /\ Len(start.ordered) = 0
  BY <1>1, <1>5
<1>9. start.indegree = [n \in DOMAIN edges |-> Cardinality(edges[n] \ Range(start.ordered))]
  BY <1>5, <1>6, <1>8
<1> QED BY <1>4, <1>7, <1>8, <1>9 DEF Sorting

\* What topoSort answers for a graph without a cycle: every node once, after what it
\* depends on.
LEMMA TopoSortIs ==
  ASSUME NEW edges, Graph(edges), DOMAIN edges \subseteq Node, ~HasCycle(edges)
  PROVE  LET order == TopoSort(edges)
         IN  /\ IsInjective(order) /\ Range(order) = DOMAIN edges
             /\ \A i, j \in DOMAIN order : order[j] \in edges[order[i]] => j < i
<1> DEFINE D == DOMAIN edges
           N == Cardinality(D)
           indegree == [n \in D |-> Cardinality(edges[n])]
           start == [ordered |-> << >>, indegree |-> indegree, ready |-> {n \in D : indegree[n] = 0}]
           Record(f) == f = [k \in 0 .. N |-> IF k = 0 THEN start ELSE Shift(edges, f[k - 1])]
<1>1. Sorting(edges, start, 0)
  BY StartSorts
<1>2. IsFiniteSet(D) /\ N \in Nat
  BY NodeFinite, FS_Subset, FS_CardinalityType
<1>3. PICK f : Record(f) /\ TopoSort(edges) = f[N].ordered
  <2>1. \E f : Shifted(f, edges, start, N)
    <3> HIDE DEF start, N
    <3> QED BY <1>2, ShiftsExist
  <2> QED BY <2>1 DEF TopoSort, Shifted
<1> DEFINE S == {k \in Nat : k <= N => Sorting(edges, f[k], k)}
<1> HIDE DEF start, N
<1>4. 0 \in S
  <2>1. f[0] = start
    BY <1>2, <1>3
  <2> QED BY <1>1, <2>1
<1>5. ASSUME NEW k \in Nat, k \in S PROVE k + 1 \in S
  <2>1. SUFFICES ASSUME k + 1 <= N PROVE Sorting(edges, f[k + 1], k + 1)
    OBVIOUS
  <2>2. Sorting(edges, f[k], k)
    BY <1>2, <1>5, <2>1
  <2> DEFINE j == k + 1
  <2>3. j \in 0 .. N /\ j # 0 /\ j - 1 = k
    BY <1>2, <2>1
  <2>4. f[j] = Shift(edges, f[k])
    <3> HIDE DEF j
    <3> QED BY <1>3, <2>3
  <2> QED BY <2>2, <2>4, ShiftKeeps
<1>6. Sorting(edges, f[N], N)
  <2> HIDE DEF S
  <2>1. N \in S
    BY <1>2, <1>4, <1>5, EveryNumber
  <2> QED BY <1>2, <2>1 DEF S
<1> DEFINE s == f[N]
           order == s.ordered
<1> HIDE DEF s
<1>7. /\ order \in Seq(D) /\ DOMAIN order = 1 .. Len(order) /\ Len(order) \in Nat
      /\ Range(order) \in SUBSET D
  <2>1. order \in Seq(D)
    BY <1>6 DEF Sorting, s
  <2> QED BY <2>1 DEF Range
<1>8. \A i, j \in DOMAIN order : order[i] = order[j] => i = j
  BY <1>6, <1>7 DEF Sorting, s
<1>9. \A i, j \in DOMAIN order : order[j] \in edges[order[i]] => j < i
  BY <1>6, <1>7 DEF Sorting, s
<1>10. Range(order) = D
  <2>1. CASE s.ready = {}
    <3>1. NextLayer(edges, Range(order)) = {}
      BY <1>6, <2>1 DEF Sorting, s
    <3> QED BY <1>7, <3>1, LayerExists
  <2>2. CASE s.ready # {}
    <3>1. Len(order) = N
      BY <1>6, <2>2 DEF Sorting, s
    <3> DEFINE I == 1 .. N
    <3>2. order \in Injection(I, D)
      BY <1>7, <1>8, <3>1 DEF Injection, IsInjective
    <3>3. Cardinality(I) = N
      BY <1>2, FS_Interval
    <3>4. order \in Surjection(I, D)
      <4> HIDE DEF I, order
      <4> QED BY <1>2, <3>2, <3>3, FS_Injection DEF N
    <3> QED BY <1>7, <3>1, <3>4 DEF Surjection, Range
  <2> QED BY <2>1, <2>2
<1>11. TopoSort(edges) = order
  BY <1>3 DEF s
<1> HIDE DEF order
<1>12. IsInjective(order)
  BY <1>8 DEF IsInjective
<1> QED BY <1>9, <1>10, <1>11, <1>12

\* Where resolveExecutionOrder is after some rounds.
Layering(edges, layers, rounds) ==
  /\ layers \in Seq(SUBSET DOMAIN edges)
  /\ \A i \in 1 .. Len(layers) : layers[i] = NextLayer(edges, UNION {layers[j] : j \in 1 .. i - 1})
  /\ \/ NextLayer(edges, UNION Range(layers)) = {}
     \/ rounds <= Cardinality(UNION Range(layers))

LEMMA PeelKeeps ==
  ASSUME NEW edges, Graph(edges), DOMAIN edges \subseteq Node, NEW rounds \in Nat,
         NEW layers, Layering(edges, layers, rounds)
  PROVE  Layering(edges, Peel(edges, layers), rounds + 1)
<1> DEFINE D == DOMAIN edges
           U == UNION Range(layers)
           next == NextLayer(edges, U)
           l == Len(layers)
           new == Append(layers, next)
<1>1. CASE next = {}
  BY <1>1 DEF Peel, Layering
<1>2. CASE next # {}
  <2>1. layers \in Seq(SUBSET D) /\ l \in Nat /\ DOMAIN layers = 1 .. l
    BY DEF Layering
  <2>2. next \in SUBSET D /\ next \cap U = {}
    BY DEF NextLayer
  <2>3. rounds <= Cardinality(U)
    BY <1>2 DEF Layering
  <2>4. U = UNION {layers[j] : j \in 1 .. l}
    BY <2>1 DEF Range
  <2>5. U \in SUBSET D
    BY <2>1 DEF Range
  <2> HIDE DEF next, U
  <2>6. /\ new \in Seq(SUBSET D) /\ Len(new) = l + 1 /\ DOMAIN new = 1 .. l + 1
        /\ new[l + 1] = next /\ \A i \in 1 .. l : new[i] = layers[i]
    BY <2>1, <2>2
  <2> HIDE DEF new
  <2>7. ASSUME NEW i \in 1 .. l + 1
        PROVE  new[i] = NextLayer(edges, UNION {new[j] : j \in 1 .. i - 1})
    <3>1. \A j \in 1 .. i - 1 : new[j] = layers[j]
      BY <2>1, <2>6
    <3>2. {new[j] : j \in 1 .. i - 1} = {layers[j] : j \in 1 .. i - 1}
      BY <3>1
    <3>3. CASE i \in 1 .. l
      BY <2>6, <3>2, <3>3 DEF Layering
    <3>4. CASE i = l + 1
      <4>1. i - 1 = l
        BY <2>1, <3>4
      <4> QED BY <2>4, <2>6, <3>2, <3>4, <4>1 DEF next
    <3> QED BY <2>1, <3>3, <3>4
  <2>8. UNION Range(new) = U \cup next
    <3>1. ASSUME NEW x \in UNION Range(new) PROVE x \in U \cup next
      <4>1. PICK i \in 1 .. l + 1 : x \in new[i]
        BY <2>6 DEF Range
      <4>2. i = l + 1 \/ i \in 1 .. l
        BY <2>1
      <4> QED BY <2>4, <2>6, <4>1, <4>2
    <3>2. ASSUME NEW x \in U PROVE x \in UNION Range(new)
      <4>1. PICK i \in 1 .. l : x \in layers[i]
        BY <2>4
      <4>2. i \in 1 .. l + 1
        BY <2>1
      <4> QED BY <2>6, <4>1, <4>2 DEF Range
    <3>3. ASSUME NEW x \in next PROVE x \in UNION Range(new)
      <4>1. l + 1 \in 1 .. l + 1
        BY <2>1
      <4> QED BY <2>6, <4>1 DEF Range
    <3> QED BY <3>1, <3>2, <3>3
  <2>9. rounds + 1 <= Cardinality(U \cup next)
    <3>1. PICK n \in next : TRUE
      BY <1>2
    <3> DEFINE T == U \cup next
    <3>2. IsFiniteSet(T) /\ IsFiniteSet(U) /\ Cardinality(T) \in Nat /\ Cardinality(U) \in Nat
      <4>1. T \in SUBSET Node /\ U \in SUBSET Node
        BY <2>2, <2>5
      <4> QED BY <4>1, NodeFinite, FS_Subset, FS_CardinalityType
    <3>3. U \in SUBSET T /\ n \in T /\ n \notin U
      BY <2>2, <3>1
    <3> HIDE DEF T
    <3>4. Cardinality(U) <= Cardinality(T) /\ Cardinality(U) # Cardinality(T)
      BY <3>2, <3>3, FS_Subset
    <3>5. rounds + 1 <= Cardinality(T)
      BY <2>3, <3>2, <3>4
    <3> QED BY <3>5 DEF T
  <2>10. Peel(edges, layers) = new
    BY <1>2 DEF Peel, new, next, U
  <2>11. rounds + 1 <= Cardinality(UNION Range(new))
    BY <2>8, <2>9
  <2>12. \A i \in 1 .. Len(new) : new[i] = NextLayer(edges, UNION {new[j] : j \in 1 .. i - 1})
    BY <2>6, <2>7
  <2> HIDE DEF l
  <2>13. Layering(edges, new, rounds + 1)
    BY <2>6, <2>11, <2>12 DEF Layering
  <2> QED BY <2>10, <2>13
<1> QED BY <1>1, <1>2

\* What resolveExecutionOrder answers for a graph without a cycle: the layers, and a
\* node in one of them for each node.
LEMMA LayersIs ==
  ASSUME NEW edges, Graph(edges), DOMAIN edges \subseteq Node, ~HasCycle(edges)
  PROVE  LET layers == Layers(edges)
         IN  /\ \A i \in DOMAIN layers :
                  layers[i] = NextLayer(edges, UNION {layers[k] : k \in 1 .. i - 1})
             /\ UNION Range(layers) = DOMAIN edges
<1> DEFINE D == DOMAIN edges
           N == Cardinality(D)
<1>1. Layering(edges, << >>, 0)
  <2>1. Range(<< >>) = {} /\ << >> \in Seq(SUBSET D) /\ Len(<< >>) = 0 /\ UNION {} = {}
    BY DEF Range
  <2>2. 0 <= Cardinality({}) /\ \A i \in 1 .. 0 : FALSE
    BY FS_EmptySet
  <2>3. UNION Range(<< >>) = {}
    BY <2>1
  <2> QED BY <2>1, <2>2, <2>3 DEF Layering
<1>2. IsFiniteSet(D) /\ N \in Nat
  BY NodeFinite, FS_Subset, FS_CardinalityType
<1>3. PICK f : Peeled(f, edges, << >>, N) /\ Layers(edges) = f[N]
  <2>1. \E f : Peeled(f, edges, << >>, N)
    <3> HIDE DEF N
    <3> QED BY <1>2, LayersExist
  <2> QED BY <2>1 DEF Layers, Peeled, Peel
<1> DEFINE S == {k \in Nat : k <= N => Layering(edges, f[k], k)}
<1> HIDE DEF N
<1>4. 0 \in S
  <2>1. f[0] = << >>
    BY <1>2, <1>3 DEF Peeled
  <2> QED BY <1>1, <2>1
<1>5. ASSUME NEW k \in Nat, k \in S PROVE k + 1 \in S
  <2>1. SUFFICES ASSUME k + 1 <= N PROVE Layering(edges, f[k + 1], k + 1)
    OBVIOUS
  <2>2. Layering(edges, f[k], k)
    BY <1>2, <1>5, <2>1
  <2> DEFINE j == k + 1
  <2>3. j \in 0 .. N /\ j # 0 /\ j - 1 = k
    BY <1>2, <2>1
  <2>4. f[j] = Peel(edges, f[k])
    <3> HIDE DEF j
    <3> QED BY <1>3, <2>3 DEF Peeled
  <2> QED BY <2>2, <2>4, PeelKeeps
<1>6. Layering(edges, f[N], N)
  <2> HIDE DEF S
  <2>1. N \in S
    BY <1>2, <1>4, <1>5, EveryNumber
  <2> QED BY <1>2, <2>1 DEF S
<1> DEFINE layers == f[N]
           U == UNION Range(layers)
<1> HIDE DEF layers
<1>7. layers \in Seq(SUBSET D) /\ DOMAIN layers = 1 .. Len(layers)
  BY <1>6 DEF Layering, layers
<1>8. U \in SUBSET D
  BY <1>7 DEF Range
<1>9. \A i \in DOMAIN layers : layers[i] = NextLayer(edges, UNION {layers[j] : j \in 1 .. i - 1})
  BY <1>6, <1>7 DEF Layering, layers
<1>10. U = D
  <2>1. CASE NextLayer(edges, U) = {}
    <3> HIDE DEF U
    <3> QED BY <1>8, <2>1, LayerExists
  <2>2. CASE N <= Cardinality(U)
    <3> HIDE DEF U, D
    <3>1. Cardinality(U) <= Cardinality(D) /\ Cardinality(U) \in Nat
      BY <1>2, <1>8, FS_Subset, FS_CardinalityType
    <3>2. Cardinality(U) = Cardinality(D)
      BY <1>2, <2>2, <3>1 DEF N
    <3> QED BY <1>2, <1>8, <3>2, FS_Subset
  <2> QED BY <1>6, <2>1, <2>2 DEF Layering, layers
<1>11. Layers(edges) = layers
  BY <1>3 DEF layers
<1> QED BY <1>9, <1>10, <1>11

LEMMA SearchesAgreeOn ==
  ASSUME NEW edges, Graph(edges), DOMAIN edges \subseteq Node
  PROVE  SearchesAgree(edges)
<1> DEFINE path == DetectCycle(edges)
           order == TopoSort(edges)
           layers == Layers(edges)
<1> HIDE DEF path, order, layers
<1>1. /\ path # << >> <=> HasCycle(edges)
      /\ path # << >> => Round(edges, path)
  BY DetectCycleIs DEF path
<1>2. path = << >> =>
        /\ IsInjective(order) /\ Range(order) = DOMAIN edges
        /\ \A i, j \in DOMAIN order : order[j] \in edges[order[i]] => j < i
  BY <1>1, TopoSortIs DEF order
<1>3. path = << >> =>
        /\ \A i \in DOMAIN layers :
             layers[i] = NextLayer(edges, UNION {layers[k] : k \in 1 .. i - 1})
        /\ UNION Range(layers) = DOMAIN edges
  BY <1>1, LayersIs DEF layers
<1>4. path # << >> =>
        /\ path[1] = path[Len(path)] /\ Len(path) > 1
        /\ \A i \in 1 .. Len(path) - 1 : path[i + 1] \in edges[path[i]]
  BY <1>1 DEF Round
<1> QED BY <1>1, <1>2, <1>3, <1>4 DEF SearchesAgree, path, order, layers

\* On every graph that reaches the scheduler, whatever the view, what the model of the
\* executor takes PlanGraph's word for is what the code's own searches compute: a cycle
\* is reported exactly when there is one, with the nodes it runs through, and a graph
\* without one is sorted and layered to its last node, dependencies first.
THEOREM SchedulesAreComputed == Spec => []ScheduleIsComputed
<1>1. IInv => ScheduleIsComputed
  <2> SUFFICES ASSUME IInv PROVE SearchesAgree(dag)
    BY DEF ScheduleIsComputed
  <2>1. Graph(dag) /\ DOMAIN dag \subseteq Node
    BY DEF IInv, TypeOK, Graph, View
  <2> QED BY <2>1, SearchesAgreeOn
<1> QED BY <1>1, Invariant, PTL
=============================================================================
