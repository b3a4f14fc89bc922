--------------------------- MODULE RuntimeExecutor ---------------------------
(***************************************************************************)
(* The execution of one view: compileViewDefinition, executeSubmitPlan and *)
(* RuntimeExecutor.execute of packages/runtime.                            *)
(*                                                                         *)
(* A view is a set of nodes (queries, mutations, merges, transforms), the  *)
(* nodes each one reads, and an optional submit list.  With a submit list  *)
(* only what its nodes need is executed, and the submit nodes one after    *)
(* the other.  Nodes run in layers: all nodes of a layer start together    *)
(* from one snapshot of the state and their results are committed together.*)
(* Promise.all rejects on the first failure and does not stop the others:  *)
(* they go on, write to the database and report to the audit observer      *)
(* after the caller has had its error.                                     *)
(***************************************************************************)
EXTENDS Naturals, Sequences, PlanGraph

CONSTANTS
  Node,       \* node ids a view may use
  Mutation,   \* those whose definition is a mutation
  NoNode,     \* "no node": no failure yet, or a plan-level audit event
  Views       \* the views that may be requested

ASSUME MutationAssumption == Mutation \subseteq Node
ASSUME NoNodeAssumption == NoNode \notin Node

\* ViewDefinition as far as the executor can tell views apart: its nodes, the
\* nodes each one's expressions read, and submit.nodes ({} -> no submit).
View == [nodes  : SUBSET Node,
         edges  : UNION {[N -> SUBSET Node] : N \in SUBSET Node},
         submit : Seq(Node)]

\* collectExpressionDependencies only ever finds nodes of the same view: it refuses
\* an expression that names anything else, as CompileView refuses a submit list.
WellFormed(v) == v.edges \in [v.nodes -> SUBSET v.nodes]

ASSUME ViewsAssumption == Views \subseteq {v \in View : WellFormed(v)}

VARIABLES
  view,      \* the requested view
  phase,     \* how far the request has come
  stage,     \* what a failed request failed in, else "none"
  cursor,    \* loop index over view.submit, then over ids
  ids,       \* submitNodeIds: view.submit without repetitions
  dag,       \* edges of the plan being executed
  state,     \* keys of currentState: the nodes whose results are committed
  layer,     \* the nodes Promise.all is waiting for
  node,      \* what each node is doing
  seen,      \* keys of the snapshot each node was started with
  firstFail, \* the node whose rejection reached Promise.all first
  db,        \* the database: mutations in the order their writes landed
  trail      \* runtime.plan.* and runtime.node.* events, as the observer gets them

vars == <<view, phase, stage, cursor, ids, dag, state, layer, node, seen,
          firstFail, db, trail>>

Phases == {"requested", "collecting", "chaining", "scheduling", "running",
           "succeeded", "failed"}
Stages == {"none", "compile", "schedule", "execute", "commit", "output"}
NodeStates == {"idle", "running", "applied", "skipped", "succeeded", "failed"}
EventTypes == {"plan.started", "plan.succeeded", "plan.failed",
               "node.succeeded", "node.failed"}
Events == EventTypes \X (Node \cup {NoNode})

Finished == phase \in {"succeeded", "failed"}
InFlight == {n \in Node : node[n] \in {"running", "applied"}}
Resolved == {n \in Node : node[n] \in {"succeeded", "skipped"}}
Written == {db[i] : i \in DOMAIN db}

Init ==
  /\ view \in Views
  /\ phase = "requested"
  /\ stage = "none"
  /\ cursor = 1
  /\ ids = <<>>
  /\ dag = [n \in {} |-> {}]
  /\ state = {}
  /\ layer = {}
  /\ node = [n \in Node |-> "idle"]
  /\ seen = [n \in Node |-> {}]
  /\ firstFail = NoNode
  /\ db = <<>>
  /\ trail = <<>>

-----------------------------------------------------------------------------
(* Before the first await: compiling the view and building the plan.       *)

\* compileViewDefinition: a submit list may name only nodes of the view.  The
\* error leaves before execute() is called, so nothing is audited.
CompileView ==
  /\ phase = "requested"
  /\ IF \E i \in DOMAIN view.submit : view.submit[i] \notin view.nodes
       THEN /\ phase' = "failed"
            /\ stage' = "compile"
            /\ UNCHANGED dag
       ELSE /\ phase' = IF view.submit = <<>> THEN "scheduling" ELSE "collecting"
            /\ dag' = view.edges
            /\ UNCHANGED stage
  /\ UNCHANGED <<view, cursor, ids, state, layer, node, seen, firstFail, db, trail>>

\* uniqueNodeIds, one submit entry at a time; after the last one the plan is cut
\* down to the dependency closure of the submit nodes.
CollectSubmit ==
  /\ phase = "collecting"
  /\ IF cursor <= Len(view.submit)
       THEN /\ ids' = IF \E i \in DOMAIN ids : ids[i] = view.submit[cursor]
                        THEN ids
                        ELSE Append(ids, view.submit[cursor])
            /\ cursor' = cursor + 1
            /\ UNCHANGED <<phase, dag>>
       ELSE /\ LET needed == DependencyClosure(dag, {ids[i] : i \in DOMAIN ids})
               IN  dag' = FilterEdges(dag, needed)
            /\ phase' = "chaining"
            /\ cursor' = 2
            /\ UNCHANGED ids
  /\ UNCHANGED <<view, stage, state, layer, node, seen, firstFail, db, trail>>

\* addSequentialSubmitEdges, one submit node at a time.
ChainSubmit ==
  /\ phase = "chaining"
  /\ IF cursor <= Len(ids)
       THEN /\ dag' = ChainEdge(dag, ids[cursor], ids[cursor - 1])
            /\ cursor' = cursor + 1
            /\ UNCHANGED phase
       ELSE /\ phase' = "scheduling"
            /\ UNCHANGED <<dag, cursor>>
  /\ UNCHANGED <<view, stage, ids, state, layer, node, seen, firstFail, db, trail>>

\* execute() up to resolveExecutionOrder: runtime.plan.started, then the cycle
\* check, whose failure is the plan's.
Schedule ==
  /\ phase = "scheduling"
  /\ IF HasCycle(dag)
       THEN /\ phase' = "failed"
            /\ stage' = "schedule"
            /\ trail' = trail \o <<<<"plan.started", NoNode>>, <<"plan.failed", NoNode>>>>
       ELSE /\ phase' = "running"
            /\ trail' = Append(trail, <<"plan.started", NoNode>>)
            /\ UNCHANGED stage
  /\ UNCHANGED <<view, cursor, ids, dag, state, layer, node, seen, firstFail, db>>

-----------------------------------------------------------------------------
(* The layer loop of executeInternal.                                      *)

\* The nodes of the next layer are started together, each with the snapshot of
\* the state the previous layers left.
StartLayer ==
  /\ phase = "running"
  /\ layer = {}
  /\ state # DOMAIN dag
  /\ layer' = NextLayer(dag, state)
  /\ node' = [n \in Node |-> IF n \in layer' THEN "running" ELSE node[n]]
  /\ seen' = [n \in Node |-> IF n \in layer' THEN state ELSE seen[n]]
  /\ UNCHANGED <<view, phase, stage, cursor, ids, dag, state, firstFail, db, trail>>

\* Slip: the adapter repeats a write whose answer is late.
AdapterRetries(n) ==
  /\ n \in Mutation
  /\ node[n] \in {"running", "applied"}
  /\ node' = [node EXCEPT ![n] = "applied"]
  /\ db' = Append(db, n)
  /\ UNCHANGED <<view, phase, stage, cursor, ids, dag, state, layer, seen,
                 firstFail, trail>>

\* The database commits the write a mutation node asked its adapter for.
AdapterCommits(n) ==
  /\ n \in Mutation
  /\ node[n] = "running"
  /\ node' = [node EXCEPT ![n] = "applied"]
  /\ db' = Append(db, n)
  /\ UNCHANGED <<view, phase, stage, cursor, ids, dag, state, layer, seen,
                 firstFail, trail>>

\* A node's promise resolves: a mutation after its write, or at once and without
\* one when its condition is falsy; any other node with what it computed.
NodeSucceeds(n) ==
  /\ \/ /\ n \in Mutation
        /\ node[n] = "applied"
        /\ node' = [node EXCEPT ![n] = "succeeded"]
     \/ /\ n \in Mutation
        /\ node[n] = "running"
        /\ node' = [node EXCEPT ![n] = "skipped"]
     \/ /\ n \notin Mutation
        /\ node[n] = "running"
        /\ node' = [node EXCEPT ![n] = "succeeded"]
  /\ trail' = Append(trail, <<"node.succeeded", n>>)
  /\ UNCHANGED <<view, phase, stage, cursor, ids, dag, state, layer, seen,
                 firstFail, db>>

\* A node's promise rejects.  A mutation's adapter may reject after its write has
\* landed (the answer is lost).
NodeFails(n) ==
  /\ node[n] \in {"running", "applied"}
  /\ node' = [node EXCEPT ![n] = "failed"]
  /\ firstFail' = IF firstFail = NoNode THEN n ELSE firstFail
  /\ trail' = Append(trail, <<"node.failed", n>>)
  /\ UNCHANGED <<view, phase, stage, cursor, ids, dag, state, layer, seen, db>>

\* Slip: every rejected sibling ends the plan again.
RejectPlanAgain ==
  /\ phase \in {"running", "failed"}
  /\ firstFail # NoNode
  /\ phase' = "failed"
  /\ stage' = "execute"
  /\ trail' = Append(trail, <<"plan.failed", NoNode>>)
  /\ UNCHANGED <<view, cursor, ids, dag, state, layer, node, seen, firstFail, db>>

\* Promise.all rejects with the first failure and execute() rethrows it.  Nothing
\* cancels the other nodes of the layer.
RejectPlan ==
  /\ phase = "running"
  /\ firstFail # NoNode
  /\ phase' = "failed"
  /\ stage' = "execute"
  /\ trail' = Append(trail, <<"plan.failed", NoNode>>)
  /\ UNCHANGED <<view, cursor, ids, dag, state, layer, node, seen, firstFail, db>>

\* Slip: Promise.allSettled in place of Promise.all.
CommitSettledLayer ==
  /\ phase = "running"
  /\ layer # {}
  /\ layer \cap InFlight = {}
  /\ state' = state \cup layer
  /\ layer' = {}
  /\ UNCHANGED <<view, phase, stage, cursor, ids, dag, node, seen, firstFail, db, trail>>

\* Promise.all resolves: the whole layer becomes visible in one assignment.
CommitLayer ==
  /\ phase = "running"
  /\ layer # {}
  /\ layer \subseteq Resolved
  /\ state' = state \cup layer
  /\ layer' = {}
  /\ UNCHANGED <<view, phase, stage, cursor, ids, dag, node, seen, firstFail, db, trail>>

\* structuredClone cannot copy every value a node may return (a merge hook's
\* functions): the commit loop throws before currentState is assigned.
CloneFails ==
  /\ phase = "running"
  /\ layer # {}
  /\ layer \subseteq Resolved
  /\ phase' = "failed"
  /\ stage' = "commit"
  /\ trail' = Append(trail, <<"plan.failed", NoNode>>)
  /\ UNCHANGED <<view, cursor, ids, dag, state, layer, node, seen, firstFail, db>>

\* After the last layer the output expressions are resolved and the result copied.
ResolveOutput ==
  /\ phase = "running"
  /\ layer = {}
  /\ state = DOMAIN dag
  /\ \/ /\ phase' = "succeeded"
        /\ trail' = Append(trail, <<"plan.succeeded", NoNode>>)
        /\ UNCHANGED stage
     \/ /\ phase' = "failed"
        /\ stage' = "output"
        /\ trail' = Append(trail, <<"plan.failed", NoNode>>)
  /\ UNCHANGED <<view, cursor, ids, dag, state, layer, node, seen, firstFail, db>>

\* Nothing is left to happen.
Terminated ==
  /\ Finished
  /\ InFlight = {}
  /\ UNCHANGED vars

Runtime ==
  \/ CompileView
  \/ CollectSubmit
  \/ ChainSubmit
  \/ Schedule
  \/ StartLayer
  \/ RejectPlan
  \/ CommitLayer
  \/ CloneFails
  \/ ResolveOutput

Settle(n) == NodeSucceeds(n) \/ NodeFails(n)

Next ==
  \/ Runtime
  \/ \E n \in Node : AdapterCommits(n) \/ Settle(n)
  \/ Terminated

Spec == Init /\ [][Next]_vars

\* The event loop runs every continuation that is ready, and every datasource,
\* adapter and hook answers some day (the code sets no timeout of its own).
Fairness ==
  /\ WF_vars(Runtime)
  /\ \A n \in Node : WF_vars(Settle(n))

FairSpec == Spec /\ Fairness
-----------------------------------------------------------------------------
(* Properties.                                                             *)

Started == {n \in Node : node[n] # "idle"}
Planning == phase \in {"requested", "collecting", "chaining", "scheduling"}

\* Types of every variable.
TypeOK ==
  /\ view \in View /\ WellFormed(view)
  /\ phase \in Phases
  /\ stage \in Stages
  /\ cursor \in Nat \ {0}
  /\ ids \in Seq(Node)
  /\ DOMAIN dag \subseteq view.nodes
  /\ dag \in [DOMAIN dag -> SUBSET DOMAIN dag]
  /\ state \subseteq DOMAIN dag
  /\ layer \subseteq DOMAIN dag
  /\ node \in [Node -> NodeStates]
  /\ seen \in [Node -> SUBSET Node]
  /\ firstFail \in Node \cup {NoNode}
  /\ db \in Seq(Mutation)
  /\ trail \in Seq(Events)

\* A node is started with a snapshot that holds the results of everything the view
\* makes it depend on, directly or not, and nothing its own layer produces: the
\* layering, the cut to the submit closure and the snapshot agree with the view.
SnapshotHoldsAllDependencies ==
  \A n \in Started :
    /\ view.edges[n] \subseteq seen[n]
    /\ ClosedUnder(view.edges, seen[n])
    /\ seen[n] \subseteq state \ layer

\* The submit list is an order of effects: a submit node is started only after
\* every submit node listed before it is committed, whatever the data dependencies
\* (a list that contradicts them is refused by the cycle check).
SubmitInOrder ==
  phase \notin {"requested", "collecting"} =>
    \A i, j \in DOMAIN ids :
      i < j /\ ids[j] \in Started => ids[i] \in state \cup {ids[j]}

\* Writes land in an order the dependencies allow: nothing written earlier
\* depends, directly or through any chain of nodes, on something written later.
WritesFollowDependencies ==
  \A i, j \in DOMAIN db :
    i < j => db[j] \notin DependencyClosure(view.edges, {db[i]})

\* A request that succeeded executed exactly what it needed: every node of the plan
\* is committed, each of its mutations was written exactly once or skipped by its
\* condition, and each node is a submit node or read by another node of the plan.
SuccessIsExact ==
  phase = "succeeded" =>
    /\ Started = state
    /\ view.submit = <<>> => state = view.nodes
    /\ view.submit # <<>> =>
         \A n \in state :
           \/ \E i \in DOMAIN view.submit : view.submit[i] = n
           \/ \E k \in state \ {n} : n \in view.edges[k]
    /\ Written = {m \in state \cap Mutation : node[m] # "skipped"}
    /\ \A i, j \in DOMAIN db : db[i] = db[j] => i = j

\* A failure is contained in one layer: none of the layer becomes visible, nothing
\* beyond it is started, and a write that is not in the committed state can only
\* be one of its siblings' (those writes stay: the plan is not a transaction).
FailureContained ==
  firstFail # NoNode =>
    /\ firstFail \in layer
    /\ layer \cap state = {}
    /\ Started = state \cup layer
    /\ Written \subseteq Started

\* What the audit observer is told: plan.started comes first; the plan ends once,
\* with the caller's outcome; a node is reported once and after everything it
\* depends on; after plan.failed only siblings of the failed layer are heard of.
TrailTellsTheStory ==
  LET Pos(t) == {i \in DOMAIN trail : trail[i][1] \in t}
      Ends == Pos({"plan.succeeded", "plan.failed"})
      Nodes == Pos({"node.succeeded", "node.failed"})
  IN  /\ \A i \in DOMAIN trail : trail[i][1] = "plan.started" <=> i = 1
      /\ Ends # {} <=> (Finished /\ stage # "compile")
      /\ \A i, j \in Ends : i = j
      /\ \A i \in Ends : trail[i][1] = "plan.succeeded" <=> phase = "succeeded"
      /\ \A i, j \in Nodes :
           /\ trail[i][2] = trail[j][2] => i = j
           /\ trail[i][2] \in view.edges[trail[j][2]] =>
                i < j /\ trail[i][1] = "node.succeeded"
      /\ \A i \in Nodes, e \in Ends :
           e < i => phase = "failed" /\ trail[i][2] \in layer

\* Once the caller has its answer the outcome, the committed state and the set of
\* started nodes are final, although siblings still in flight go on.
NothingStartsAfterTheAnswer ==
  [][Finished => UNCHANGED <<phase, stage, dag, state, layer, seen, Started>>]_vars

\* Every request is answered, cycles and failures included.
RequestAnswered == <>Finished

Contract == INSTANCE PlanContract WITH
  edges   <- IF Planning \/ stage \in {"compile", "schedule"}
               THEN [n \in {} |-> {}] ELSE dag,
  outcome <- IF Planning THEN "new"
             ELSE IF phase = "running" THEN "pending"
             ELSE IF phase = "succeeded" THEN "success" ELSE "failure",
  armed   <- Started,
  visible <- state,
  written <- db

\* The layered executor implements the contract it offers its callers.
ImplementsContract == Contract!Spec
=============================================================================
