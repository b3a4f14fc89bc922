---------------------------- MODULE PlanContract ----------------------------
(***************************************************************************)
(* What the runtime promises a caller about one execution plan, without    *)
(* layers, promises or audit events:                                       *)
(*   - a node runs only when everything it reads is visible;               *)
(*   - a mutation reaches the database at most once, and only if armed;    *)
(*   - results become visible in groups, never after the answer;           *)
(*   - success means every node is visible;                                *)
(*   - after a failure nothing new is armed, but armed mutations may still *)
(*     reach the database.                                                 *)
(***************************************************************************)
EXTENDS Naturals, Sequences

CONSTANT Node

VARIABLES
  edges,     \* what each node of the accepted plan reads
  outcome,   \* "new", "pending", "success" or "failure"
  armed,     \* nodes that have been started
  visible,   \* nodes whose results later nodes and the output can read
  written    \* mutations that reached the database, in order

vars == <<edges, outcome, armed, visible, written>>

EdgeMap == UNION {[N -> SUBSET N] : N \in SUBSET Node}

Init ==
  /\ edges = [n \in {} |-> {}]
  /\ outcome = "new"
  /\ armed = {}
  /\ visible = {}
  /\ written = <<>>

Accept ==
  /\ outcome = "new"
  /\ outcome' = "pending"
  /\ edges' \in EdgeMap
  /\ UNCHANGED <<armed, visible, written>>

Refuse ==
  /\ outcome = "new"
  /\ outcome' = "failure"
  /\ UNCHANGED <<edges, armed, visible, written>>

Arm(L) ==
  /\ outcome = "pending"
  /\ L \subseteq DOMAIN edges \ armed
  /\ \A n \in L : edges[n] \subseteq visible
  /\ armed' = armed \cup L
  /\ UNCHANGED <<edges, outcome, visible, written>>

Write(m) ==
  /\ m \in armed \ visible
  /\ \A i \in DOMAIN written : written[i] # m
  /\ written' = Append(written, m)
  /\ UNCHANGED <<edges, outcome, armed, visible>>

Publish(L) ==
  /\ outcome = "pending"
  /\ L \subseteq armed \ visible
  /\ visible' = visible \cup L
  /\ UNCHANGED <<edges, outcome, armed, written>>

Succeed ==
  /\ outcome = "pending"
  /\ visible = DOMAIN edges
  /\ outcome' = "success"
  /\ UNCHANGED <<edges, armed, visible, written>>

Fail ==
  /\ outcome = "pending"
  /\ outcome' = "failure"
  /\ UNCHANGED <<edges, armed, visible, written>>

Next ==
  \/ Accept \/ Refuse \/ Succeed \/ Fail
  \/ \E L \in SUBSET Node : Arm(L) \/ Publish(L)
  \/ \E m \in Node : Write(m)

Spec == Init /\ [][Next]_vars
=============================================================================
