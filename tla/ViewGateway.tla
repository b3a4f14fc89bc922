---------------------------- MODULE ViewGateway ----------------------------
(***************************************************************************)
(* POST /view/:name from the client's call to its answer: ViewController,  *)
(* executeRuntimeGatewayView, the org-scope adapter, the writes of the     *)
(* plan, and the audit sink beside them.  A client may repeat a request it *)
(* got a 500 for, or has given up waiting for: the attempts may overlap,   *)
(* and nothing cancels one.  Meanwhile versions of the view are published. *)
(*                                                                         *)
(* The plan is a chain of writes (submit list).  Queries, merges and       *)
(* transforms run before, beside and after them, and are seen here only as *)
(* what can still fail; RuntimeExecutor has them.  A publication is one    *)
(* step, as MetaVersions refines it.                                       *)
(***************************************************************************)
EXTENDS AuditSink, Sequences

CONSTANTS
  Attempts,   \* attempt n + 1 repeats attempt n
  Writes,     \* the writes of each version of the view; version 0 is "no such view"
  Broken,     \* versions that compileViewDefinition refuses
  Parts       \* what the scope of a user is read from, a statement each

ASSUME AttemptsAssumption == Attempts \in Nat
ASSUME WritesAssumption == Writes \in Seq(Seq(STRING)) \ {<<>>}

Attempt == 1 .. Attempts
Version == DOMAIN Writes
Kinds == {"plan.started", "plan.succeeded", "plan.failed"}

ASSUME EventAssumption == Event = Attempt \X Kinds

VARIABLES
  published,  \* the latest version of the view, 0 when there is none
  stage,      \* of each attempt: "unsent", "view", "scope", "running", "answered"
  status,     \* HTTP status, 0 before the answer
  version,    \* the version the lookup returned
  scope,      \* the parts of the scope that have been read, until the plan has them
  sent,       \* how many writes of the attempt were sent to the database
  landed,     \* those that are in the database, in order
  done,       \* how many of them were acknowledged
  gaveUp      \* the client no longer waits

requestVars == <<stage, status, version, scope, sent, landed, done, gaveUp>>
vars == <<auditVars, published, requestVars>>

Planned(a) == Writes[version[a]]
Started(a) == delivery[<<a, "plan.started">>] # 0

Init ==
  /\ AuditInit
  /\ published \in {0, 1}
  /\ stage = [a \in Attempt |-> "unsent"]
  /\ status = [a \in Attempt |-> 0]
  /\ version = [a \in Attempt |-> 0]
  /\ scope = [a \in Attempt |-> {}]
  /\ sent = [a \in Attempt |-> 0]
  /\ landed = [a \in Attempt |-> <<>>]
  /\ done = [a \in Attempt |-> 0]
  /\ gaveUp = [a \in Attempt |-> FALSE]

-----------------------------------------------------------------------------
(* The world outside.                                                      *)

Publish ==
  /\ published + 1 \in Version
  /\ published' = published + 1
  /\ UNCHANGED <<requestVars, auditVars>>

GiveUp(a) ==
  /\ a < Attempts
  /\ stage[a] \notin {"unsent", "answered"}
  /\ gaveUp' = [gaveUp EXCEPT ![a] = TRUE]
  /\ UNCHANGED <<stage, status, version, scope, sent, landed, done, published, auditVars>>

-----------------------------------------------------------------------------
(* The request.                                                            *)

MayCall(a) ==
  /\ stage[a] = "unsent"
  /\ a > 1 => gaveUp[a - 1] \/ status[a - 1] = 500

Answer(a, code) ==
  /\ stage' = [stage EXCEPT ![a] = "answered"]
  /\ status' = [status EXCEPT ![a] = code]

\* executeView up to its first await: a request without tenant, user or roles, or a
\* runner without its options, is the caller's error.
Receive(a) ==
  /\ MayCall(a)
  /\ \E valid \in BOOLEAN :
       IF valid
         THEN stage' = [stage EXCEPT ![a] = "view"] /\ UNCHANGED status
         ELSE Answer(a, 400)
  /\ UNCHANGED <<version, scope, sent, landed, done, gaveUp, published, auditVars>>

\* metaKernel.getViewDefinition: the latest version, or 404.
ReadView(a) ==
  /\ stage[a] = "view"
  /\ version' = [version EXCEPT ![a] = published]
  /\ IF published = 0
       THEN Answer(a, 404)
       ELSE stage' = [stage EXCEPT ![a] = "scope"] /\ UNCHANGED status
  /\ UNCHANGED <<scope, sent, landed, done, gaveUp, published, auditVars>>

\* One of the statements of PostgresOrgScopeAdapter.resolve, each on a connection and
\* a snapshot of its own.
ReadScope(a, p) ==
  /\ stage[a] = "scope"
  /\ p \notin scope[a]
  /\ scope' = [scope EXCEPT ![a] = @ \cup {p}]
  /\ UNCHANGED <<stage, status, version, sent, landed, done, gaveUp, published, auditVars>>

\* The lookup or a part of the scope rejects; Promise.all leaves the rest to itself.
ReadFails(a) ==
  /\ stage[a] \in {"view", "scope"}
  /\ Answer(a, 500)
  /\ scope' = [scope EXCEPT ![a] = {}]
  /\ UNCHANGED <<version, sent, landed, done, gaveUp, published, auditVars>>

\* executeRuntimeView: a view that does not compile is a 500 and leaves no event.
Compile(a) ==
  /\ stage[a] = "scope"
  /\ scope[a] = Parts
  /\ IF version[a] \in Broken
       THEN Answer(a, 500) /\ UNCHANGED auditVars
       ELSE /\ stage' = [stage EXCEPT ![a] = "running"]
            /\ HandOver(<<a, "plan.started">>)
            /\ UNCHANGED status
  /\ scope' = [scope EXCEPT ![a] = {}]
  /\ UNCHANGED <<version, sent, landed, done, gaveUp, published>>

\* Slip: the writes of a submit list are not chained.
SendUnchained(a) ==
  /\ stage[a] = "running"
  /\ sent[a] < Len(Planned(a))
  /\ sent' = [sent EXCEPT ![a] = @ + 1]
  /\ UNCHANGED <<stage, status, version, scope, landed, done, gaveUp, published, auditVars>>

\* The layer of the next write starts, and calls its adapter at once: the layers up to
\* it, with the write before it, have been committed.
Send(a) ==
  /\ stage[a] = "running"
  /\ sent[a] = done[a]
  /\ sent[a] < Len(Planned(a))
  /\ sent' = [sent EXCEPT ![a] = @ + 1]
  /\ UNCHANGED <<stage, status, version, scope, landed, done, gaveUp, published, auditVars>>

\* The write in flight reaches the database, before the answer or, when the plan has
\* failed meanwhile, after it.
Land(a) ==
  /\ \/ stage[a] = "running"
     \/ stage[a] = "answered" /\ status[a] = 500 /\ Started(a)
  /\ Len(landed[a]) < sent[a]
  /\ landed' = [landed EXCEPT ![a] = Append(@, Planned(a)[Len(@) + 1])]
  /\ UNCHANGED <<stage, status, version, scope, sent, done, gaveUp, published, auditVars>>

\* Slip: the chain goes on when a write has been sent.
AcknowledgeEarly(a) ==
  /\ stage[a] = "running"
  /\ sent[a] > done[a]
  /\ done' = [done EXCEPT ![a] = @ + 1]
  /\ UNCHANGED <<stage, status, version, scope, sent, landed, gaveUp, published, auditVars>>

Acknowledge(a) ==
  /\ stage[a] = "running"
  /\ Len(landed[a]) > done[a]
  /\ done' = [done EXCEPT ![a] = @ + 1]
  /\ UNCHANGED <<stage, status, version, scope, sent, landed, gaveUp, published, auditVars>>

\* Slip: the success event is sent whichever way the plan ends.
PlanFailsAsSuccess(a) ==
  /\ stage[a] = "running"
  /\ Answer(a, 500)
  /\ HandOver(<<a, "plan.succeeded">>)
  /\ UNCHANGED <<version, scope, sent, landed, done, gaveUp, published>>

\* The plan rejects, at any time after it started: the schedule is refused, a query, a
\* merge, a transform or a write rejects (whether or not the write landed), a result
\* cannot be cloned, or, when every write is done, the output cannot be resolved.
PlanFails(a) ==
  /\ stage[a] = "running"
  /\ Answer(a, 500)
  /\ HandOver(<<a, "plan.failed">>)
  /\ UNCHANGED <<version, scope, sent, landed, done, gaveUp, published>>

\* Slip: the answer waits for the audit trail.
SucceedAudited(a) ==
  /\ stage[a] = "running"
  /\ done[a] = Len(Planned(a))
  /\ delivery[<<a, "plan.started">>] = Over
  /\ Answer(a, 201)
  /\ HandOver(<<a, "plan.succeeded">>)
  /\ UNCHANGED <<version, scope, sent, landed, done, gaveUp, published>>

Succeed(a) ==
  /\ stage[a] = "running"
  /\ done[a] = Len(Planned(a))
  /\ Answer(a, 201)
  /\ HandOver(<<a, "plan.succeeded">>)
  /\ UNCHANGED <<version, scope, sent, landed, done, gaveUp, published>>

\* What the request does next of its own accord.
Proceed(a) ==
  \/ ReadView(a) \/ \E p \in Parts : ReadScope(a, p)
  \/ Compile(a) \/ Send(a) \/ Acknowledge(a) \/ Succeed(a)

\* The write in flight is answered.
WriteAnswered(a) == sent[a] > done[a] /\ (Acknowledge(a) \/ PlanFails(a))

Serve(a) == Proceed(a) \/ ReadFails(a) \/ PlanFails(a)

Next ==
  \/ Publish
  \/ \E a \in Attempt : Receive(a) \/ GiveUp(a) \/ Serve(a) \/ Land(a)
  \/ AuditStep /\ UNCHANGED <<published, requestVars>>

\* A request goes on whenever it can, and every write is answered in the end, one way
\* or the other.  A plan does not have to fail, and nothing is assumed of the audit
\* sink, of publications or of the client.
Spec == Init /\ [][Next]_vars
FairSpec == Spec /\ \A a \in Attempt : WF_vars(Proceed(a)) /\ WF_vars(WriteAnswered(a))

-----------------------------------------------------------------------------
(* Properties.                                                             *)

TypeOK ==
  /\ AuditTypeOK
  /\ published \in Version \cup {0}
  /\ stage \in [Attempt -> {"unsent", "view", "scope", "running", "answered"}]
  /\ status \in [Attempt -> {0, 201, 400, 404, 500}]
  /\ version \in [Attempt -> Version \cup {0}]
  /\ scope \in [Attempt -> SUBSET Parts]
  /\ sent \in [Attempt -> Nat]
  /\ landed \in [Attempt -> Seq(STRING)]
  /\ done \in [Attempt -> Nat]
  /\ gaveUp \in [Attempt -> BOOLEAN]

\* What the status says of the database: 201 means every write of one version, once
\* and in order; 400 and 404 mean nothing was written; and whatever else the status
\* is, what landed is a beginning of the version's writes.
StatusIsHonest ==
  \A a \in Attempt :
    /\ status[a] = 201 => landed[a] = Planned(a)
    /\ status[a] \in {400, 404} \/ version[a] = 0 => landed[a] = <<>>
    /\ landed[a] # <<>> =>
         /\ Len(landed[a]) <= Len(Planned(a))
         /\ \A i \in 1 .. Len(landed[a]) : landed[a][i] = Planned(a)[i]

\* A client that waits for the answer before it repeats a request meets little of the
\* attempt before: nothing of it is sent any more, and of its writes at most the one it
\* had in flight still lands.  (A 500 does not say that a write is missing: the plan may
\* have failed after its last one, and the repetition then does everything again.)
RepeatsRunAlone ==
  [][\A a \in Attempt \ {Attempts} :
       stage[a + 1] # "unsent" /\ ~gaveUp[a] =>
         /\ sent'[a] = sent[a] /\ done'[a] = done[a]
         /\ Len(landed'[a]) <= done[a] + 1]_vars

\* The rows of the trail are true: success is recorded only of a plan that landed as
\* a whole and was answered 201, failure only of one answered 500, and nothing of a
\* plan that never started.
TrailIsTrue ==
  \A a \in Attempt :
    /\ <<a, "plan.succeeded">> \in rows => status[a] = 201 /\ landed[a] = Planned(a)
    /\ <<a, "plan.failed">> \in rows => status[a] = 500
    /\ status[a] \in {400, 404} => ~Started(a)

\* Every request is answered, although nothing makes the audit sink take a step.
RequestsAnswered == \A a \in Attempt : stage[a] # "unsent" ~> stage[a] = "answered"
=============================================================================
