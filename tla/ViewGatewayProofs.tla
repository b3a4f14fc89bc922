------------------------- MODULE ViewGatewayProofs -------------------------
(***************************************************************************)
(* What POST /view/:name says is true, and what it leaves in the audit     *)
(* trail, for every number of attempts, processes, versions and writes.    *)
(***************************************************************************)
EXTENDS ViewGateway, SequenceTheorems, TLAPS

\* What is left of init() for an event is what is missing of the schema, and a row
\* is the end of its event's way.
AuditInv ==
  /\ AuditTypeOK
  /\ InsertFindsSchema
  /\ \A e \in Event : delivery[e] \in Schema => 1 .. delivery[e] - 1 \subseteq schema
  /\ \A e \in rows : delivery[e] = Over

Handed(a, kind) == delivery[<<a, kind>>] # 0

\* How far an attempt is, what it has handed over and what it has written.
Consistent(a) ==
  /\ stage[a] = "answered" <=> status[a] # 0
  /\ stage[a] \in {"unsent", "view", "scope"} \/ status[a] \in {400, 404} => ~Started(a)
  /\ stage[a] = "scope" \/ Started(a) => version[a] \in Version
  /\ stage[a] = "running" \/ status[a] = 201 => Started(a)
  /\ Handed(a, "plan.succeeded") => status[a] = 201
  /\ Handed(a, "plan.failed") => status[a] = 500

\* The writes of an attempt are a chain: one after the other, each sent when the one
\* before it was acknowledged.
Chained(a) ==
  /\ ~Started(a) => landed[a] = <<>> /\ done[a] = 0 /\ sent[a] = 0
  /\ done[a] <= Len(landed[a]) /\ Len(landed[a]) <= sent[a] /\ sent[a] <= done[a] + 1
  /\ Started(a) =>
       /\ sent[a] <= Len(Planned(a))
       /\ \A i \in 1 .. Len(landed[a]) : landed[a][i] = Planned(a)[i]
       /\ status[a] = 201 => done[a] = Len(Planned(a))

\* An attempt is made for a reason.
Provoked(a) == a > 1 /\ stage[a] # "unsent" => gaveUp[a - 1] \/ status[a - 1] = 500

IInv ==
  /\ TypeOK
  /\ AuditInv
  /\ \A a \in Attempt : Consistent(a) /\ Chained(a) /\ Provoked(a)

LEMMA EventOf ==
  ASSUME NEW a \in Attempt, NEW kind \in Kinds
  PROVE  <<a, kind>> \in Event
BY EventAssumption

----------------------------------------------------------------------------
(* The audit sink.                                                         *)

LEMMA HandOverKeepsAudit ==
  ASSUME AuditInv, NEW e \in Event, HandOver(e)
  PROVE  /\ AuditInv'
         /\ delivery'[e] # 0
         /\ \A f \in Event \ {e} : delivery'[f] = delivery[f]
<1> USE SinkAssumption, StatementsAssumption
    DEF AuditInv, AuditTypeOK, InsertFindsSchema, Schema, Insert, Over
<1>1. /\ delivery'[e] \in {1, Insert} /\ (delivery'[e] = Insert => initialized[SinkOf[e]])
      /\ \A f \in Event \ {e} : delivery'[f] = delivery[f]
      /\ UNCHANGED <<initialized, schema, rows>>
  BY DEF HandOver
<1>2. AuditTypeOK' BY <1>1 DEF HandOver
<1>3. SinkOf[e] \in Sink OBVIOUS
<1>4. InsertFindsSchema' BY <1>1, <1>3
<1>5. \A f \in Event : delivery'[f] \in Schema => 1 .. delivery'[f] - 1 \subseteq schema'
  BY <1>1
<1>6. \A f \in rows' : delivery'[f] = Over BY <1>1 DEF HandOver
<1> QED BY <1>1, <1>2, <1>4, <1>5, <1>6

LEMMA AuditStepKeepsAudit ==
  ASSUME AuditInv, AuditStep
  PROVE  AuditInv' /\ \A f \in Event : delivery'[f] # 0 <=> delivery[f] # 0
<1>1. PICK e \in Event : RunStatement(e) \/ InsertRow(e) \/ Drop(e)
  BY DEF AuditStep
<1> USE SinkAssumption, StatementsAssumption
    DEF AuditInv, AuditTypeOK, InsertFindsSchema, Schema, Insert, Over
<1>2. CASE RunStatement(e)
  <2>1. AuditTypeOK'
    <3>1. (initialized[SinkOf[e]] \/ delivery[e] = Statements) \in BOOLEAN OBVIOUS
    <3>2. initialized' \in [Sink -> BOOLEAN] BY <1>2, <3>1, Zenon DEF RunStatement
    <3>3. delivery[e] + 1 \in 0 .. Over BY <1>2 DEF RunStatement
    <3>4. delivery' \in [Event -> 0 .. Over] BY <1>2, <3>3 DEF RunStatement
    <3>5. schema' \subseteq Schema /\ rows' \subseteq Event BY <1>2 DEF RunStatement
    <3> QED BY <3>2, <3>4, <3>5
  <2>2. \A f \in Event : delivery'[f] # 0 <=> delivery[f] # 0 BY <1>2 DEF RunStatement
  <2>3. 1 .. delivery[e] \subseteq schema' BY <1>2 DEF RunStatement
  <2>4. \A f \in Event : delivery'[f] \in Schema => 1 .. delivery'[f] - 1 \subseteq schema'
    BY <1>2, <2>3 DEF RunStatement
  <2>5. delivery[e] = Statements => schema' = Schema BY <1>2, <2>1, <2>3
  <2>6. InsertFindsSchema' BY <1>2, <2>1, <2>5 DEF RunStatement
  <2>7. \A f \in rows' : delivery'[f] = Over BY <1>2 DEF RunStatement
  <2> QED BY <2>1, <2>2, <2>4, <2>6, <2>7
<1>3. CASE InsertRow(e) BY <1>3 DEF InsertRow
<1>4. CASE Drop(e)
  <2>0. /\ delivery' = [delivery EXCEPT ![e] = Over] /\ UNCHANGED initialized
        /\ schema \subseteq schema' /\ schema' \subseteq Schema
        /\ rows \subseteq rows' /\ rows' \subseteq rows \cup {e}
    BY <1>4 DEF Drop
  <2>1. AuditTypeOK' BY <2>0
  <2>2. \A f \in Event : delivery'[f] # 0 <=> delivery[f] # 0 BY <1>4 DEF Drop
  <2>3. \A f \in Event : delivery'[f] \in Schema \cup {Insert} => delivery'[f] = delivery[f]
    BY <2>0
  <2>4. InsertFindsSchema' BY <2>0, <2>3
  <2>5. \A f \in Event : delivery'[f] \in Schema => 1 .. delivery'[f] - 1 \subseteq schema'
    BY <2>0, <2>3
  <2>6. \A f \in rows' : delivery'[f] = Over BY <2>0
  <2> QED BY <2>1, <2>2, <2>4, <2>5, <2>6
<1> QED BY <1>1, <1>2, <1>3, <1>4

\* The parts of the invariant do not look at the audit sink but for what was handed
\* over, so its steps and those of the other attempts leave them alone.
LEMMA Undisturbed ==
  ASSUME NEW a \in Attempt, Consistent(a), Chained(a),
         stage'[a] = stage[a], status'[a] = status[a], version'[a] = version[a],
         sent'[a] = sent[a], landed'[a] = landed[a], done'[a] = done[a],
         \A kind \in Kinds : delivery'[<<a, kind>>] # 0 <=> delivery[<<a, kind>>] # 0
  PROVE  Consistent(a)' /\ Chained(a)'
BY DEF Consistent, Chained, Started, Handed, Planned, Kinds

LEMMA StillProvoked ==
  ASSUME NEW a \in Attempt, Provoked(a), stage'[a] # "unsent" => stage[a] # "unsent",
         gaveUp[a - 1] => gaveUp'[a - 1], status[a - 1] = 500 => status'[a - 1] = 500
  PROVE  Provoked(a)'
BY DEF Provoked

LEMMA AuditUntouched ==
  ASSUME AuditInv, UNCHANGED auditVars
  PROVE  AuditInv'
BY DEF AuditInv, AuditTypeOK, InsertFindsSchema, auditVars

LEMMA TypesKept ==
  ASSUME TypeOK, AuditInv', UNCHANGED <<version, sent, landed, done, gaveUp, published>>,
         scope' \in [Attempt -> SUBSET Parts],
         stage' \in [Attempt -> {"unsent", "view", "scope", "running", "answered"}],
         status' \in [Attempt -> {0, 201, 400, 404, 500}]
  PROVE  TypeOK'
BY DEF TypeOK, AuditInv

LEMMA PlannedType ==
  ASSUME NEW a \in Attempt, version[a] \in Version
  PROVE  Planned(a) \in Seq(STRING) /\ Len(Planned(a)) \in Nat
BY WritesAssumption DEF Planned, Version

----------------------------------------------------------------------------
(* The world and the client.                                               *)

LEMMA PublishPreserves ==
  ASSUME IInv, Publish
  PROVE  IInv'
<1>1. TypeOK' BY DEF IInv, TypeOK, AuditTypeOK, auditVars, Publish, requestVars
<1>2. AuditInv' BY AuditUntouched DEF IInv, Publish
<1>3. ASSUME NEW b \in Attempt PROVE Consistent(b)' /\ Chained(b)'
  BY Undisturbed DEF IInv, Publish, requestVars, auditVars
<1>4. ASSUME NEW b \in Attempt PROVE Provoked(b)'
  BY StillProvoked DEF IInv, Publish, requestVars
<1> QED BY <1>1, <1>2, <1>3, <1>4 DEF IInv

LEMMA GiveUpPreserves ==
  ASSUME IInv, NEW a \in Attempt, GiveUp(a)
  PROVE  IInv'
<1>1. TypeOK' BY DEF IInv, TypeOK, AuditTypeOK, auditVars, GiveUp
<1>2. AuditInv' BY AuditUntouched DEF IInv, GiveUp
<1>3. ASSUME NEW b \in Attempt PROVE Consistent(b)' /\ Chained(b)'
  BY Undisturbed DEF IInv, GiveUp, auditVars
<1>4. ASSUME NEW b \in Attempt PROVE Provoked(b)'
  <2>1. Provoked(b) BY DEF IInv
  <2>2. b > 1 => b - 1 \in Attempt BY AttemptsAssumption DEF Attempt
  <2> QED BY <2>1, <2>2 DEF IInv, TypeOK, GiveUp, Provoked
<1> QED BY <1>1, <1>2, <1>3, <1>4 DEF IInv

LEMMA AuditPreserves ==
  ASSUME IInv, AuditStep, UNCHANGED <<published, requestVars>>
  PROVE  IInv'
<1>1. AuditInv' /\ \A f \in Event : delivery'[f] # 0 <=> delivery[f] # 0
  BY AuditStepKeepsAudit DEF IInv
<1>2. TypeOK' BY <1>1 DEF IInv, TypeOK, AuditInv, requestVars
<1>3. ASSUME NEW b \in Attempt PROVE Consistent(b)' /\ Chained(b)'
  BY <1>1, Undisturbed, EventOf DEF IInv, requestVars
<1>4. ASSUME NEW b \in Attempt PROVE Provoked(b)'
  BY StillProvoked DEF IInv, requestVars
<1> QED BY <1>1, <1>2, <1>3, <1>4 DEF IInv

----------------------------------------------------------------------------
(* The request.                                                            *)

LEMMA ReceivePreserves ==
  ASSUME IInv, NEW a \in Attempt, Receive(a)
  PROVE  IInv'
<1>0. /\ stage[a] = "unsent" /\ (a > 1 => gaveUp[a - 1] \/ status[a - 1] = 500)
      /\ \/ stage' = [stage EXCEPT ![a] = "view"] /\ UNCHANGED status
         \/ /\ stage' = [stage EXCEPT ![a] = "answered"]
            /\ status' = [status EXCEPT ![a] = 400]
      /\ UNCHANGED <<version, scope, sent, landed, done, gaveUp, published, auditVars>>
  BY DEF Receive, MayCall, Answer
<1>1. AuditInv' BY <1>0, AuditUntouched DEF IInv
<1>2. TypeOK'
  <2>0. PICK now, code : /\ stage' = [stage EXCEPT ![a] = now] /\ now \in {"view", "answered"}
                         /\ \/ UNCHANGED status
                            \/ status' = [status EXCEPT ![a] = code] /\ code = 400
    BY <1>0
  <2>1. stage' \in [Attempt -> {"unsent", "view", "scope", "running", "answered"}]
    BY <2>0 DEF IInv, TypeOK
  <2>2. status' \in [Attempt -> {0, 201, 400, 404, 500}]
    <3>1. CASE UNCHANGED status BY <3>1 DEF IInv, TypeOK
    <3>2. CASE status' = [status EXCEPT ![a] = code] BY <2>0, <3>2 DEF IInv, TypeOK
    <3> QED BY <2>0, <3>1, <3>2
  <2> QED BY <1>0, <1>1, <2>1, <2>2, TypesKept DEF IInv, TypeOK
<1>3. ASSUME NEW b \in Attempt PROVE Consistent(b)' /\ Chained(b)'
  <2>1. CASE b = a
    BY <1>0, <2>1, EventOf
    DEF IInv, TypeOK, auditVars, Consistent, Chained, Started, Handed, Planned, Kinds
  <2>2. CASE b # a BY <1>0, <2>2, Undisturbed DEF IInv, TypeOK, auditVars
  <2> QED BY <2>1, <2>2
<1>4. ASSUME NEW b \in Attempt PROVE Provoked(b)'
  <2>1. Provoked(b) /\ Consistent(a) BY DEF IInv
  <2>2. b > 1 => b - 1 \in Attempt BY AttemptsAssumption DEF Attempt
  <2> QED BY <1>0, <2>1, <2>2 DEF IInv, TypeOK, Provoked, Consistent
<1> QED BY <1>1, <1>2, <1>3, <1>4 DEF IInv
LEMMA ReadViewPreserves ==
  ASSUME IInv, NEW a \in Attempt, ReadView(a)
  PROVE  IInv'
<1>0. /\ stage[a] = "view"
      /\ version' = [version EXCEPT ![a] = published]
      /\ \/ /\ published \in Version
            /\ stage' = [stage EXCEPT ![a] = "scope"] /\ UNCHANGED status
         \/ /\ stage' = [stage EXCEPT ![a] = "answered"]
            /\ status' = [status EXCEPT ![a] = 404]
      /\ UNCHANGED <<scope, sent, landed, done, gaveUp, published, auditVars>>
  BY DEF ReadView, Answer, IInv, TypeOK
<1>1. AuditInv' BY <1>0, AuditUntouched DEF IInv
<1>2. TypeOK'
  <2>0. PICK now, code : /\ stage' = [stage EXCEPT ![a] = now] /\ now \in {"scope", "answered"}
                         /\ \/ UNCHANGED status
                            \/ status' = [status EXCEPT ![a] = code] /\ code = 404
    BY <1>0
  <2>1. stage' \in [Attempt -> {"unsent", "view", "scope", "running", "answered"}]
    BY <2>0 DEF IInv, TypeOK
  <2>2. status' \in [Attempt -> {0, 201, 400, 404, 500}]
    <3>1. CASE UNCHANGED status BY <3>1 DEF IInv, TypeOK
    <3>2. CASE status' = [status EXCEPT ![a] = code] BY <2>0, <3>2 DEF IInv, TypeOK
    <3> QED BY <2>0, <3>1, <3>2
  <2>3. version' \in [Attempt -> Version \cup {0}] BY <1>0 DEF IInv, TypeOK
  <2> QED BY <1>0, <1>1, <2>1, <2>2, <2>3 DEF IInv, TypeOK, AuditInv
<1>3. ASSUME NEW b \in Attempt PROVE Consistent(b)' /\ Chained(b)'
  <2>1. CASE b = a
    BY <1>0, <2>1, EventOf
    DEF IInv, TypeOK, auditVars, Consistent, Chained, Started, Handed, Planned, Kinds
  <2>2. CASE b # a BY <1>0, <2>2, Undisturbed DEF IInv, TypeOK, auditVars
  <2> QED BY <2>1, <2>2
<1>4. ASSUME NEW b \in Attempt PROVE Provoked(b)'
  <2>1. Provoked(b) /\ Consistent(a) BY DEF IInv
  <2>2. b > 1 => b - 1 \in Attempt BY AttemptsAssumption DEF Attempt
  <2> QED BY <1>0, <2>1, <2>2 DEF IInv, TypeOK, Provoked, Consistent
<1> QED BY <1>1, <1>2, <1>3, <1>4 DEF IInv

LEMMA ReadScopePreserves ==
  ASSUME IInv, NEW a \in Attempt, NEW p \in Parts, ReadScope(a, p)
  PROVE  IInv'
<1>1. TypeOK' BY DEF IInv, TypeOK, AuditTypeOK, auditVars, ReadScope
<1>2. AuditInv' BY AuditUntouched DEF IInv, ReadScope
<1>3. ASSUME NEW b \in Attempt PROVE Consistent(b)' /\ Chained(b)'
  BY Undisturbed DEF IInv, ReadScope, auditVars
<1>4. ASSUME NEW b \in Attempt PROVE Provoked(b)'
  BY StillProvoked DEF IInv, ReadScope
<1> QED BY <1>1, <1>2, <1>3, <1>4 DEF IInv

LEMMA ReadFailsPreserves ==
  ASSUME IInv, NEW a \in Attempt, ReadFails(a)
  PROVE  IInv'
<1>0. /\ stage[a] \in {"view", "scope"}
      /\ stage' = [stage EXCEPT ![a] = "answered"] /\ status' = [status EXCEPT ![a] = 500]
      /\ scope' = [scope EXCEPT ![a] = {}]
      /\ UNCHANGED <<version, sent, landed, done, gaveUp, published, auditVars>>
  BY DEF ReadFails, Answer
<1>1. TypeOK' BY <1>0 DEF IInv, TypeOK, AuditTypeOK, auditVars
<1>2. AuditInv' BY <1>0, AuditUntouched DEF IInv
<1>3. ASSUME NEW b \in Attempt PROVE Consistent(b)' /\ Chained(b)'
  <2>1. CASE b = a
    <3>1. Consistent(a) /\ Chained(a) /\ ~Started(a) /\ status[a] = 0
      BY <1>0 DEF IInv, Consistent
    <3>2. stage'[a] = "answered" /\ status'[a] = 500 BY <1>0 DEF IInv, TypeOK
    <3>3. ~Started(a)' BY <1>0, <3>1 DEF Started, auditVars
    <3>4. Consistent(a)' BY <1>0, <3>1, <3>2, <3>3 DEF Consistent, Handed, auditVars
    <3>5. Chained(a)' BY <1>0, <3>1, <3>3 DEF Chained
    <3> QED BY <2>1, <3>4, <3>5
  <2>2. CASE b # a BY <1>0, <2>2, Undisturbed DEF IInv, TypeOK, auditVars
  <2> QED BY <2>1, <2>2
<1>4. ASSUME NEW b \in Attempt PROVE Provoked(b)'
  <2>1. Provoked(b) /\ Consistent(a) BY DEF IInv
  <2>2. b > 1 => b - 1 \in Attempt BY AttemptsAssumption DEF Attempt
  <2> QED BY <1>0, <2>1, <2>2 DEF IInv, TypeOK, Provoked, Consistent
<1> QED BY <1>1, <1>2, <1>3, <1>4 DEF IInv

LEMMA SendPreserves ==
  ASSUME IInv, NEW a \in Attempt, Send(a)
  PROVE  IInv'
<1>0. /\ Started(a) /\ status[a] = 0 /\ Consistent(a) /\ Chained(a) /\ version[a] \in Version
      /\ sent[a] = done[a] /\ sent[a] < Len(Planned(a))
      /\ sent' = [sent EXCEPT ![a] = @ + 1]
      /\ UNCHANGED <<stage, status, version, scope, landed, done, gaveUp, published, auditVars>>
  BY DEF Send, IInv, Consistent
<1>1. TypeOK' BY <1>0 DEF IInv, TypeOK, AuditTypeOK, auditVars
<1>2. AuditInv' BY <1>0, AuditUntouched DEF IInv
<1>3. ASSUME NEW b \in Attempt PROVE Consistent(b)' /\ Chained(b)'
  <2>1. CASE b = a
    <3>1. Consistent(a)' BY <1>0 DEF Consistent, Started, Handed, auditVars
    <3>2. Started(a)' /\ Planned(a)' = Planned(a) BY <1>0 DEF Started, auditVars, Planned
    <3>3. landed[a] \in Seq(STRING) /\ done[a] \in Nat /\ sent'[a] = done[a] + 1
      BY <1>0 DEF IInv, TypeOK
    <3>4. Chained(a)' BY <1>0, <3>2, <3>3, PlannedType DEF Chained
    <3> QED BY <2>1, <3>1, <3>4
  <2>2. CASE b # a BY <1>0, <2>2, Undisturbed DEF IInv, TypeOK, auditVars
  <2> QED BY <2>1, <2>2
<1>4. ASSUME NEW b \in Attempt PROVE Provoked(b)'
  BY <1>0, StillProvoked DEF IInv
<1> QED BY <1>1, <1>2, <1>3, <1>4 DEF IInv

LEMMA LandPreserves ==
  ASSUME IInv, NEW a \in Attempt, Land(a)
  PROVE  IInv'
<1>0. /\ Started(a) /\ status[a] # 201 /\ Consistent(a) /\ Chained(a) /\ version[a] \in Version
      /\ Len(landed[a]) < sent[a]
      /\ landed' = [landed EXCEPT ![a] = Append(@, Planned(a)[Len(@) + 1])]
      /\ UNCHANGED <<stage, status, version, scope, sent, done, gaveUp, published, auditVars>>
  BY DEF Land, IInv, Consistent
<1> DEFINE next == Planned(a)[Len(landed[a]) + 1]
<1>1. /\ next \in STRING /\ Append(landed[a], next) \in Seq(STRING)
      /\ Len(Append(landed[a], next)) = Len(landed[a]) + 1
      /\ \A i \in 1 .. Len(landed[a]) + 1 : Append(landed[a], next)[i] = Planned(a)[i]
  <2>1. landed[a] \in Seq(STRING) /\ done[a] \in Nat /\ sent[a] \in Nat BY DEF IInv, TypeOK
  <2>2. Len(landed[a]) + 1 \in 1 .. Len(Planned(a)) BY <1>0, <2>1, PlannedType DEF Chained
  <2>3. next \in STRING BY <1>0, <2>1, <2>2, PlannedType
  <2> QED BY <1>0, <2>1, <2>3 DEF Chained
<1>2. TypeOK' BY <1>0, <1>1 DEF IInv, TypeOK, AuditTypeOK, auditVars
<1>3. AuditInv' BY <1>0, AuditUntouched DEF IInv
<1>4. ASSUME NEW b \in Attempt PROVE Consistent(b)' /\ Chained(b)'
  <2>1. CASE b = a
    <3>1. landed'[a] = Append(landed[a], next) BY <1>0 DEF IInv, TypeOK
    <3>2. Consistent(a)' BY <1>0 DEF Consistent, Started, Handed, auditVars
    <3>3. Started(a)' /\ Planned(a)' = Planned(a) BY <1>0 DEF Started, auditVars, Planned
    <3>4. landed[a] \in Seq(STRING) /\ done[a] \in Nat /\ sent[a] \in Nat BY DEF IInv, TypeOK
    <3>5. done'[a] = done[a] /\ sent'[a] = sent[a] /\ status'[a] = status[a] BY <1>0
    <3>6. Len(landed'[a]) = Len(landed[a]) + 1
      BY <1>1, <3>1
    <3>7. \A i \in 1 .. Len(landed'[a]) : landed'[a][i] = Planned(a)[i] BY <1>1, <3>1, <3>6
    <3>8. Chained(a)'
      <4> HIDE DEF next
      <4>1. done[a] <= Len(landed[a]) /\ sent[a] <= done[a] + 1 /\ sent[a] <= Len(Planned(a))
        BY <1>0 DEF Chained
      <4> QED BY <1>0, <3>3, <3>4, <3>5, <3>6, <3>7, <4>1 DEF Chained
    <3> QED BY <2>1, <3>2, <3>8
  <2>2. CASE b # a BY <1>0, <2>2, Undisturbed DEF IInv, TypeOK, auditVars
  <2> QED BY <2>1, <2>2
<1>5. ASSUME NEW b \in Attempt PROVE Provoked(b)'
  BY <1>0, StillProvoked DEF IInv
<1> QED BY <1>2, <1>3, <1>4, <1>5 DEF IInv

LEMMA AcknowledgePreserves ==
  ASSUME IInv, NEW a \in Attempt, Acknowledge(a)
  PROVE  IInv'
<1>0. /\ Started(a) /\ status[a] = 0 /\ Consistent(a) /\ Chained(a)
      /\ Len(landed[a]) > done[a]
      /\ done' = [done EXCEPT ![a] = @ + 1]
      /\ UNCHANGED <<stage, status, version, scope, sent, landed, gaveUp, published, auditVars>>
  BY DEF Acknowledge, IInv, Consistent
<1>1. TypeOK' BY <1>0 DEF IInv, TypeOK, AuditTypeOK, auditVars
<1>2. AuditInv' BY <1>0, AuditUntouched DEF IInv
<1>3. ASSUME NEW b \in Attempt PROVE Consistent(b)' /\ Chained(b)'
  <2>1. CASE b = a
    <3>1. Consistent(a)' BY <1>0 DEF Consistent, Started, Handed, auditVars
    <3>2. Started(a)' /\ Planned(a)' = Planned(a) BY <1>0 DEF Started, auditVars, Planned
    <3>3. /\ landed[a] \in Seq(STRING) /\ sent[a] \in Nat
          /\ done[a] \in Nat /\ done'[a] = done[a] + 1
      BY <1>0 DEF IInv, TypeOK
    <3>4. Chained(a)' BY <1>0, <3>2, <3>3 DEF Chained
    <3> QED BY <2>1, <3>1, <3>4
  <2>2. CASE b # a BY <1>0, <2>2, Undisturbed DEF IInv, TypeOK, auditVars
  <2> QED BY <2>1, <2>2
<1>4. ASSUME NEW b \in Attempt PROVE Provoked(b)'
  BY <1>0, StillProvoked DEF IInv
<1> QED BY <1>1, <1>2, <1>3, <1>4 DEF IInv

LEMMA CompilePreserves ==
  ASSUME IInv, NEW a \in Attempt, Compile(a)
  PROVE  IInv'
<1>0. /\ stage[a] = "scope" /\ scope' = [scope EXCEPT ![a] = {}]
      /\ \/ /\ stage' = [stage EXCEPT ![a] = "answered"]
            /\ status' = [status EXCEPT ![a] = 500] /\ UNCHANGED auditVars
         \/ /\ stage' = [stage EXCEPT ![a] = "running"] /\ UNCHANGED status
            /\ HandOver(<<a, "plan.started">>)
      /\ UNCHANGED <<version, sent, landed, done, gaveUp, published>>
  BY DEF Compile, Answer
<1>1. /\ AuditInv' /\ \A b \in Attempt : \A kind \in Kinds :
           <<b, kind>> # <<a, "plan.started">> => delivery'[<<b, kind>>] = delivery[<<b, kind>>]
      /\ stage'[a] = "running" => delivery'[<<a, "plan.started">>] # 0
      /\ stage'[a] # "running" => delivery' = delivery
  <2>1. CASE UNCHANGED auditVars /\ stage' = [stage EXCEPT ![a] = "answered"]
    BY <2>1, AuditUntouched DEF IInv, TypeOK, auditVars
  <2>2. CASE HandOver(<<a, "plan.started">>) /\ stage' = [stage EXCEPT ![a] = "running"]
    <3>1. stage'[a] = "running" BY <2>2 DEF IInv, TypeOK
    <3>2. "plan.started" \in Kinds BY DEF Kinds
    <3> QED BY <2>2, <3>1, <3>2, HandOverKeepsAudit, EventOf DEF IInv
  <2> QED BY <1>0, <2>1, <2>2
<1>2. TypeOK'
  <2>0. PICK now, code : /\ stage' = [stage EXCEPT ![a] = now] /\ now \in {"running", "answered"}
                         /\ \/ UNCHANGED status
                            \/ status' = [status EXCEPT ![a] = code] /\ code = 500
    BY <1>0
  <2>1. stage' \in [Attempt -> {"unsent", "view", "scope", "running", "answered"}]
    BY <2>0 DEF IInv, TypeOK
  <2>2. status' \in [Attempt -> {0, 201, 400, 404, 500}]
    <3>1. CASE UNCHANGED status BY <3>1 DEF IInv, TypeOK
    <3>2. CASE status' = [status EXCEPT ![a] = code] BY <2>0, <3>2 DEF IInv, TypeOK
    <3> QED BY <2>0, <3>1, <3>2
  <2>3. scope' \in [Attempt -> SUBSET Parts] BY <1>0 DEF IInv, TypeOK
  <2> QED BY <1>0, <1>1, <2>1, <2>2, <2>3, TypesKept DEF IInv
<1>3. ASSUME NEW b \in Attempt PROVE Consistent(b)' /\ Chained(b)'
  <2>1. CASE b = a
    <3>1. Consistent(a) /\ Chained(a) /\ ~Started(a) /\ version[a] \in Version
      BY <1>0 DEF IInv, Consistent
    <3>2. /\ delivery'[<<a, "plan.succeeded">>] = delivery[<<a, "plan.succeeded">>]
          /\ delivery'[<<a, "plan.failed">>] = delivery[<<a, "plan.failed">>]
          /\ stage'[a] # "running" => delivery'[<<a, "plan.started">>] = 0
      BY <1>1, <3>1 DEF Kinds, Started
    <3>3. Consistent(a)' BY <1>0, <1>1, <3>1, <3>2 DEF IInv, TypeOK, Consistent, Started, Handed
    <3>4. /\ landed'[a] = <<>> /\ done'[a] = 0 /\ sent'[a] = 0
          /\ status'[a] # 201 /\ Len(Planned(a)') \in Nat
      BY <1>0, <3>1, PlannedType DEF IInv, TypeOK, Consistent, Chained, Planned
    <3>5. Chained(a)' BY <3>4 DEF Chained
    <3> QED BY <2>1, <3>3, <3>5
  <2>2. CASE b # a
    <3>1. Consistent(b) /\ Chained(b) BY DEF IInv
    <3>2. stage'[b] = stage[b] /\ status'[b] = status[b] BY <1>0, <2>2 DEF IInv, TypeOK, Answer
    <3>3. \A k \in Kinds : delivery'[<<b, k>>] # 0 <=> delivery[<<b, k>>] # 0 BY <1>1, <2>2
    <3> QED BY <1>0, <3>1, <3>2, <3>3, Undisturbed
  <2> QED BY <2>1, <2>2
<1>4. ASSUME NEW b \in Attempt PROVE Provoked(b)'
  <2>1. Provoked(b) /\ Consistent(a) BY DEF IInv
  <2>2. b > 1 => b - 1 \in Attempt BY AttemptsAssumption DEF Attempt
  <2> QED BY <1>0, <2>1, <2>2 DEF IInv, TypeOK, Provoked, Consistent
<1> QED BY <1>1, <1>2, <1>3, <1>4 DEF IInv

\* The two ways a plan ends.
LEMMA EndPreserves ==
  ASSUME IInv, NEW a \in Attempt, NEW code \in {201, 500}, NEW kind \in Kinds,
         stage[a] = "running",
         \/ code = 201 /\ kind = "plan.succeeded" /\ done[a] = Len(Planned(a))
         \/ code = 500 /\ kind = "plan.failed",
         Answer(a, code), HandOver(<<a, kind>>),
         UNCHANGED <<version, scope, sent, landed, done, gaveUp, published>>
  PROVE  IInv'
<1>1. /\ AuditInv' /\ delivery'[<<a, kind>>] # 0
      /\ \A b \in Attempt : \A k \in Kinds :
           <<b, k>> # <<a, kind>> => delivery'[<<b, k>>] = delivery[<<b, k>>]
  BY HandOverKeepsAudit, EventOf DEF IInv
<1>2. TypeOK' BY <1>1, TypesKept DEF IInv, TypeOK, Answer
<1>3. ASSUME NEW b \in Attempt PROVE Consistent(b)' /\ Chained(b)'
  <2>1. CASE b = a
    <3>1. Consistent(a) /\ Chained(a) /\ Started(a) /\ status[a] = 0 BY DEF IInv, Consistent
    <3>2. stage'[a] = "answered" /\ status'[a] = code BY DEF IInv, TypeOK, Answer
    <3>0. \A k \in Kinds \ {kind} : delivery'[<<a, k>>] = delivery[<<a, k>>] BY <1>1
    <3>3. Started(a)' /\ Planned(a)' = Planned(a) BY <3>0, <3>1 DEF Started, Kinds, Planned
    <3>4. /\ Handed(a, "plan.succeeded")' => code = 201
          /\ Handed(a, "plan.failed")' => code = 500
      BY <3>0, <3>1 DEF Consistent, Handed, Kinds
    <3>5. Consistent(a)' BY <3>1, <3>2, <3>3, <3>4 DEF Consistent
    <3>6. Chained(a)' BY <3>1, <3>2, <3>3 DEF Chained
    <3> QED BY <2>1, <3>5, <3>6
  <2>2. CASE b # a
    <3>1. Consistent(b) /\ Chained(b) BY DEF IInv
    <3>2. stage'[b] = stage[b] /\ status'[b] = status[b] BY <2>2 DEF IInv, TypeOK, Answer
    <3>3. \A k \in Kinds : delivery'[<<b, k>>] # 0 <=> delivery[<<b, k>>] # 0 BY <1>1, <2>2
    <3> QED BY <3>1, <3>2, <3>3, Undisturbed
  <2> QED BY <2>1, <2>2
<1>4. ASSUME NEW b \in Attempt PROVE Provoked(b)'
  <2>1. Provoked(b) /\ Consistent(a) BY DEF IInv
  <2>2. b > 1 => b - 1 \in Attempt BY AttemptsAssumption DEF Attempt
  <2> QED BY <2>1, <2>2 DEF IInv, TypeOK, Provoked, Consistent, Answer
<1> QED BY <1>1, <1>2, <1>3, <1>4 DEF IInv

LEMMA ServePreserves ==
  ASSUME IInv, NEW a \in Attempt, Serve(a)
  PROVE  IInv'
<1>1. CASE PlanFails(a) BY <1>1, EndPreserves DEF PlanFails, Kinds
<1>2. CASE Succeed(a) BY <1>2, EndPreserves DEF Succeed, Kinds
<1> QED
  BY <1>1, <1>2, ReadViewPreserves, ReadFailsPreserves, ReadScopePreserves,
     CompilePreserves, SendPreserves, AcknowledgePreserves
  DEF Serve, Proceed

----------------------------------------------------------------------------
LEMMA InitEstablishes == Init => IInv
<1> SUFFICES ASSUME Init PROVE IInv
  OBVIOUS
<1>1. AuditInv
  BY StatementsAssumption
  DEF Init, AuditInit, AuditInv, AuditTypeOK, InsertFindsSchema, Schema, Insert, Over
<1>2. TypeOK BY <1>1, WritesAssumption DEF Init, TypeOK, AuditInv, Version
<1>3. ASSUME NEW a \in Attempt PROVE Consistent(a) /\ Chained(a) /\ Provoked(a)
  <2>1. \A kind \in Kinds : delivery[<<a, kind>>] = 0 BY EventOf DEF Init, AuditInit
  <2> QED
    BY <2>1, AttemptsAssumption
    DEF Init, Consistent, Chained, Provoked, Started, Handed, Kinds, Attempt
<1> QED BY <1>1, <1>2, <1>3 DEF IInv

LEMMA NextPreserves == IInv /\ [Next]_vars => IInv'
<1> SUFFICES ASSUME IInv, [Next]_vars PROVE IInv'
  OBVIOUS
<1>1. CASE Publish BY <1>1, PublishPreserves
<1>2. CASE \E a \in Attempt : Receive(a) \/ GiveUp(a) \/ Serve(a) \/ Land(a)
  BY <1>2, ReceivePreserves, GiveUpPreserves, ServePreserves, LandPreserves
<1>3. CASE AuditStep /\ UNCHANGED <<published, requestVars>> BY <1>3, AuditPreserves
<1>4. CASE UNCHANGED vars
  <2>1. AuditInv' BY <1>4, AuditUntouched DEF IInv, vars
  <2>2. TypeOK' BY <1>4, <2>1 DEF IInv, TypeOK, AuditInv, vars, requestVars
  <2>3. ASSUME NEW b \in Attempt PROVE Consistent(b)' /\ Chained(b)' /\ Provoked(b)'
    BY <1>4, Undisturbed, StillProvoked DEF IInv, vars, requestVars, auditVars
  <2> QED BY <2>1, <2>2, <2>3 DEF IInv
<1> QED BY <1>1, <1>2, <1>3, <1>4 DEF Next

\* executeView and the sink beside it keep the invariant, whatever the attempts, the
\* publications, the failures and the deliveries of the trail do to one another.
THEOREM Invariant == Spec => []IInv
<1>1. Init => IInv BY InitEstablishes
<1>2. IInv /\ [Next]_vars => IInv' BY NextPreserves
<1> QED BY <1>1, <1>2, PTL DEF Spec

\* The variables keep their types.
THEOREM TypeCorrect == Spec => []TypeOK
<1>1. IInv => TypeOK BY DEF IInv
<1> QED BY <1>1, Invariant, PTL

\* No event of the trail is inserted by a process that believes in a schema which is
\* not there: init() may run any number of times at once and fail anywhere.
THEOREM InsertsFindSchema == Spec => []InsertFindsSchema
<1>1. IInv => InsertFindsSchema BY DEF IInv, AuditInv
<1> QED BY <1>1, Invariant, PTL

\* The status of an answer says what is in the database.
THEOREM StatusesAreHonest == Spec => []StatusIsHonest
<1>1. ASSUME IInv, NEW a \in Attempt
      PROVE  /\ status[a] = 201 => landed[a] = Planned(a)
             /\ status[a] \in {400, 404} \/ version[a] = 0 => landed[a] = <<>>
             /\ landed[a] # <<>> =>
                  /\ Len(landed[a]) <= Len(Planned(a))
                  /\ \A i \in 1 .. Len(landed[a]) : landed[a][i] = Planned(a)[i]
  <2>1. Consistent(a) /\ Chained(a) /\ landed[a] \in Seq(STRING) /\ done[a] \in Nat
        /\ sent[a] \in Nat
    BY <1>1 DEF IInv, TypeOK
  <2>2. CASE Started(a)
    <3>1. Planned(a) \in Seq(STRING) BY <2>1, <2>2, PlannedType DEF Consistent
    <3>0. Len(landed[a]) <= Len(Planned(a)) BY <2>1, <2>2, <3>1 DEF Chained
    <3>2. status[a] = 201 => Len(landed[a]) = Len(Planned(a))
      BY <2>1, <2>2, <3>0, <3>1 DEF Chained
    <3>3. status[a] = 201 => landed[a] = Planned(a)
      BY <2>1, <2>2, <3>1, <3>2, SeqEqual DEF Chained
    <3>4. status[a] \notin {400, 404} /\ version[a] # 0
      BY <2>1, <2>2, WritesAssumption DEF Consistent, Version
    <3> QED BY <2>1, <2>2, <3>0, <3>3, <3>4 DEF Chained
  <2>3. CASE ~Started(a) BY <2>1, <2>3 DEF Chained, Consistent
  <2> QED BY <2>2, <2>3
<1>2. IInv => StatusIsHonest BY <1>1 DEF StatusIsHonest
<1> QED BY <1>2, Invariant, PTL

\* When a client that waits for its answers repeats a request, nothing of the attempt
\* before is sent any more, and at most the write it had in flight still lands.
THEOREM RepeatsAreAlone == Spec => RepeatsRunAlone
<1>1. ASSUME IInv, [Next]_vars, NEW a \in Attempt \ {Attempts},
             stage[a + 1] # "unsent", ~gaveUp[a]
      PROVE  /\ sent'[a] = sent[a] /\ done'[a] = done[a]
             /\ Len(landed'[a]) <= done[a] + 1
  <2>1. a + 1 \in Attempt /\ a + 1 > 1 /\ (a + 1) - 1 = a BY AttemptsAssumption DEF Attempt
  <2>2. status[a] = 500 /\ stage[a] = "answered"
    BY <1>1, <2>1 DEF IInv, Provoked, Consistent
  <2>3. sent'[a] = sent[a] /\ done'[a] = done[a]
    <3>1. CASE \E b \in Attempt : Send(b) \/ Acknowledge(b)
      <4>1. PICK b \in Attempt : Send(b) \/ Acknowledge(b) BY <3>1
      <4>2. b # a BY <2>2, <4>1 DEF Send, Acknowledge
      <4>3. sent \in [Attempt -> Nat] /\ done \in [Attempt -> Nat] BY <1>1 DEF IInv, TypeOK
      <4>4. CASE Send(b) BY <4>2, <4>3, <4>4 DEF Send
      <4>5. CASE Acknowledge(b) BY <4>2, <4>3, <4>5 DEF Acknowledge
      <4> QED BY <4>1, <4>4, <4>5
    <3>2. CASE ~ \E b \in Attempt : Send(b) \/ Acknowledge(b)
      BY <1>1, <3>2
      DEF Next, Publish, Receive, GiveUp, Serve, Proceed, ReadView, ReadFails, ReadScope, Compile,
          PlanFails, Succeed, Land, vars, requestVars
    <3> QED BY <3>1, <3>2
  <2>4. Chained(a)' BY <1>1, NextPreserves DEF IInv
  <2>5. TypeOK' BY <1>1, NextPreserves DEF IInv
  <2>6. landed'[a] \in Seq(STRING) /\ done[a] \in Nat /\ sent[a] \in Nat
    BY <1>1, <2>5 DEF IInv, TypeOK
  <2> QED BY <2>3, <2>4, <2>6 DEF Chained
<1>2. IInv /\ [Next]_vars =>
        \A a \in Attempt \ {Attempts} :
          stage[a + 1] # "unsent" /\ ~gaveUp[a] =>
            /\ sent'[a] = sent[a] /\ done'[a] = done[a]
            /\ Len(landed'[a]) <= done[a] + 1
  BY <1>1
<1> QED BY <1>2, Invariant, PTL DEF Spec, RepeatsRunAlone

\* The rows of the audit trail say what happened.
THEOREM TrailsAreTrue == Spec => []TrailIsTrue
<1>1. ASSUME IInv, NEW a \in Attempt, NEW kind, <<a, kind>> \in rows
      PROVE  Handed(a, kind)
  <2>1. Over # 0 BY StatementsAssumption DEF Over
  <2>2. delivery[<<a, kind>>] = Over BY <1>1 DEF IInv, AuditInv
  <2> QED BY <2>1, <2>2 DEF Handed
<1>2. ASSUME IInv, StatusIsHonest, NEW a \in Attempt
      PROVE  /\ <<a, "plan.succeeded">> \in rows => status[a] = 201 /\ landed[a] = Planned(a)
             /\ <<a, "plan.failed">> \in rows => status[a] = 500
             /\ status[a] \in {400, 404} => ~Started(a)
  <2>1. Consistent(a) /\ (status[a] = 201 => landed[a] = Planned(a))
    BY <1>2 DEF IInv, StatusIsHonest
  <2>2. <<a, "plan.succeeded">> \in rows => Handed(a, "plan.succeeded") BY <1>1, <1>2
  <2>3. <<a, "plan.failed">> \in rows => Handed(a, "plan.failed") BY <1>1, <1>2
  <2> QED BY <2>1, <2>2, <2>3 DEF Consistent
<1>3. IInv /\ StatusIsHonest => TrailIsTrue
  <2> SUFFICES ASSUME IInv, StatusIsHonest PROVE TrailIsTrue
    OBVIOUS
  <2> QED BY <1>2, Zenon DEF TrailIsTrue
<1> QED BY <1>3, Invariant, StatusesAreHonest, PTL
=============================================================================
