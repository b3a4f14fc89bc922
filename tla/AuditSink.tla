----------------------------- MODULE AuditSink -----------------------------
(***************************************************************************)
(* The audit trail's way into Postgres: PostgresRuntimeAuditSink, one sink *)
(* per process on one database.  An event is handed over and never waited  *)
(* for; the first ones find no schema and each runs all its statements.    *)
(* Any statement may fail, may be carried out although it failed, and two  *)
(* CREATE ... IF NOT EXISTS at once may refuse each other: the event that  *)
(* ran it is then dropped without a word.                                  *)
(***************************************************************************)
EXTENDS Naturals

CONSTANTS
  Event,        \* the events that may be handed over
  Sink,         \* the processes
  SinkOf,       \* the process that hands an event over
  Statements    \* how many statements init() runs, the first creating the table

ASSUME SinkAssumption == SinkOf \in [Event -> Sink]
ASSUME StatementsAssumption == Statements \in Nat \ {0}

VARIABLES
  initialized,  \* this.initialized of every sink
  schema,       \* the statements whose object exists in the database
  delivery,     \* 0: not handed over; k: statement k is next; then the insert; then over
  rows          \* the events in runtime_audit_events

auditVars == <<initialized, schema, delivery, rows>>

Schema == 1 .. Statements
Insert == Statements + 1
Over == Statements + 2

AuditInit ==
  /\ initialized = [s \in Sink |-> FALSE]
  /\ schema = {}
  /\ delivery = [e \in Event |-> 0]
  /\ rows = {}

\* recordRuntimeEvent up to its first await: init() returns at once on a sink that
\* is initialized.
HandOver(e) ==
  /\ delivery[e] = 0
  /\ delivery' = [delivery EXCEPT ![e] = IF initialized[SinkOf[e]] THEN Insert ELSE 1]
  /\ UNCHANGED <<initialized, schema, rows>>

\* Slip: the flag is set when init() starts, so that only one event runs it.
RunStatementFlagFirst(e) ==
  /\ delivery[e] \in Schema
  /\ schema' = schema \cup {delivery[e]}
  /\ delivery' = [delivery EXCEPT ![e] = @ + 1]
  /\ initialized' = [initialized EXCEPT ![SinkOf[e]] = TRUE]
  /\ UNCHANGED rows

\* One statement of init(); the last one sets the flag.
RunStatement(e) ==
  /\ delivery[e] \in Schema
  /\ schema' = schema \cup {delivery[e]}
  /\ delivery' = [delivery EXCEPT ![e] = @ + 1]
  /\ initialized' = [initialized EXCEPT ![SinkOf[e]] = @ \/ delivery[e] = Statements]
  /\ UNCHANGED rows

InsertRow(e) ==
  /\ delivery[e] = Insert
  /\ 1 \in schema
  /\ rows' = rows \cup {e}
  /\ delivery' = [delivery EXCEPT ![e] = Over]
  /\ UNCHANGED <<initialized, schema>>

\* A statement fails, carried out or not; the catch block drops the event.
Drop(e) ==
  /\ delivery[e] \in Schema \cup {Insert}
  /\ delivery' = [delivery EXCEPT ![e] = Over]
  /\ \/ UNCHANGED <<schema, rows>>
     \/ delivery[e] \in Schema /\ schema' = schema \cup {delivery[e]} /\ UNCHANGED rows
     \/ delivery[e] = Insert /\ 1 \in schema /\ rows' = rows \cup {e} /\ UNCHANGED schema
  /\ UNCHANGED initialized

AuditStep == \E e \in Event : RunStatement(e) \/ InsertRow(e) \/ Drop(e)

AuditTypeOK ==
  /\ initialized \in [Sink -> BOOLEAN]
  /\ schema \subseteq Schema
  /\ delivery \in [Event -> 0 .. Over]
  /\ rows \subseteq Event

\* A sink believes in its schema only when all of it is there, and an event is about
\* to be inserted only then: no event is lost for want of the table, however the first
\* events, of one process or of several, interleave with each other and with failures.
InsertFindsSchema ==
  /\ \A s \in Sink : initialized[s] => schema = Schema
  /\ \A e \in Event : delivery[e] = Insert => schema = Schema
=============================================================================
