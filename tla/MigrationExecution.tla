------------------------- MODULE MigrationExecution -------------------------
(***************************************************************************)
(* migrateToVersion and replayFromVersion of several callers, down to the  *)
(* statements executeMigration sends: the guard, the transaction on one    *)
(* connection of the pool, an audit row over another connection after      *)
(* every statement, and what may fail on the way.  Postgres locks a table  *)
(* until the transaction that touched it ends, lets nobody see what is not *)
(* committed, and ends a deadlock by refusing a statement.                 *)
(***************************************************************************)
EXTENDS MigrationSql

CONSTANTS
  Call,        \* calls, over the life of the app
  Connection,  \* connections of the pool
  SchemaOf,    \* SchemaOf[v]: the schema of version v
  Requests,    \* [kind, from, to, options]: what a call may ask for
  FirstVersions, \* versions published before the calls start
  MaxFaults,   \* bound on failures
  NoConnection

ASSUME NoConnectionAssumption == NoConnection \notin Connection
ASSUME VersionsAssumption ==
  /\ Len(SchemaOf) \in Nat /\ DOMAIN SchemaOf = 1 .. Len(SchemaOf)
  /\ FirstVersions \in 1 .. Len(SchemaOf)
\* publishSchema refuses what validateSchema does not accept.
ASSUME SchemasAssumption == \A v \in DOMAIN SchemaOf : IsSchema(SchemaOf[v])
\* The database the calls find is at version 1, so that the types of it exist.
ASSUME FirstSchemaAssumption ==
  \A t \in Range(SchemaOf[1]) : \A f \in Range(t.fields) : f.type \in Known
ASSUME RequestsAssumption ==
  Requests \subseteq [kind : {"migrate", "replay"}, from : Nat, to : Nat,
                     options : {r.options : r \in Requests}]

VARIABLES
  published,   \* number of versions
  pc,          \* pc[c]: what call c does next
  job,         \* job[c]: its request; from and to advance in a replay
  plan,        \* plan[c]: the statements of the current migration
  sent,        \* sent[c]: how many of them (or of the blocked ones) are audited
  conn,        \* conn[c]: the connection it holds
  tx,          \* tx[k]: the transaction open on connection k
  broken,      \* connections that were lost while held
  db,          \* the committed database
  audits,      \* rows of meta_kernel_migration_audits
  committed,   \* history: migrations whose COMMIT was executed
  lostAudits,  \* history: audit rows whose INSERT failed
  trusted,     \* history: the database was at from when c began, and no
               \* other call has changed it since
  faults       \* failures so far

callVars == <<pc, job, plan, sent, conn>>
history == <<committed, lostAudits, trusted, faults>>
vars == <<published, callVars, tx, broken, db, audits, history>>

Ended == {"applied", "failed"}
NoTx == [open |-> FALSE, touched |-> {}, work |-> << >>]
NoOptions == [allowDestructive |-> FALSE, allowlist |-> {}]

Versions == DOMAIN SchemaOf

\* buildMigrationPlan: the statements from one version to another.
PlanOf ==
  [v \in Versions |->
     [w \in Versions |-> GenerateMigrationSql(DiffSchemas(SchemaOf[v], SchemaOf[w]))]]

\* The database that is at a version.
DatabaseAt == [v \in Versions |-> Tables(SchemaOf[v])]

\* A database has the tables, columns and types of a version.  Whether a column may be
\* null is not compared: migrations do not change it.
Shape(d) == [t \in DOMAIN d |-> [col \in DOMAIN d[t] |-> d[t][col].type]]
IsAt(d, v) == Shape(d) = Shape(DatabaseAt[v])

\* One executeMigration call.
Run(c) == [call |-> c, from |-> job[c].from, to |-> job[c].to]

Idle == {k \in Connection : \A c \in Call : conn[c] # k}

\* What the transaction on k sees: the tables it touched, else what is committed.
View(k) ==
  [t \in DOMAIN tx[k].work \cup (DOMAIN db \ tx[k].touched) |->
     IF t \in tx[k].touched THEN tx[k].work[t] ELSE db[t]]

Statement(c) == plan[c][sent[c] + 1]

\* Connections whose transaction has the lock statement(c) waits for.  What
\* another one has created is invisible: only a CREATE of the same name waits.
LockHolders(c) ==
  LET n == Statement(c).table
  IN  {k \in Connection \ {conn[c]} :
         /\ n \in tx[k].touched
         /\ n \in DOMAIN db \/ Statement(c).op = "create_table"}

Waiting == {c \in Call : pc[c] = "run" /\ LockHolders(c) # {}}

\* Two transactions wait for each other (a longer cycle needs a third call).
Deadlocked(c) ==
  /\ c \in Waiting
  /\ \E d \in Waiting : conn[d] \in LockHolders(c) /\ conn[c] \in LockHolders(d)

Fault == faults < MaxFaults /\ faults' = faults + 1

----------------------------------------------------------------------------
Init ==
  /\ published = FirstVersions
  /\ pc = [c \in Call |-> "idle"]
  /\ job = [c \in Call |-> [kind |-> "migrate", from |-> 0, to |-> 0, options |-> NoOptions]]
  /\ plan = [c \in Call |-> << >>]
  /\ sent = [c \in Call |-> 0]
  /\ conn = [c \in Call |-> NoConnection]
  /\ tx = [k \in Connection |-> NoTx]
  /\ broken = {}
  /\ db = DatabaseAt[1]
  /\ audits = {}
  /\ committed = {}
  /\ lostAudits = {}
  /\ trusted = [c \in Call |-> FALSE]
  /\ faults = 0

\* publishSchema, by anyone and at any time; a version never changes.
PublishVersion ==
  /\ published < Len(SchemaOf)
  /\ published' = published + 1
  /\ UNCHANGED <<callVars, tx, broken, db, audits, history>>

Begin(c, r) ==
  /\ pc[c] = "idle"
  /\ job' = [job EXCEPT ![c] = r]
  /\ pc' = [pc EXCEPT ![c] = IF r.kind = "replay" THEN "start" ELSE "plan"]
  /\ trusted' = [trusted EXCEPT ![c] = IsAt(db, r.from)]
  /\ UNCHANGED <<published, plan, sent, conn, tx, broken, db, audits,
                 committed, lostAudits, faults>>

\* replayFromVersion: the start version must exist ...  (A query through the pool takes
\* a connection for as long as it runs.)
ReplayStart(c) ==
  /\ pc[c] = "start"
  /\ Idle # {}
  /\ pc' = [pc EXCEPT ![c] = IF job[c].from <= published THEN "next" ELSE "failed"]
  /\ UNCHANGED <<published, job, plan, sent, conn, tx, broken, db, audits, history>>

\* ... and every turn of the loop asks for the version after the cursor.
ReplayNext(c) ==
  /\ pc[c] = "next"
  /\ Idle # {}
  /\ IF job[c].from + 1 <= published
       THEN /\ pc' = [pc EXCEPT ![c] = "plan"]
            /\ job' = [job EXCEPT ![c].to = job[c].from + 1]
       ELSE /\ pc' = [pc EXCEPT ![c] = "applied"]
            /\ UNCHANGED job
  /\ UNCHANGED <<published, plan, sent, conn, tx, broken, db, audits, history>>

\* Slip: the cursor is not advanced.
ContinueInPlace(c) ==
  /\ pc' = [pc EXCEPT ![c] = IF job[c].kind = "replay" THEN "next" ELSE "applied"]
  /\ UNCHANGED job

\* The migration from job.from to job.to is done: its caller goes on.
Continue(c) ==
  /\ pc' = [pc EXCEPT ![c] = IF job[c].kind = "replay" THEN "next" ELSE "applied"]
  /\ job' = [job EXCEPT ![c].from = job[c].to]

\* buildMigrationPlan, then executeMigration up to pool.connect().
MakePlan(c) ==
  LET statements == PlanOf[job[c].from][job[c].to]
      blocked == Blocked(statements, job[c].options)
  IN
  /\ pc[c] = "plan"
  /\ Idle # {}
  /\ sent' = [sent EXCEPT ![c] = 0]
  /\ IF {job[c].from, job[c].to} \subseteq 1..published
       THEN \/ /\ statements = << >>
               /\ plan' = [plan EXCEPT ![c] = << >>]
               /\ Continue(c)
            \/ /\ blocked # << >>
               /\ plan' = [plan EXCEPT ![c] = blocked]
               /\ pc' = [pc EXCEPT ![c] = "blocked"]
               /\ UNCHANGED job
            \/ /\ statements # << >> /\ blocked = << >>
               /\ plan' = [plan EXCEPT ![c] = statements]
               /\ pc' = [pc EXCEPT ![c] = "connect"]
               /\ UNCHANGED job
       ELSE /\ pc' = [pc EXCEPT ![c] = "failed"]
            /\ UNCHANGED <<plan, job>>
  /\ UNCHANGED <<published, conn, tx, broken, db, audits, history>>

\* persistAuditSafely: over any other connection of the pool; a failure of
\* the INSERT is swallowed.
Audit(c, status) ==
  LET row == [run |-> Run(c), statement |-> sent[c] + 1, status |-> status]
  IN
  /\ Idle # {}
  /\ \/ /\ audits' = audits \cup {row}
        /\ UNCHANGED <<lostAudits, faults>>
     \/ /\ Fault
        /\ lostAudits' = lostAudits \cup {row}
        /\ UNCHANGED audits

AuditBlocked(c) ==
  /\ pc[c] = "blocked"
  /\ Audit(c, "blocked")
  /\ sent' = [sent EXCEPT ![c] = @ + 1]
  /\ pc' = [pc EXCEPT ![c] = IF sent'[c] = Len(plan[c]) THEN "failed" ELSE "blocked"]
  /\ UNCHANGED <<published, job, plan, conn, tx, broken, db, committed, trusted>>

\* A query of getVersion or pool.connect() itself fails: nothing has begun.
NothingBegun(c) ==
  /\ pc[c] \in {"start", "next", "plan", "connect"}
  /\ Fault
  /\ pc' = [pc EXCEPT ![c] = "failed"]
  /\ UNCHANGED <<published, job, plan, sent, conn, tx, broken, db, audits,
                 committed, lostAudits, trusted>>

\* pool.connect()
Connect(c) ==
  /\ pc[c] = "connect"
  /\ \E k \in Idle : conn' = [conn EXCEPT ![c] = k]
  /\ pc' = [pc EXCEPT ![c] = "begin"]
  /\ UNCHANGED <<published, job, plan, sent, tx, broken, db, audits, history>>

\* The connection of c is lost: Postgres forgets its transaction.
LoseConnection(c) ==
  /\ Fault
  /\ broken' = broken \cup {conn[c]}
  /\ tx' = [tx EXCEPT ![conn[c]] = NoTx]

BeginTx(c) ==
  /\ pc[c] = "begin"
  /\ \/ /\ tx' = [tx EXCEPT ![conn[c]] = [NoTx EXCEPT !.open = TRUE]]
        /\ pc' = [pc EXCEPT ![c] = "run"]
        /\ UNCHANGED <<broken, faults>>
     \/ /\ LoseConnection(c)
        /\ pc' = [pc EXCEPT ![c] = "rollback"]
  /\ UNCHANGED <<published, job, plan, sent, conn, db, audits, committed, lostAudits, trusted>>

\* Slip: the statement goes through the pool, outside the transaction.
RunStatementOnPool(c) ==
  /\ pc[c] = "run"
  /\ c \notin Waiting
  /\ ~Refused(View(conn[c]), {}, Statement(c))
  /\ db' = Effect(db, Statement(c))
  /\ pc' = [pc EXCEPT ![c] = "audit"]
  /\ UNCHANGED <<published, job, plan, sent, conn, tx, broken, audits, history>>

\* client.query(statement) is answered.
RunStatement(c) ==
  /\ pc[c] = "run"
  /\ c \notin Waiting
  /\ ~Refused(View(conn[c]), {}, Statement(c))
  /\ LET k == conn[c]
         touched == tx[k].touched \cup {Statement(c).table}
         view == Effect(View(k), Statement(c))
     IN  tx' = [tx EXCEPT ![k] = [open |-> TRUE, touched |-> touched,
                                  work |-> [t \in touched \cap DOMAIN view |-> view[t]]]]
  /\ pc' = [pc EXCEPT ![c] = "audit"]
  /\ UNCHANGED <<published, job, plan, sent, conn, broken, db, audits, history>>

\* It is rejected: by the state it finds, as a deadlock's victim, because of
\* the rows, indexes or relations it finds (a fault; MigrationScripts has them),
\* or because the connection is lost.  An aborted transaction holds no lock any more.
StatementFails(c) ==
  /\ pc[c] = "run"
  /\ \/ /\ \/ c \notin Waiting /\ Refused(View(conn[c]), {}, Statement(c))
           \/ Deadlocked(c)
        /\ UNCHANGED <<broken, faults>>
        /\ tx' = [tx EXCEPT ![conn[c]] = [NoTx EXCEPT !.open = TRUE]]
     \/ /\ Fault
        /\ tx' = [tx EXCEPT ![conn[c]] = [NoTx EXCEPT !.open = TRUE]]
        /\ UNCHANGED broken
     \/ LoseConnection(c)
  /\ pc' = [pc EXCEPT ![c] = "audit_failure"]
  /\ UNCHANGED <<published, job, plan, sent, conn, db, audits, committed, lostAudits, trusted>>

AuditSuccess(c) ==
  /\ pc[c] = "audit"
  /\ Audit(c, "success")
  /\ sent' = [sent EXCEPT ![c] = @ + 1]
  /\ pc' = [pc EXCEPT ![c] = IF sent'[c] = Len(plan[c]) THEN "commit" ELSE "run"]
  /\ UNCHANGED <<published, job, plan, conn, tx, broken, db, committed, trusted>>

AuditFailure(c) ==
  /\ pc[c] = "audit_failure"
  /\ Audit(c, "failure")
  /\ pc' = [pc EXCEPT ![c] = "rollback"]
  /\ UNCHANGED <<published, job, plan, sent, conn, tx, broken, db, committed, trusted>>

\* The COMMIT is executed.
CommitTx(c) ==
  /\ db' = View(conn[c])
  /\ tx' = [tx EXCEPT ![conn[c]] = NoTx]
  /\ committed' = committed \cup {Run(c)}
  /\ trusted' = [d \in Call |-> trusted[d] /\ (d = c \/ db' = db)]

\* Slip: the loop ends and nobody sends COMMIT.
ReleaseUncommitted(c) ==
  /\ pc[c] = "commit"
  /\ conn' = [conn EXCEPT ![c] = NoConnection]
  /\ Continue(c)
  /\ UNCHANGED <<published, plan, sent, tx, broken, db, audits, history>>

\* ... and answered: the connection goes back to the pool.
Commit(c) ==
  /\ pc[c] = "commit"
  /\ CommitTx(c)
  /\ conn' = [conn EXCEPT ![c] = NoConnection]
  /\ Continue(c)
  /\ UNCHANGED <<published, plan, sent, broken, audits, lostAudits, faults>>

\* Slip: an error of COMMIT is taken for an answer.
CommitUnansweredIgnored(c) ==
  /\ pc[c] = "commit"
  /\ Fault
  /\ \/ CommitTx(c)
     \/ /\ tx' = [tx EXCEPT ![conn[c]] = NoTx]
        /\ UNCHANGED <<db, committed, trusted>>
  /\ conn' = [conn EXCEPT ![c] = NoConnection]
  /\ Continue(c)
  /\ UNCHANGED <<published, plan, sent, broken, audits, lostAudits>>

\* ... executed or not, the connection is lost before the answer.
CommitUnanswered(c) ==
  /\ pc[c] = "commit"
  /\ Fault
  /\ \/ CommitTx(c)
     \/ /\ tx' = [tx EXCEPT ![conn[c]] = NoTx]
        /\ UNCHANGED <<db, committed, trusted>>
  /\ broken' = broken \cup {conn[c]}
  /\ pc' = [pc EXCEPT ![c] = "rollback"]
  /\ UNCHANGED <<published, job, plan, sent, conn, audits, lostAudits>>

\* Slip: the error path releases the connection without ROLLBACK.
ReleaseOnly(c) ==
  /\ pc[c] = "rollback"
  /\ broken' = broken \ {conn[c]}
  /\ conn' = [conn EXCEPT ![c] = NoConnection]
  /\ pc' = [pc EXCEPT ![c] = "failed"]
  /\ UNCHANGED <<published, job, plan, sent, tx, db, audits, history>>

\* ROLLBACK, answered or not, then release(): the pool replaces a broken
\* connection.  The caller gets the error.
RollbackTx(c) ==
  /\ pc[c] = "rollback"
  /\ tx' = [tx EXCEPT ![conn[c]] = NoTx]
  /\ broken' = broken \ {conn[c]}
  /\ conn' = [conn EXCEPT ![c] = NoConnection]
  /\ pc' = [pc EXCEPT ![c] = "failed"]
  /\ UNCHANGED <<published, job, plan, sent, db, audits, history>>

Step(c) ==
  \/ ReplayStart(c) \/ ReplayNext(c) \/ MakePlan(c) \/ AuditBlocked(c)
  \/ NothingBegun(c) \/ Connect(c) \/ BeginTx(c) \/ RunStatement(c) \/ StatementFails(c)
  \/ AuditSuccess(c) \/ AuditFailure(c)
  \/ Commit(c) \/ CommitUnanswered(c) \/ RollbackTx(c)

Next ==
  \/ PublishVersion
  \/ \E c \in Call : Step(c) \/ \E r \in Requests : Begin(c, r)

Spec == Init /\ [][Next]_vars /\ \A c \in Call : WF_vars(Step(c))

----------------------------------------------------------------------------

Plans == {PlanOf[v][w] : v \in Versions, w \in Versions}
Atomic == INSTANCE AtomicMigration
            WITH Start <- DatabaseAt[1], Plans <- Plans

\* executeMigration is atomic: whatever fails, and however the transactions
\* of two callers interleave, the database changes by whole plans only.
ImplementsAtomicMigration == Atomic!Spec

\* The options of call c let a loss through: all of them, or those of a table or column
\* whose name, but for the case of its letters, the allowlist has.
Allows(c, op, names) ==
  \/ job[c].options.allowDestructive
  \/ \E s \in job[c].options.allowlist :
       /\ s.op = op
       /\ Upper(s.table) = Upper(names[1])
       /\ op = "drop_column" => Upper(s.column) = Upper(names[2])

\* A table or a column disappears only by the commit of a caller whose options let that
\* loss through.  Names that differ only in case are one to the allowlist, so that who
\* allows the drop of one of two such tables has allowed both.
NoLossUnlessAllowed ==
  [][\A t \in DOMAIN db :
       LET owner(op, names) ==
             \E c \in Call : pc[c] = "commit" /\ pc'[c] # "commit" /\ Allows(c, op, names)
       IN  IF t \notin DOMAIN db' THEN owner("drop_table", <<t>>)
           ELSE \A col \in DOMAIN db[t] \ DOMAIN db'[t] : owner("drop_column", <<t, col>>)]_vars

\* What callers and the audit table are told is true: an applied migration is
\* committed, a committed one has a success row for every statement (or the
\* INSERT of the row failed), and no migration with a failure or a blocked row
\* was ever committed.
ReportsHonest ==
  /\ \A c \in Call :
       pc[c] = "applied" /\ job[c].kind = "migrate" /\ plan[c] # << >> =>
         \E run \in committed : run.call = c /\ run.to = job[c].to
  /\ \A run \in committed : \A i \in 1 .. Len(PlanOf[run.from][run.to]) :
       [run |-> run, statement |-> i, status |-> "success"] \in audits \cup lostAudits
  /\ \A row \in audits : row.status # "success" => row.run \notin committed

\* A connection in the pool has no transaction open, so that the next caller
\* who gets it starts from nothing.
IdleConnectionsClean == \A k \in Idle : tx[k] = NoTx /\ k \notin broken

\* A call that found the database at the version it migrates from, and that
\* nobody interfered with, has it at its cursor, before the first and after
\* the last version of a replay as well; only an unanswered COMMIT leaves
\* open which side of it the database is on.
CursorIsWhereDatabaseIs ==
  \A c \in Call : trusted[c] =>
    \/ IsAt(db, job[c].from)
    \/ /\ pc[c] \in {"rollback", "failed"}
       /\ Run(c) \in committed
       /\ IsAt(db, job[c].to)

\* No call waits for ever, for a lock, a connection or its own audit row, as
\* long as the pool has more connections than there are calls.
CallsEnd == \A c \in Call : pc[c] # "idle" ~> pc[c] \in Ended

\* kernel/README.md: migration audits are recorded; the INSERT that follows an
\* executed statement gets a connection and is answered one way or the other.
AuditsRecorded == \A c \in Call : pc[c] = "audit" ~> pc[c] # "audit"
=============================================================================
