# meta-lc-platform: a verification development

TLA+ modules, TLC runs and TLAPS proofs about the low-code platform in this repository: what its runtime
does to a database when it executes a view and what the nodes of a view compute from one another, what a
client that calls the view route may believe and what the audit trail records, what an event on a page
refreshes, which rows a query may show to whom, what the WebSocket gateway tells browsers, what the kernel
keeps of the versions of an application and shows of them, and how it makes and migrates the application's
tables.

## The system

| Part | State it keeps | Operations | Talks to |
| --- | --- | --- | --- |
| runtime: view execution (`packages/runtime`, executor and compiler) | one plan per request: edges, layers, committed state, node results | `executeRuntimeGatewayView`, `compileViewDefinition`, `executeSubmitPlan`, `RuntimeExecutor.execute` | kernel (view definitions), datasource and mutation adapters (awaited calls), audit observer (fire and forget) |
| runtime: graph algorithms (`domain/graph`) | none | `detectCycle`, `topoSort`, `resolveExecutionOrder`, `buildDependencyGraph`, `planRefresh` | called by the executor |
| runtime: DSL and expressions (`domain/dsl`, the executors' expression sources) | none | `parseRuntimePageDsl`, `collectTemplateDependencies`, `resolveExpressions` | called by the executors and before a dependency graph is built |
| runtime: manager events (`RuntimeExecutor.planManagerEvent`, rule engine, interaction facade) | page state | plan a refresh, evaluate rules, execute commands one by one | host callbacks |
| bff: runtime WebSocket gateway (`controller/ws/runtime`) | rooms, replay store (memory, Redis key, Redis stream), connected clients, last error | `subscribePage`, `broadcastRuntimeManagerExecuted`, bus handler, health | Redis (three connections per instance), other instances over the bus, sockets |
| bff: HTTP controllers, cache, bootstrap | cache map | `POST /view/:name`, the meta routes, `remember` | runtime, org scope adapter, meta registry |
| kernel: version history (`MetaKernelService`, Postgres repository) | `meta_kernel_versions`, `meta_kernel_definition_versions` | publish, roll back, read, diff | Postgres, one statement per call |
| kernel: migrations | application tables, `meta_kernel_migration_audits` | build a plan, migrate, replay, guard destructive statements | Postgres transactions, audit rows outside them |
| kernel: validation and generators (`schema-validator`, SQL, route and manifest generators) | none | `validateSchema`, `compileSchemaSql`, `compileApiRoutes`, `compilePermissionManifest` | called by publications and by hosts |
| permission, query (`permission-engine`, `query-compiler`, `executeQueryNode`) | none | data scope of a user, its injection into a query tree, SQL compilation | called by the executor's query nodes |
| datasource, audit | the audit sink's `initialized` flag | statements, org scope, audit schema and rows | Postgres |

The hard behaviours are these. Nodes of a layer run concurrently and `Promise.all` cancels nothing. The
gateway awaits Redis between joining a room and replaying into it, and between saving an update and
announcing it; several instances do so on one stream. The kernel reads the latest version in one statement
and inserts the next one in another, and its readers read two versions, or many kinds, in as many
statements. The audit sink makes its own tables when the first events arrive, which may be several at
once, and nobody waits for it. Statements, publishes and commits may be executed although their answer is
lost, and a client that calls again meets what its first call has done. `PROJECT.json` lists these hazards
at the lines where they bite, with the properties that watch them.

## Modules

| Module | What it is |
| --- | --- |
| `PlanGraph` | closure, paths, cycle and layer of an edge map, as sets and without recursion |
| `DagScheduler` | the same searches as the code performs them: trail, visited set, queue, layers |
| `PlanContract` | abstract: what a caller may rely on while one plan is executed |
| `RuntimeExecutor` | compilation, submit planning, scheduling, layers, commit, output, audit trail |
| `RuntimeExecutorProofs` | inductive invariants and theorems of `RuntimeExecutor`: order of work, answer, contract, audit trail; and of `DagScheduler`, what its searches find |
| `NodeValues` | what nodes compute: expressions, the places they are looked up in, the four executors |
| `NodeValuesProofs` | theorems of `NodeValues`: results follow what is named, and expressions mean the same everywhere |
| `AuditSink` | the Postgres audit sinks of several processes on one database |
| `ViewGateway` | the view route from call to status, with clients that call again, over `AuditSink` |
| `ViewGatewayProofs` | inductive invariant and theorems of `ViewGateway` |
| `RuntimeWs` | the WebSocket gateway on several instances, with its stores, bus and sockets |
| `RuntimeWsProofs` | inductive invariants and theorems of `RuntimeWs`: what is shown is kept, announced once, and not missed between a replay and the live updates |
| `AppendOnlyHistory` | abstract: histories that are only ever extended at their end |
| `MetaVersions` | publications and rollbacks of schemas and definitions, statement by statement |
| `MetaCatalog` | the readers of those histories: cached listings and diffs, over `MetaVersions` |
| `MetaCatalogProofs` | inductive invariants and theorems of `MetaVersions` and of `MetaCatalog` |
| `MigrationSql` | schema diff, the two generators of statements, the guard, and what Postgres does with a statement |
| `SchemaSql` | the schema validator, the generators behind it, indexes and relations |
| `MigrationScripts` | one generated script run against a database, and the way back |
| `AtomicMigration` | abstract: a migration is one step of the database |
| `MigrationExecution` | several callers that migrate and replay, with transactions, pool and audit rows |
| `MigrationProofs` | what statements and plans do to a database, for every two schemas; inductive invariants and theorems of `MigrationExecution` and of `MigrationScripts` |
| `PageDsl` | the page parser: its collectors and its validation |
| `ManagerEvents` | one event on one page: parsing, dependency graph, refresh plan, rules, commands and their execution |
| `ManagerEventsProofs` | inductive invariant and theorems of `ManagerEvents`, and what the parser's collectors find |
| `QueryScope` | one query node: data scope, permission predicate, compilation, and the rows that come back |
| `QueryScopeProofs` | what its texts select and its decisions are, for every organisation tree, request and table |
| `MC...` | instances for TLC: constants, symmetry |

A definition whose comment starts with *Slip* is a plausible mistake in the definition that follows it. No
specification uses one: each is what a property is tried against (`mutants` in `PROJECT.json`).

### RuntimeExecutor

One behaviour is one request. `view` is the requested view as far as the executor can tell views apart:
its nodes, what each node's expressions read, and its submit list. `CompileView` is
`compileViewDefinition`; `CollectSubmit` and `ChainSubmit` are the loops of `buildSubmitExecutionPlan`
(which repeats the check of the submit list; after compilation that second check cannot fail); `Schedule`
is the beginning of `execute()`. From then on the asynchronous part runs: `StartLayer` is one iteration's
snapshot and `Promise.all`, `AdapterCommits` the database's write for a mutation, `NodeSucceeds` and
`NodeFails` the two ends of a node's promise with its audit event, `CommitLayer`, `CloneFails` and
`RejectPlan` what the loop does next, `ResolveOutput` the rest. The steps before the first await cannot be
interleaved with anything in the code and are separate actions only so that the loops can be read (and
mutated). A node's result is its presence in `state`, a snapshot is the set of results it holds; what is
in them is `NodeValues`. `HasCycle`, `DependencyClosure` and `NextLayer` say what the searches compute,
and the theorem `LayerExists` that a graph without cycles can always be layered. `DagScheduler` has the
searches themselves (`detectCycle` with its trail and its visited set, `topoSort` with its indegrees, the
loop of `resolveExecutionOrder`), and `ScheduleIsComputed` compares the two on every graph that reaches
the scheduler. The recursive `visit` is its stack of unreturned calls: the trail, and of each node on it the
dependencies its loop has yet to visit (`left`); `Turn` is the next thing the innermost loop does, and the
search is as many turns as it can take, each root, each arc and each return being one.

### NodeValues

One behaviour is one view and one request. Values are tagged as JavaScript tells them apart; a text is a
sequence of literal pieces and `{{paths}}`. The three `ExpressionStateSource` classes and the one the output
uses are four operators, since they do not look in the same places: `ValueSource`, `QuerySource`,
`OutputSource`. `ExecuteMerge`, `ExecuteMutation`, `ExecuteQuery` and `Normalized` are the executors,
`Dependencies` and `Unknown` what the compiler finds in a definition, `RuntimeContext` what the gateway
makes of a request. A submit list may name a node twice (`UniqueNodeIds` is the code's first step), and a
view whose output is no object is refused. How nodes of a layer interleave is `RuntimeExecutor`'s subject
and does not matter to their values, because they read a snapshot: here a layer is one step.

The run shows a spelling that escapes the compiler: `{{state.x}}` in a query is no dependency on `x`
(`state` is a root of the context) but its lookup goes on to the result of `x`, which may or may not be
there. As a path may leave out a "value" (`getNestedValueWithValueFallback`), it goes on as well to what is
inside the result of a node called `value`, if there is one. `SeesOnlyDependencies` allows exactly this and
says that nothing else makes a difference. `OneMeaning` names the places where spelling does matter: the
three roots only queries know; `auth`, `orgScope` and `context`, which the gateway sets at the top of the
context whatever the request brought under these names, while under `context` a request's own are kept;
and the output, which leaves a "value" out of the request's members too, where a node would find nothing.
The view with a node called `value` and the request that brings an `auth` and wrapped members are there to
reach these.

### ViewGateway and AuditSink

`ViewGateway` has a client that sends a request again when it got a 500 or has given up waiting; attempts
may overlap, each in a process of its own, and nothing cancels one. An attempt reads the view and the
parts of the scope (`memberships` stands for the three statements that are alike), compiles, and writes
one mutation after the other: `Send` is the start of the layer a write is in, `Acknowledge` its adapter's
answer. `Land` is the database, and may come after the plan has failed: a write that was in flight, or
given up for lost. `PlanFails` is every way a plan rejects, and can happen whenever the plan runs: queries,
merges and transforms run before, beside and after the writes and may fail, a result may be impossible to
clone, and when all is written the output may not resolve. So a 500 says nothing of what was written, and
who sends the request again may do everything again; no key tells the database that it is a repetition.
`RepeatsRunAlone` states what a client gains by waiting for its answer: of the attempt before nothing more
is sent, and one write at most can still land. `StatusIsHonest` says what is in the database for each
status. `Publish` puts a new version of the view under a request at any time. What happens inside a layer
is in `RuntimeExecutor`. `Answer` is the exception filter's choice of a status (201 on success, Nest's
default for `@Post`).

`AuditSink` is `PostgresRuntimeAuditSink` in every process. `HandOver` is the call that nobody awaits;
`RunStatement` is one statement of `init()`, which every event that finds `initialized` unset runs from
the start; `Drop` is the catch block, whether or not the statement was executed. That an event can be lost
is how the sink is written. The properties say what cannot happen: that a row is refused for want of its
table, that a row is untrue, or that a request waits for a row.

### RuntimeWs

One page topic. A store is the sequence of updates it was given; the memory and key stores hand back the
last one, the stream store any range with replay ids. The store's client connection is a queue of calls
(`ops`) answered in order (`replies`); an answer is executed by the instance in a later step
(`Resume...`), which is where every await of the gateway is. `pubs` and `inbox` are the publisher's and
the subscriber's connections. `StoreFails` and `PublishFails` reject a call that was or was not executed;
`Crash` is the death of a process and the start of a new one, under a new instance id as in
`app.module.ts:62`. A socket that is gone does not come back: the client's next connection is another
socket, subscribing with the replay id of anything that is saved, or none: which ids its sockets were sent
is not what it is owed by.

The memory store of the gateway is the key store without a bus to share it over; it has no run of its own.

### MetaVersions and MetaCatalog

Calls of any number of processes on one app: its schema has a history, and so has every view, datasource
and permission policy. A call is two or three statements: rollback's read of its target,
`getLatestVersion`, and the `INSERT`, which the unique key refuses if the number was taken meanwhile.
`CallLost` is a lost answer or a death; the `INSERT` may have been executed. `CreateInMemory` is the
in-memory repository, which does both in one step. Which repository it is, is chosen once.

`MetaCatalog` adds those who read. `Diff` and `ReadVersion` are `diff` and `diffDefinition`, which read
two versions in two statements and only then look whether both exist. `Remember`, `Load` and `Store` are a
meta route: `CacheService.remember` looks, awaits its loader, and stores without looking again; the
summary's loader reads kind after kind, so its kinds need not be of one moment. Nothing ever invalidates
the cache, so a listing can be old for good. `ShownStaysTrue` says that it is never wrong: what it shows
of a version is what that version still is. `CacheSettles` says when racing loaders stop overwriting each
other.

### Migrations

`MigrationSql` translates `schema-diff.ts`, `snapshot-dsl.ts` and `migration-safety.ts`. A statement is a
record where the code writes text; a database maps table names to columns with a type and a nullability.
`Refused` and `Effect` are Postgres: a table is created once, a column is added once, a `NOT NULL` column
cannot be added to a table with rows, a type must exist (`Known`; `toSqlType` passes on what it does not
know), and `ALTER COLUMN TYPE` without `USING` goes through an assignment cast (`Casts`). The guard compares
the statements of its allowlist in upper case, quoted names as well (`Normalize`), although Postgres tells
these apart: to list the drop of one of two tables whose names differ only in case is to allow both, and
`NoLossUnlessAllowed` is stated accordingly. Types are the SQL types `toSqlType` yields, so that a change
from one of its synonyms to another, for which the code writes an `ALTER` without effect, is none here; the
names and checksums of a plan are left out. `diffTableFields` compares names and types only, so a column
that both versions have keeps the nullability it has: `Target` says so.

`SchemaSql` is the other way to a database: a document is validated, its tables, indexes and relations are
compiled to statements, its routes and its permission manifest are generated. `RefusedObject` is what
Postgres asks of an index or a foreign key, `Held` what it refuses to the other statements because of
one, and `Released` what goes along with a table or a column that is dropped. `Indexable` are the types an
index can order, `Joins` the pairs of different types a foreign key can compare.

`MigrationScripts` runs one script a statement at a time, on one of three routes: the diff that
`migrateToVersion` uses; the DSL with its way up and, after it, its way down; or a document, valid or not,
compiled into an empty database. A migration finds the indexes and relations that `compileSchemaSql` has
made for an earlier version (`found`, out of `Holdings`), which neither the diff nor the DSL knows of. They
stand in its way: a table or a column that another table's relation points to cannot be dropped, even if
that table is to be dropped next; the two ends of a relation cannot change their type one after the other;
an index may have the name of a new table, or be on a column that gets a type without an order. Rows may
stand against any change of a type (`RowsMayRefuse`: what the values are is left out). `MigrationRefusal`
is the list of these reasons, and `RefusalsExplained` says that it is complete: a script never stumbles over
what it has done itself. What is not in the way is dropped along (`UpReachesTarget`), and the way down does
not bring it back.

A column that changes to text goes up and does not come back: the way
down asks for a cast that does not exist and is refused even on an empty table. The test at
`packages/kernel/test/snapshot-dsl.test.ts:56` speaks of reversible SQL; `DownRestores` is about the ways
down that run to their end. On the third route `DocumentRefusal` names what `validateSchema` lets through
and Postgres does not: types that do not exist or have no order; index names, which the
validator keeps unique per table and Postgres per schema; a relation to a column without a unique index of
its own (the generator makes no primary key) or of another type; and two relations of one column, whose
constraints get the same name.

`MigrationExecution` has one action per await of `replayFromVersion` and `executeMigration`. A call holds at
most one connection of the pool (`conn`); `tx[k]` is the transaction open on connection `k`: the tables it
has locked (`touched`) and what it made of them (`work`), which nobody else sees. Locks are held until the
transaction ends; of two transactions that wait for each other one is refused. `persistAuditSafely` takes a
second connection while the first is held, for a row that is written outside the transaction and whose
failure is swallowed. The reads of a replay are through the pool too; that they would wait for a free
connection is left out, which makes no difference with more connections than calls. Its databases have no
indexes and relations: a refusal is a refusal, whatever its reason. `COMMIT` may be executed and its answer
lost. `committed`, `lostAudits` and `trusted` are history variables; no guard reads them.

### ManagerEvents

One behaviour is one page as it is written and one event, either a state key that changed or a mutation
that succeeded. `ParsePage` is `parseRuntimePageDsl`: `PageDsl` searches values of any depth for
templates, and the arguments of a rule's condition for references to the state, and refuses what
`validateRuntimePageDsl` reports. Whether the collectors see everything is not taken from them:
`PlanIsExact` computes what an event affects from the written page, collecting what is inside a value level
by level, as deep as it goes, where the parser descends into one part after the other. What pages are made
of are the constants `Values`, `Arguments` and `Nodes`, each with a `Depth` that gets less on the way inside
(`NestingAssumption`: a page is JSON, which ends somewhere). `BuildGraph` is `buildDependencyGraph`
with its validation. `Expand` is one turn of `planRefresh`'s queue, `Ready`, `Emit` and `FinishSort` are
`topologicallySortTargets`, `EvaluateRule` is one rule of `evaluateRules`, `BuildCommands` is
`buildManagerCommands`, and `CommandSucceeds` and `CommandFails` are one awaited call of
`executeRuntimeInteractionPlan`. The sorts by target key are part of the actions. A function that a rule
calls answers anything or throws; values of the page's state are left out. Commands put every datasource
before every action, so the plan's order survives within a kind only, as the test at
`packages/runtime/test/runtime-interaction-event.test.ts:168` expects: a datasource may be refreshed
before the action that writes the state it reads. `CommandsFollowPlan` states exactly what is kept.

Read beside the model, and left as they are: a page whose datasources, actions or layout are not lists
makes the parser throw a `TypeError` before its own "must be an array" can be reported; a page that
already has state keys and dependencies is not parsed again; an output key need not be a state key; and
the function registry trims names when they are registered but not when they are called.

### QueryScope

One behaviour is one query node executed for one user. `context` is what the gateway passes on: tenant, user
and roles the request was sent as, what `request.context` says of the same (`brought`, which is spread over
them), and the org scope, which was resolved for the former, with the roles in the order the database
returned them. `Permission` is what `buildPermissionContext` makes of it; the query fails if it finds no
text where one must be (`Read`, `Unreadable`). So the rows are those of the tenant, and the user's own those
of the user, that the permission context names, while the organisations are those of whom the request was
sent as; `RowsAreVisible` is stated of the permission context. `BuildAst`,
`Transform`, `CompileAst`, `Execute` and `ExecuteFails` are the stages of `executeQueryNode`. Predicates
are the code's trees. The compiled text keeps what text can get wrong: conditions next to each other with
AND and OR between them, parentheses, and numbered placeholders; `Holds` is how Postgres reads it. Nothing
the code compiles negates, so a comparison with NULL may as well be false. `Compile` and `Holds` go
as deep as the trees of `executeQueryNode`: a root and three levels of AND and OR below it, each an operator
over the one inside. `RowsAreVisible` compares the rows that come back with `canAccessOrg`, the engine's
own verdict on a single row, and takes "and children" by parent where the code goes by path. The two
differ in one point the property spells out: a scope without organisations shows nothing, while
`canAccessOrg` would still grant a creator his own rows without an organisation.

`postgres-org-scope.adapter.ts` reads roles without `ORDER BY`, and `pickStrongestPolicy` sorts stably: if
a user has two roles with a custom organisation set each, the database's order chooses between them,
though `packages/permission/README.md:46` asks to keep policy evaluation deterministic. `DecisionStable`
shows that this is all the order can decide.

## Runs

| Run | Instance | Shows |
| --- | --- | --- |
| `executor` | 51,947 states: all graphs over 3 nodes x 6 submit lists, 2-node views whose list names a third node, 4-node fans and diamonds; 2 of 4 nodes mutations | what is seen, the order of submits and writes, failures, the audit trail, `RequestAnswered`, the refinement of `PlanContract`, and that the searches compute what the model schedules by |
| `node_values` | 16,548 states: 9 queries x 11 transforms and merges x 7 mutations x submit lists (one repeats a node), and 2 queries of which one is called `value`; 2 requests | values come from what is named and nothing else; an expression means the same everywhere |
| `view_gateway` | 719,072 states: 2 attempts in 2 processes, 3 versions of a view (two writes, broken, one write), 2 parts of the scope, 2 schema statements | statuses and audit rows are true, wherever a plan fails; a client that waits for its answer repeats alone; answers come although the sink may never step |
| `manager_events` | 99,552 states: all acyclic graphs over 2 datasources and 2 actions with state and mutation events, 3-target pages with rules, cycles, unresolved references and faults of form | the plan holds exactly what the event affects, in dependency order; what is announced was done |
| `query_scope` | 11,465 states: 7 lists of roles, 4 memberships, 5 lists of policies, a tree of 4 organisations, 9 requests with a context of their own or blanks in it, 7 queries, 120 rows | a query returns exactly what its permission context may see, and the order of roles decides nothing else |
| `ws_stream` | 1,375,700 states: 2 instances, 1 socket, an earlier update and 3 new ones, stream store, Redis bus, limit 1, 1 fault | nothing is missed, told twice, or told without being saved |
| `ws_relay` | 55,588 states: 2 instances, 1 socket, 2 updates, key store, no fault, fair | every broadcast arrives on the other instance |
| `ws_latest` | as `ws_relay`, without fairness | a counterexample (below) |
| `meta_versions` | 1,058,418 states: 3 calls, 2 documents, the schema and one view, 2 readers, 2 cache keys | histories are append-only, numbers have one owner, rollbacks are copies, what was shown stays true |
| `migration_scripts` | 499,560 states: all pairs of schemas with one table of up to two columns (types and nullability, a type that does not exist) and one of up to one column, in either order, both routes, every subset of the tables having rows, 5 sets of indexes and relations found; documents with every kind of fault | scripts reach the target, come back, are refused for known reasons only; guard and validator are exact |
| `migrations` | 174,311 states: 2 calls, 3 connections, 3 versions (two tables differ only in case), seven requests, 1 fault, fair | a migration is atomic, loses nothing its caller did not allow, reports what happened, and ends |
| `migration_pool` | 2 calls, 2 connections, no fault, fair | a counterexample (below) |

Bounds. Three nodes are enough for a cycle through a third node, for a chain edge that closes one, and for
an order of writes that contradicts a transitive dependency; layers of two siblings with something before
and after them need four, which the fans supply. The gateway's properties concern one socket and one
update at a time: sockets share nothing but the room and the stores, and each is owed what it is owed
alone. A second update interferes, and an earlier one and a third are needed to come back with a cursor
further behind than the limit. A socket comes with any cursor that is saved, or none. `MaxFaults` bounds
crashes and failed calls. `Call` bounds the calls made in the life of an app: a conflict needs two, a
rollback in the middle of two publications three; histories do not touch one another, so the schema and
one definition show both kinds. Two readers race for a key, or one fills it while the other diffs. A
repetition needs two attempts; what a third adds is between it and the second. Two schema statements are
one that makes the table and one that does not; the theorems hold for any number of them. The
values of `node_values` are chosen so that each executor has a definition for every branch, and each way
of naming a value occurs in a query, in another node and in the output. A diff treats each table and each
column by itself, and a statement touches one table, so two of each show every combination of kinds of
change and every order between them. Of the migrations' requests one locks `t` before `u` and another `u`
before `t`, which is what a deadlock takes; three versions make a replay of two steps, and the second
publication happens while calls run. Both migration runs with calls have as many calls as the question
needs: one more connection than calls, or not. A page needs a datasource and an action on either side of a
state key, and a second of each to make a diamond or a chain. Of the organisations one is a child and one
has a path that starts with the letters of another's; the table holds a row for every combination of
tenant, organisation, creator and match. `CHECK_DEADLOCK FALSE` is given where the system may stop: nobody
has to publish or broadcast. The runs of the executor, of manager events and of queries check deadlock;
`Terminated` and `Over` mark the states where a request is over.

Fairness. `RuntimeExecutor` assumes weak fairness of the event loop (a continuation that can run does) and
that every adapter, datasource and hook answers; the code sets no timeout, so a plan whose adapter never
answers is never answered either. `RuntimeWs` assumes weak fairness of each instance's continuations, of
its handler, and of Redis serving each connection. `ViewGateway` assumes that a request goes on
whenever it can, and that every write it waits for is answered, with a result or an error; it does not assume
that a plan fails whenever it may, which would answer every request. Nothing is assumed of the audit sink, the
client or publications, which is what `RequestsAnswered` is about. `MigrationExecution` assumes that every call that
can take a step does: the database answers, a released lock or connection is taken up, and Postgres breaks
a deadlock. Nothing else is fair: nobody has to connect, broadcast, publish, fail, or decide that a
mutation is committed.

What the counterexamples show. `ws_latest`: with `LC_RUNTIME_WS_REPLAY_STORE=redis` updates have no replay
id, so an instance that receives one over the bus saves it again (`ws.gateway.ts:144`), under the key all
instances share. Instance 1 broadcasts A, instance 2 broadcasts B and saves it, then handles A and saves
that over B. Everybody who subscribes from then on is replayed A, although the test at
`packages/bff/test/ws-gateway.test.ts:599` promises the latest update. The stream store is not affected:
its updates have ids and are not saved again.

`migration_pool`: every migration holds a connection and asks for a second one after each statement. If as
many callers migrate as the pool has connections, each waits for the others' connections and no audit row
is recorded, nor does any migration end, although nothing failed (`packages/kernel/README.md:16` promises
the audits). With one connection more, `CallsEnd` holds.

## Proofs

Each proof module strengthens the properties to an inductive invariant, has a lemma per action that the
invariant is preserved, and draws the theorems from it. The only assumptions are the `ASSUME`s on
constants in the modules that declare them.

`RuntimeExecutorProofs` proves, for every set of nodes and every set of well-formed views, the safety
properties of the `executor` run, and that the executor implements `PlanContract`; and four facts no run
lists any more because of it: types, that a success executed exactly what it needed, that writes follow
dependencies, and that nothing is started after the answer. The invariant adds:
the plan's edges contain the view's and reach nothing a submit does not need (`DagFollowsView`,
`DagIsNeeded`); while the chain is built, every pair of submit nodes so far is connected (`Chained`), which
lemmas about closures show to survive each further edge; the edges have no cycle once scheduled
(`Acyclic`); started nodes, committed state and the current layer partition the way the loop leaves them
(`Layered`); the first rejection is one of the current layer's (`FirstFailure`); what the outcome says
(`Outcome`); and the database in terms of both (`DatabaseInOrder`, `AppliedAreMutations`). For the audit
trail a second invariant says what the observer has been told: nothing before execution begins
(`Unheard`); of a node only what became of it (`Truthful`), once, and after all it reads (`Ordered`); and
of the end only when the executor has ended, after which only siblings of the layer that failed report.

`ScheduleIsComputed` is proved there too, from facts about the three searches on any graph whose nodes are
among `Node` (`SearchesAgreeOn`). `OrderAssumption`, that the node ids can be sorted into one list, makes
`Node` finite; only these facts use it. `Consistent` is the state of `detectCycle` as long as it has found
nothing: the trail is a walk without repetition, the dependencies of what was returned from were returned
from, nothing visited is in a set of nodes that each depend on one of it, and a dependency that was looked
at is visited or next on the trail. So a cycle is reported only by closing the trail (`TrailCloses`), and
the graph has one (`RoundIsKnot`); and every turn takes one root, arc or return away (`Remaining`), so that
a search that reports nothing ends with everything visited. `Sorting` says of `topoSort` that the indegree
of a node counts its dependencies that are not yet sorted and that the ready ones are the next layer, and
`Layering` of `resolveExecutionOrder` that each round adds a layer; by `LayerExists` neither runs dry before
its last node.

`ViewGatewayProofs` proves, for every number of attempts, processes, versions and writes, all of the
`view_gateway` run but its liveness. The invariant adds what an attempt has handed over in each stage
(`Consistent`); that its writes are a chain, at most one of them sent and unacknowledged (`Chained`), so
that a plan that has failed leaves one write in flight at most; that a repetition was
made for a reason (`Provoked`); and of the sink that what an event has left to run is what is missing of
the schema (`AuditInv`).

`RuntimeWsProofs` proves, for every number of instances, sockets, updates and faults, each of the three
stores and either bus, that what a socket was sent is kept (`ShownIsSaved`) and that no update is announced
twice (`AnnouncedOnce`). For the first, the invariant says of a shared store that an update is in it from
the moment the save is answered, on its way through the announcement, the bus and the replay of a
subscription (`AllKept`), and that the store only grows; the memory store is left out of it, as the
property leaves it out. For the second, it follows one update from call to sockets: it is saved by one
operation (`OneSave`), published by one instance (`OnePublish`), due to be announced on an instance for at
most one reason, its own answer or the message of the bus (`OneDue`), and once an instance has announced it
nothing there is due any more (`ToldLater`, `NoDoubles`); and the stream has it at one id (`StreamedOnce`).
`EarlierAssumption` says that the updates of before the run are in the store under distinct ids.

Over both, `NoGap`: with the stream store, and a bus if there are several
instances, a subscriber misses nothing, for every replay limit and however many crashes and failed calls.
The property speaks of a socket whose subscription is done; the invariant begins at the read of the replay
and divides the stream at the place it had then (`head`). What is saved after it reaches a socket that is
in the room (`Reaches`): it was shown, or some step that will show it is due, or its broadcast fails. What
is before it, the answer of the read holds as far as the socket is owed it (`Answered`), from which the
socket gets it (`Caught`). The two halves meet because a socket joins the room before it reads, and because
a socket asks once and with the cursor it came with (`AsksOnce`), so that no answer is for another cursor.

`NodeValuesProofs` proves both properties of the `node_values` run, for every view, however its definitions
are nested, every request, and whatever datasources, adapters and hooks answer. Expressions are resolved by
a recursive function; that there is one, and that it is settled by what the texts inside resolve to, is
proved by induction on depth (`ResolvesExists`, `ResolvedAlike`), hence an expression resolves alike
wherever its paths do (`ResolveAlike`). A path is a walk (`GetIs`): all it sees of where it begins is its
first segment (`FirstStep`). So the results a definition names, and those it has an alias for, show it as
much as all results do (`SegmentAlike`, `ExecuteAlike`). The "value" that a path may leave out is where this
is delicate: a first segment that is not a node could be inside the result of a node called `value`, and is
not because results have no members but `value`, `rows` and `row` (`Shaped`), none of them a root of the
context. The invariant `Consistent` adds to `SeesOnlyDependencies` this shape, that the plan has all
dependencies of its nodes whatever a submit list adds (`PlanCovers`), and that results only come after those
of their dependencies. A result then stays the same function of the same results, since these are never
replaced (`SeenStays`). `MeaningIsOne` is `Means` for one path: what is found without leaving out a "value"
is found as well where one may (`FoundAnyway`), and what the request brought is at the top of the context
but for three names (`BroughtIsAtTheTop`). `NestingAssumption` says that a value has one tag and that
nesting ends, `PathsAssumption` that a path has a segment, as the pattern for expressions requires,
`ViewsAssumption` that views are made of such values. The proofs are also why the two properties are stated
with the exceptions above: each failed without one of them, and the run was extended until it showed why.

`MetaCatalogProofs` proves, for every number of calls, histories and documents, the first three properties
of the `meta_versions` run, and the other two for every number of readers and kinds. For `MetaVersions` the
invariant adds that no history has a gap (`Contiguous`) and that a call about to insert has seen all
versions below its number (`Ready`): so an `INSERT` that is not refused extends its history by exactly one,
which is the step of `AppendOnlyHistory`. For `MetaCatalog` it is first proved that `CatalogSpec => Spec`,
so the histories it reads are those of `MetaVersions`, of which rows never change (`RowsStay`); then that
everything loaded so far, by anyone, still holds (`CacheHolds`, `Serving`).

`MigrationProofs` begins with the generators and the statements, without a behaviour. `Asked(x, before, after)`
says which statements a migration from one schema to another asks for: one for each table or column that
only one of them has, and one for each column of another type. Each of the generators, the diff
(`PlanIsAsked`) and the DSL on its way up and down (`UpIsAsked`, `DownIsAsked`), yields exactly those, each
once, whatever the schemas and the order of their parts. No two of them touch the same table and column
(`AskedOnce`), each does what separates the two databases at that place and nothing else (`Fits`), and
together they cover every difference (`Covers`). So wherever a run of them stops, the database is the old one
at the places not yet reached and the new one at the others (`Between`), and at the end it is the goal:
`PlansReachTheirGoal`. What a loop keeps of a list, and a list of lists put together, are recursive functions
of a number, so what they compute is proved by induction on numbers (`EveryNumber`, from the library's
`WFMin`).

It goes on to prove all five properties of the `migration_scripts` run, for every two schemas and every
document. Its invariant `ScriptInv` says that the script is the one generated for the route, that the
database is `Between` start and target by the statements run so far, and that the objects are those that
were created. At the end nothing is left to differ, which is `UpReachesTarget`; going there and back
restores nullability too, because a column that stays keeps it (`ThereAndBack`), which is `DownRestores`.
`GuardIsExact` holds because the destructive statements of a complete plan are exactly its losses
(`DropsAreLosses`). For `RefusalsExplained`, a statement that fits is refused only for the rows, the type or
the cast it meets, or for an index or a relation; those the database still has are among the ones it began
with whose columns are there (`StillThere`), and a type change that breaks a relation is one of only one of
its ends. On the third route an index or a relation comes after all tables (`CompiledPlaces`) and is refused
only for one of the conflicts the property names (`FirstOfItsKind`). `ValidatorIsExact` rests on lists
without duplicates being those whose set of keys is as large as they are long (`KeysAreDistinct`), which is
how `validateSchema` looks for duplicates. Three assumptions are made: the schemas a diff is made from are
valid (`ValidatedAssumption`; `publishSchema` lets no others into a history), the parts of a document are
arrays, whatever is in them (`DocumentsAssumption`), and what a database has beside its tables are indexes
and relations (`HoldingsAssumption`).

It also proves, for every number of calls and connections, every history of schemas and every failure, all
of the `migrations` run but `CallsEnd`. Locks are what makes migrations atomic
(`ImplementsAtomicMigration`): no two open transactions have touched the same table (`Isolated`), so that
whatever others commit, a transaction still sees what it would see if all its statements ran now, and none
of them would be refused (`SeesItself`); its commit is then one step of `AtomicMigration`. That rests on
what a statement may depend on and change, its own table (`EffectIsLocal`, `EffectElsewhere`), carried over
plans of every length (`RanIsLocal`). For the reports (`ReportsHonest`) the invariant adds that success rows
keep up with the statements (`Recorded`), that what a replay has committed is behind its cursor (`Behind`),
and that a call with a row that is not of a success commits no more (`OutOfTheRunning`). With
`PlansReachTheirGoal` the commit of a call that found the database at its first version moves it to its
second, so its cursor is where the database is (`CursorIsWhereDatabaseIs`); that compares tables, columns
and types, which is what a diff looks at. What a commit loses, a destructive statement of the plan dropped,
and the guard had let each of them through when the plan was made (`Permitted`), under its name or one that
differs only in case, whatever was published or committed meanwhile: `NoLossUnlessAllowed`. The assumptions
are that versions are numbered from one and are valid schemas, that requests are requests, and that
`NoConnection` is none.

`QueryScopeProofs` proves both properties of the `query_scope` run, for every organisation tree, every
table, every list of roles and policies and every request. Its invariant `Progress` says what the query has
come to at each step, so that `VisibleRows` is about four definitions. What compilation yields is described,
level by level, without naming texts: `FirstLevelMeans` to `ThirdLevelMeans` say that a compiled predicate
keeps the parameters given to it, and selects by AND or OR of what its parts select, whatever parameters are
pushed after it (`MeansBy`); it stands on how the texts and parameters of the parts are joined
(`ConditionsTogether` and its like). The induction over the parts of a predicate is on numbers
(`EveryNumber`). Parentheses are what makes an OR inside an AND a unit; without them these lemmas fail.
`FiltersMean` and `PermissionMeans` say what the two halves of the tree select, `ExpandIsBelow` that the
organisations by path are the organisations by parent: of organisations that were below by path only, one
with the shortest path would have a parent of the same kind with a shorter one. `StableDecision` follows
from `StrongestIs`, the choice has the highest priority whatever the order, and every scope but the custom
set has only one meaning for a user. `ContextsAssumption` says of every permission context (`PermissionOf`)
that organisations are finitely many, that ids are not NULL, and that stored paths spell the tree
(`Spelled`), which is what the code relies on when it compares prefixes; `RequestsAssumption` that a filter
is no NULL, which `readQueryFilters` refuses, and that a supported filter names a column, as the query fails
otherwise.

`ManagerEventsProofs` proves all four properties of the `manager_events` run, for every page, however its
values are nested, every event and every list of rules. The parser descends into values and arguments by
recursive functions; what they return is proved by induction on depth to be what is mentioned anywhere
inside (`VisitIs`, `VisitArgsIs`), so that the parsed page says what the written one says (`ParsedIs`): the
same targets, the same keys read, and, once the graph is built, `Downstream` is `Feeds` (`FeedsIs`). The
invariant has a part for each phase. While the queue grows, it is among what the event reaches, holds the
roots, and holds what the targets before `next` lead to (`QueueInv`); so when `next` is at its end the queue
is closed under `Feeds`, and the closure is the least such set (`ClosureIsLeast`). While targets are sorted,
`degree` counts the ones left that feed a target, and who is in the order has all that feed it there before
it (`OrderInv`). That nothing is left over when nothing is ready is where the page being acyclic is used:
a finite set that is not empty has a member nobody in it feeds (`SomeoneIsFirst`), or it would lead round
(`SortEnds`). For `CommandsFollowPlan`, that one target feeds another through targets of the other kind is
carried along the path (`FeedsGoFirst`); the stable sorts keep exactly what they are given (`InOrderIs`).
`ToldIsDone` follows from the results being the first of the commands, one for one (`ResultsInv`). Assumed
are, beside the nesting, that only functions have arguments (`ArgumentsAssumption`), that the fixed orders
of targets and keys have no doubles (`TargetsAssumption`), and that datasources and actions are named by
targets of their kind (`RequestsAssumption`), as a target's key is its kind with its id: a refresh that
names the id of an action names, by kind and id, a target that no page has.

Model-checked only: liveness (`RequestAnswered`, `RequestsAnswered`, `AnnouncementArrives`, `CallsEnd`),
which is out of the prover's reach. Of `RuntimeWs`, `LastIsLatest` is not proved because it does not hold.
Every other property of a run is a theorem.

## Plan

1. `RuntimeExecutor` with its contract, `DagScheduler` and `NodeValues`, with proofs of all their safety
   properties: done.
2. `ViewGateway` and `AuditSink` with proofs: done.
3. `MetaVersions` and `MetaCatalog` with `AppendOnlyHistory` and proofs: done.
4. `RuntimeWs` with proofs of `ShownIsSaved`, `AnnouncedOnce` and `NoGap`: done.
5. `MigrationSql`, `SchemaSql`, `MigrationScripts`, `MigrationExecution` with `AtomicMigration`, with proofs
   of all their safety properties: done.
6. `QueryScope` with proofs: done.
7. `PageDsl` and `ManagerEvents` with proofs of all their properties: done.

## Not modelled

Texts: messages, JSON, SQL beyond its statements and conditions, the regular expressions that find
templates in a string, checksums. Of the runtime: `resolveTemplateValue`, which nothing in it calls, and
the summary of mutation results in an answer. Of the kernel: the validators of definitions and the list of
changed paths of a definition diff (`meta-definition-registry.ts`), which are checks of shape without
state, and the seeds of the in-memory repository; a field without a type, on which the generator throws
(`sql-utils.ts:11`), and names longer than Postgres keeps. Of the bff: `CacheService.clear`, which nothing
calls, and a second subscription of the same socket. Of queries: limits, selected columns and aliases, and
the deprecated text filters, which the runtime does not call. NestJS and socket.io wiring, options read
from the environment, CORS and ports, release and bootstrap scripts, infrastructure and the demo have no
logic of the platform. Which cursor a browser keeps is the browser's: instances relay in the order
messages reach them, so a client that keeps the last id it saw rather than the largest may be told some
updates again; no client is part of the repository.
