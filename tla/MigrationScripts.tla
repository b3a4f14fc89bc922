-------------------------- MODULE MigrationScripts --------------------------
(***************************************************************************)
(* One generated migration, run statement by statement against a database  *)
(* that is at the schema it starts from, with indexes and relations that   *)
(* compileSchemaSql once made.  The "diff" route is what                   *)
(* migrateToVersion uses; the "dsl" route compiles snapshots to an up and  *)
(* a down script, and the down script is run after the up script.  The     *)
(* "schema" route begins with an empty database and a document nobody has  *)
(* looked at yet: it is validated, compiled as a whole, and run.           *)
(***************************************************************************)
EXTENDS SchemaSql

CONSTANTS
  Schemas,    \* validated schemas
  Documents,  \* schema documents, valid or not
  Holdings    \* sets of indexes and relations a database may have, from whichever version

\* What validateSchema has made of a schema before a migration is asked for.
ASSUME ValidatedAssumption == \A s \in Schemas : IsSchema(s)

\* A document's parts are arrays, whatever is in them.
ASSUME DocumentsAssumption ==
  \A d \in Documents :
    /\ IsSeq(d.tables) /\ IsSeq(d.relations)
    /\ IsSeq(d.tenants) /\ IsSeq(d.apps) /\ IsSeq(d.rules) /\ IsSeq(d.permissions)
    /\ \A t \in Range(d.tables) :
         IsSeq(t.fields) /\ IsSeq(t.indexes) /\ \A x \in Range(t.indexes) : IsSeq(x.fields)
    /\ \A p \in Range(d.permissions) : IsSeq(p.roles)

\* Only compileSchemaSql makes indexes and relations.
ASSUME HoldingsAssumption ==
  \A h \in Holdings : \A x \in h : x.op \in {"create_index", "add_relation"}

VARIABLES
  route,      \* "diff", "dsl" or "schema"
  doc,        \* the document of the "schema" route
  objects,    \* indexes and relations the database has
  found,      \* those it had when the script began
  from, to,   \* the schemas
  populated,  \* tables that have rows
  database,   \* the database
  script,     \* statements being run
  pos,        \* how many of them have been
  phase       \* "compile", "up", "down", "done", "rejected", "refused" or "stuck" (on the way back)

scriptVars == <<route, doc, objects, found, from, to, populated, database, script, pos, phase>>

UpScript(r, a, b) ==
  IF r = "diff" THEN GenerateMigrationSql(DiffSchemas(a, b))
                ELSE CompileUp(BuildMigrationDsl(a, b))
DownScript(a, b) == CompileDown(BuildMigrationDsl(a, b))

Nothing == [tables |-> <<>>, relations |-> <<>>, tenants |-> <<>>, apps |-> <<>>,
            rules |-> <<>>, permissions |-> <<>>]

\* The types of a schema that a database is at exist.
Buildable(schema) == \A t \in Range(schema) : \A f \in Range(t.fields) : f.type \in Known

ScriptInit ==
  /\ \/ /\ route \in {"diff", "dsl"}
        /\ doc = Nothing
        /\ from \in Schemas /\ to \in Schemas
        /\ Buildable(from)
        /\ found \in Holdings /\ Standing(Tables(from), found)
        /\ script = UpScript(route, from, to)
        /\ phase = "up"
     \/ /\ route = "schema"
        /\ doc \in Documents
        /\ from = <<>> /\ to = doc.tables
        /\ found = {}
        /\ script = <<>>
        /\ phase = "compile"
  /\ database = Tables(from)
  /\ populated \in SUBSET DOMAIN database
  /\ objects = found
  /\ pos = 0

\* compileSchemaSql throws, on a document that is not valid or on a name it cannot
\* quote, or returns all the statements.
Compile ==
  /\ phase = "compile"
  /\ IF ValidateSchema(doc) /\ Quoted(doc) \subseteq Quotable
       THEN phase' = "up" /\ script' = CompileSchemaSql(doc)
       ELSE phase' = "rejected" /\ UNCHANGED script
  /\ UNCHANGED <<route, doc, objects, found, from, to, populated, database, pos>>

Running == phase \in {"up", "down"} /\ pos < Len(script)
NextStatement == script[pos + 1]

OfObject == NextStatement.op \in {"create_index", "add_relation"}
Stumbles == IF OfObject THEN RefusedObject(database, objects, NextStatement)
                        ELSE \/ Refused(database, populated, NextStatement)
                             \/ Held(database, objects, NextStatement)

\* The values in the rows are left out: they may stand against any change of a type,
\* by a cast they are out of range for or a key that is then no longer one.
RowsMayRefuse ==
  /\ NextStatement.op = "alter_column"
  /\ NextStatement.table \in populated
  /\ database[NextStatement.table][NextStatement.column].type # NextStatement.type

Execute ==
  /\ Running
  /\ ~Stumbles
  /\ IF OfObject THEN objects' = objects \cup {NextStatement} /\ UNCHANGED database
                 ELSE /\ database' = Effect(database, NextStatement)
                      /\ objects' = Released(objects, NextStatement)
  /\ populated' = populated \cap DOMAIN database'
  /\ pos' = pos + 1
  /\ UNCHANGED <<route, doc, found, from, to, script, phase>>

Refuse ==
  /\ Running
  /\ Stumbles \/ RowsMayRefuse
  /\ phase' = IF phase = "up" THEN "refused" ELSE "stuck"
  /\ UNCHANGED <<route, doc, objects, found, from, to, populated, database, script, pos>>

\* The up script has been run: the dsl's way back is next.
TurnBack ==
  /\ phase = "up" /\ pos = Len(script) /\ route = "dsl"
  /\ phase' = "down"
  /\ script' = DownScript(from, to)
  /\ pos' = 0
  /\ UNCHANGED <<route, doc, objects, found, from, to, populated, database>>

Finish ==
  /\ pos = Len(script)
  /\ phase = "down" \/ (phase = "up" /\ route # "dsl")
  /\ phase' = "done"
  /\ UNCHANGED <<route, doc, objects, found, from, to, populated, database, script, pos>>

ScriptNext == Compile \/ Execute \/ Refuse \/ TurnBack \/ Finish

ScriptSpec == ScriptInit /\ [][ScriptNext]_scriptVars

----------------------------------------------------------------------------
\* What diffSchemas can ask for: the tables of the target, a column that
\* both schemas have keeping the nullability it has (diffTableFields does not
\* look at it).
Target ==
  [t \in DOMAIN Tables(to) |->
     [c \in DOMAIN Tables(to)[t] |->
        IF t \in DOMAIN Tables(from) /\ c \in DOMAIN Tables(from)[t]
          THEN [Tables(to)[t][c] EXCEPT !.nullable = Tables(from)[t][c].nullable]
          ELSE Tables(to)[t][c]]]

\* The indexes and relations a compiled document asks for.
Wanted(document) ==
  (UNION {{CreateIndex(t, x) : x \in Range(t.indexes)} : t \in Range(document.tables)})
  \cup {CreateRelation(r) : r \in Range(document.relations)}

\* The columns an index or a relation is made of are there.
OnColumnsOf(x, d) == x.table \in DOMAIN d /\ OwnColumns(x) \subseteq DOMAIN d[x.table]

\* A script that is run to its end leaves the database at the target schema, on every
\* route and whatever changed between the two versions.  A compiled document has all its
\* indexes and relations; a migration has cost no more of them than those whose table or
\* column it has dropped, and added none.
UpReachesTarget ==
  phase = "up" /\ pos = Len(script) =>
    /\ database = Target
    /\ objects = IF route = "schema" THEN Wanted(doc) ELSE {x \in found : OnColumnsOf(x, Target)}

\* The down script, run to its end, leaves every table, column, type and
\* nullability as it was before the migration (the indexes and relations of what had
\* been dropped it leaves out).
DownRestores ==
  phase = "done" /\ route = "dsl" => database = Tables(from)

\* The guard is exact: createMigrationSafetyReport blocks a migration if and
\* only if running it would lose a table or a column the database has now.
GuardIsExact ==
  phase = "up" /\ pos = Len(script) =>
    LET lost == \E t \in DOMAIN Tables(from) :
                  t \notin DOMAIN database \/ ~(DOMAIN Tables(from)[t] \subseteq DOMAIN database[t])
        plain == [allowDestructive |-> FALSE, allowlist |-> {}]
    IN  Blocked(script, plain) # <<>> <=> lost

\* Why Postgres refuses a statement of a migration: an unknown type; a required column
\* for a table that has rows; a type change without a cast or with rows in the way; and
\* what no validator and no diff looks at, the indexes and relations the database had when
\* the migration began.  A relation is in the way of dropping what it refers to, also when
\* its own table is dropped later in the script, and of changing the type of its ends one
\* after the other; an index of its name, and of a type that has no order.
MigrationRefusal(s) ==
  CASE s.op = "create_table" ->
         \/ \E f \in Range(s.fields) : f.type \notin Known
         \/ \E x \in found : x.op = "create_index" /\ x.name = s.table
    [] s.op = "drop_table" ->
         \E x \in found : /\ x.op = "add_relation" /\ x.toTable = s.table /\ x.table # s.table
                          /\ OnColumnsOf(x, database)
    [] s.op = "add_column" ->
         s.field.type \notin Known \/ (~s.field.nullable /\ s.table \in populated)
    [] s.op = "drop_column" ->
         \E x \in found : /\ RefersTo(x, s.table, s.column)
                          /\ ~RefersFrom(x, s.table, s.column)
                          /\ OnColumnsOf(x, database)
    [] s.op = "alter_column" ->
         LET type == database[s.table][s.column].type IN
         \/ s.type \notin Known
         \/ ~CanCast(type, s.type)
         \/ (s.table \in populated /\ type # s.type)
         \/ \E x \in found :
              \/ /\ x.op = "create_index" /\ s.column \in Range(x.fields)
                 /\ s.type \notin Indexable
              \/ /\ RefersFrom(x, s.table, s.column) # RefersTo(x, s.table, s.column)
                 /\ OnColumnsOf(x, database)
    [] OTHER -> FALSE

\* Why it refuses one of a compiled document: an unknown type, a type without an order in
\* an index, an index name that another table or its index has, a relation to a column
\* that is not unique or of a type it does not join, a second relation of one column.
DocumentRefusal(s) ==
  CASE s.op = "create_table" -> \E f \in Range(s.fields) : f.type \notin Known
    [] s.op = "create_index" ->
         \/ Has(doc.tables, s.name)
         \/ \E t \in Range(doc.tables) : t.name # s.table /\ Has(t.indexes, s.name)
         \/ \E f \in Range(s.fields) :
              Named(Named(doc.tables, s.table).fields, f).type \notin Indexable
    [] s.op = "add_relation" ->
         LET target == Named(doc.tables, s.toTable) IN
         \/ ~ \E x \in Range(target.indexes) : x.unique /\ x.fields = <<s.toField>>
         \/ ~CanJoin(Named(Named(doc.tables, s.table).fields, s.field).type,
                     Named(target.fields, s.toField).type)
         \/ \E i, j \in DOMAIN doc.relations :
              i < j /\ CreateRelation(doc.relations[i]).name = CreateRelation(doc.relations[j]).name
    [] OTHER -> FALSE

\* Statements never stumble over what the script itself did, nor over anything
\* validateSchema looks at: for those two lists of reasons only.  And a way back that has
\* been reached stumbles over nothing but columns that are added or change their type.
RefusalsExplained ==
  phase \in {"refused", "stuck"} =>
    /\ IF route = "schema" THEN DocumentRefusal(NextStatement) ELSE MigrationRefusal(NextStatement)
    /\ phase = "stuck" => NextStatement.op \in {"add_column", "alter_column"}

\* f is a key of s: it names every member, and no two alike.
Key(s, f) == LET names == {s[i][f] : i \in DOMAIN s}
             IN  Empty \notin names /\ Cardinality(names) = Len(s)

Filled(s, f) == \A x \in Range(s) : x[f] # Empty
Resolves(s, f, t) == {x[f] : x \in Range(s)} \subseteq {y.id : y \in Range(t)}

\* What a document must be: every thing has a name that is its own, and every name that
\* is used is that of a thing.
WellFormed(d) ==
  LET has(t, f) == \E u \in Range(d.tables) : u.name = t /\ \E g \in Range(u.fields) : g.name = f
  IN
  /\ Key(d.tables, "name") /\ Key(d.tenants, "id") /\ Key(d.apps, "id") /\ Key(d.rules, "id")
  /\ \A t \in Range(d.tables) :
       /\ Key(t.fields, "name") /\ Key(t.indexes, "name")
       /\ \A x \in Range(t.indexes) : x.fields # <<>> /\ \A f \in Range(x.fields) : has(t.name, f)
  /\ \A r \in Range(d.relations) : has(r.fromTable, r.fromField) /\ has(r.toTable, r.toField)
  /\ Filled(d.tenants, "name") /\ Filled(d.apps, "name") /\ Filled(d.rules, "trigger")
  /\ Resolves(d.apps, "tenantId", d.tenants) /\ Resolves(d.rules, "appId", d.apps)
  /\ Filled(d.permissions, "resource") /\ Filled(d.permissions, "action")
  /\ \A p \in Range(d.permissions) :
       p.roles # <<>> /\ Empty \notin Range(p.roles) /\ IsInjective(p.roles)

\* The generators throw on exactly the documents that are not well formed, but for names
\* that cannot be quoted, and agree with one another: what passes has API routes that
\* are told apart and a permission manifest.
ValidatorIsExact ==
  /\ phase = "rejected" => ~WellFormed(doc) \/ ~(Quoted(doc) \subseteq Quotable)
  /\ route = "schema" /\ phase # "rejected" /\ phase # "compile" =>
       /\ WellFormed(doc)
       /\ IsInjective(CompileApiRoutes(doc))
       /\ ManifestAccepts(doc.permissions)
=============================================================================
