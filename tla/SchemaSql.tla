----------------------------- MODULE SchemaSql -----------------------------
(***************************************************************************)
(* From a schema document to a database that holds it: validateSchema, the *)
(* generators that run behind it (SQL, API routes, permission manifest),   *)
(* and what Postgres does with the index and relation statements, and with *)
(* others because of the indexes and relations there are.  A document is a *)
(* record of sequences, its optional parts <<>> when they are left out;    *)
(* Empty stands for every falsy name.                                      *)
(***************************************************************************)
EXTENDS MigrationSql

CONSTANTS
  Empty,      \* a name that is missing or ""
  Quotable,   \* names that quoteIdentifier accepts
  Indexable,  \* types an index can be made of
  Joins       \* <<t, u>>: a column of one type can refer to one of another

Names(s) == [i \in DOMAIN s |-> s[i].name]
Ids(s) == [i \in DOMAIN s |-> s[i].id]

\* for (const x of s) { if (!name) throw; if (names.has(name)) throw; names.add(name) }
Distinct(names) == Empty \notin Range(names) /\ IsInjective(names)

ValidFields(t) == Distinct(Names(t.fields))

ValidIndexes(t) ==
  /\ Distinct(Names(t.indexes))
  /\ \A i \in DOMAIN t.indexes :
       /\ t.indexes[i].fields # <<>>
       /\ Range(t.indexes[i].fields) \subseteq Range(Names(t.fields))

ValidRelation(tables, r) ==
  /\ Empty \notin {r.fromTable, r.fromField, r.toTable, r.toField}
  /\ Has(tables, r.fromTable) /\ Has(Named(tables, r.fromTable).fields, r.fromField)
  /\ Has(tables, r.toTable) /\ Has(Named(tables, r.toTable).fields, r.toField)

ValidTenants(tenants) ==
  Distinct(Ids(tenants)) /\ \A i \in DOMAIN tenants : tenants[i].name # Empty

\* Slip: that an app's tenant exists is not looked at.
ValidAppsAnyTenant(apps, tenants) ==
  /\ Distinct(Ids(apps))
  /\ \A i \in DOMAIN apps : Empty \notin {apps[i].tenantId, apps[i].name}

ValidApps(apps, tenants) ==
  /\ Distinct(Ids(apps))
  /\ \A i \in DOMAIN apps : /\ Empty \notin {apps[i].tenantId, apps[i].name}
                            /\ apps[i].tenantId \in Range(Ids(tenants))

ValidRules(rules, apps) ==
  /\ Distinct(Ids(rules))
  /\ \A i \in DOMAIN rules : /\ Empty \notin {rules[i].appId, rules[i].trigger}
                             /\ rules[i].appId \in Range(Ids(apps))

ValidPermission(p) ==
  /\ Empty \notin {p.resource, p.action}
  /\ p.roles # <<>>
  /\ Distinct(p.roles)

ValidateSchema(doc) ==
  /\ Distinct(Names(doc.tables))
  /\ \A i \in DOMAIN doc.tables : ValidFields(doc.tables[i]) /\ ValidIndexes(doc.tables[i])
  /\ \A i \in DOMAIN doc.relations : ValidRelation(doc.tables, doc.relations[i])
  /\ ValidTenants(doc.tenants)
  /\ ValidApps(doc.apps, doc.tenants)
  /\ ValidRules(doc.rules, doc.apps)
  /\ \A i \in DOMAIN doc.permissions : ValidPermission(doc.permissions[i])

----------------------------------------------------------------------------
\* The generators.

CreateIndex(t, index) ==
  [op |-> "create_index", table |-> t.name, name |-> index.name, fields |-> index.fields,
   unique |-> index.unique]

\* The name of the constraint is put together from the table and the field.
CreateRelation(r) ==
  [op |-> "add_relation", table |-> r.fromTable, field |-> r.fromField,
   toTable |-> r.toTable, toField |-> r.toField, name |-> <<r.fromTable, r.fromField>>]

\* compileSchemaSql: tables, then indexes, then relations.
CompileSchemaSql(doc) ==
  Each(doc.tables, CreateTable)
  \o FlattenSeq(Each(doc.tables, LAMBDA t : Each(t.indexes, LAMBDA x : CreateIndex(t, x))))
  \o Each(doc.relations, CreateRelation)

\* Every name that is quoted on the way; one that cannot be stops the compilation.
Quoted(doc) ==
  Range(Names(doc.tables))
  \cup UNION {Range(Names(t.fields)) \cup Range(Names(t.indexes)) : t \in Range(doc.tables)}

\* compileApiRoutes: two routes per table, known by table and operation.
CompileApiRoutes(doc) ==
  FlattenSeq(Each(doc.tables, LAMBDA t : << <<t.name, "query">>, <<t.name, "mutation">> >>))

\* compilePermissionManifest checks each permission as validateSchema does.
ManifestAccepts(permissions) == \A i \in DOMAIN permissions : ValidPermission(permissions[i])

----------------------------------------------------------------------------
\* Postgres: objects is the set of indexes and constraints.

TypeIn(db, t, c) == db[t][c].type
CanJoin(from, to) == from = to \/ <<from, to>> \in Joins

\* The columns of its table that an index or a relation is made of.
OwnColumns(x) == IF x.op = "create_index" THEN Range(x.fields) ELSE {x.field}

\* Indexes share one namespace with the tables, constraints have one per table; a
\* relation needs a unique index on exactly the column it points to, of a type it joins.
RefusedObject(db, objects, s) ==
  \/ s.table \notin DOMAIN db
  \/ /\ s.op = "create_index"
     /\ \/ s.name \in DOMAIN db
        \/ \E x \in objects : x.op = "create_index" /\ x.name = s.name
        \/ \E f \in Range(s.fields) : \/ f \notin DOMAIN db[s.table]
                                       \/ TypeIn(db, s.table, f) \notin Indexable
  \/ /\ s.op = "add_relation"
     /\ \/ s.field \notin DOMAIN db[s.table]
        \/ s.toTable \notin DOMAIN db
        \/ s.toField \notin DOMAIN db[s.toTable]
        \/ ~CanJoin(TypeIn(db, s.table, s.field), TypeIn(db, s.toTable, s.toField))
        \/ ~ \E x \in objects : /\ x.op = "create_index" /\ x.unique
                                /\ x.table = s.toTable /\ x.fields = <<s.toField>>
        \/ \E x \in objects : x.op = "add_relation" /\ x.name = s.name

\* The indexes and relations can be on the database, all at once.
Standing(db, objects) == \A x \in objects : ~RefusedObject(db, objects \ {x}, x)

\* Relation x has the column as its end; a column can have both ends.
RefersFrom(x, t, c) == x.op = "add_relation" /\ x.table = t /\ x.field = c
RefersTo(x, t, c) == x.op = "add_relation" /\ x.toTable = t /\ x.toField = c

\* The types a relation joins after a column has got another one.
StillJoins(db, x, s) ==
  LET after(t, c) == IF t = s.table /\ c = s.column THEN s.type ELSE TypeIn(db, t, c)
  IN  CanJoin(after(x.table, x.field), after(x.toTable, x.toField))

\* A table statement is refused because of an index or a relation: the name is an
\* index's; a relation of another table, or of another column, points to what is
\* dropped; a type change leaves an index or a relation without an operator.
Held(db, objects, s) ==
  CASE s.op = "create_table" -> \E x \in objects : x.op = "create_index" /\ x.name = s.table
    [] s.op = "drop_table" ->
         \E x \in objects : x.op = "add_relation" /\ x.toTable = s.table /\ x.table # s.table
    [] s.op = "drop_column" ->
         \E x \in objects : /\ RefersTo(x, s.table, s.column)
                            /\ ~RefersFrom(x, s.table, s.column)
    [] s.op = "alter_column" ->
         \E x \in objects :
           \/ /\ x.op = "create_index" /\ x.table = s.table /\ s.column \in Range(x.fields)
              /\ s.type \notin Indexable
           \/ /\ RefersFrom(x, s.table, s.column) \/ RefersTo(x, s.table, s.column)
              /\ ~StillJoins(db, x, s)
    [] OTHER -> FALSE   \* add_column

\* What is left of them after a table statement: a table takes its indexes and its own
\* relations along, a column those it is part of.
Released(objects, s) ==
  CASE s.op = "drop_table" -> {x \in objects : x.table # s.table}
    [] s.op = "drop_column" ->
         {x \in objects : ~(x.table = s.table /\ s.column \in OwnColumns(x))}
    [] OTHER -> objects
=============================================================================
