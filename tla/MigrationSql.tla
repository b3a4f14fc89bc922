---------------------------- MODULE MigrationSql ----------------------------
(***************************************************************************)
(* The migration statements the kernel writes, and what Postgres does with *)
(* them.  A schema is the sequence of its tables, a table a name and the   *)
(* sequence of its fields; validateSchema has made the names unique.  A    *)
(* statement is a record, never text.  A database maps the name of every   *)
(* table it has to its columns.  Types are SQL types (toSqlType applied,   *)
(* which passes on what it does not know); indexes and relations are left  *)
(* out, as diffSchemas leaves them out: SchemaSql has them.                *)
(***************************************************************************)
EXTENDS SequencesExt

CONSTANTS
  Known,      \* the types Postgres has
  Casts,      \* <<from, to>>: one type is cast to another on assignment
  Upper(_)    \* a name in upper case

Each(s, Op(_)) == [i \in DOMAIN s |-> Op(s[i])]

\* The members of s that are in kept, in their order.
Keep(s, kept) ==
  LET upto[n \in 0 .. Len(s)] ==
        IF n = 0 THEN <<>>
        ELSE IF s[n] \in kept THEN Append(upto[n - 1], s[n]) ELSE upto[n - 1]
  IN  upto[Len(s)]

\* Map.has and Map.get over an array of named things.
Has(s, n) == \E i \in DOMAIN s : s[i].name = n
Named(s, n) == s[CHOOSE i \in DOMAIN s : s[i].name = n]

\* What validateSchema has seen to: no two tables, nor two fields of a table, have one name.
IsSeq(s) == s \in Seq(Range(s))
UniqueNames(s) == IsSeq(s) /\ \A i, j \in DOMAIN s : s[i].name = s[j].name => i = j
IsSchema(s) == UniqueNames(s) /\ \A t \in Range(s) : UniqueNames(t.fields)

\* The things of s whose names are new to t.
Unknown(s, t) == Keep(s, {x \in Range(s) : ~Has(t, x.name)})

----------------------------------------------------------------------------
\* Statements

CreateTable(t) == [op |-> "create_table", table |-> t.name, fields |-> t.fields]
DropTable(n) == [op |-> "drop_table", table |-> n]
AddColumn(n, f) == [op |-> "add_column", table |-> n, field |-> f]
DropColumn(n, f) == [op |-> "drop_column", table |-> n, column |-> f.name]
AlterColumn(n, column, type) ==
  [op |-> "alter_column", table |-> n, column |-> column, type |-> type]

\* Slip: a field is compared with its type when additions are looked for.
TableDiffRetyped(n, from, to) ==
  [table |-> n,
   added |-> Keep(to, {f \in Range(to) : ~(Has(from, f.name) /\ Named(from, f.name).type = f.type)}),
   removed |-> Unknown(from, to),
   changed |-> <<>>]

\* diffTableFields
TableDiff(n, from, to) ==
  [table |-> n,
   added |-> Unknown(to, from),
   removed |-> Unknown(from, to),
   changed |->
     LET changes == Keep(from, {f \in Range(from) : /\ Has(to, f.name)
                                                    /\ Named(to, f.name).type # f.type})
     IN  Each(changes, LAMBDA f : [field |-> f.name, fromType |-> f.type,
                                   toType |-> Named(to, f.name).type])]

\* Slip: a table whose only difference is a type counts as unchanged.
DiffSchemasWithoutTypes(from, to) ==
  LET kept == Keep(from, {t \in Range(from) : Has(to, t.name)})
      diffs == Each(kept, LAMBDA t : TableDiff(t.name, t.fields, Named(to, t.name).fields))
  IN  [added |-> Unknown(to, from),
       removed |-> Unknown(from, to),
       changed |-> Keep(diffs, {d \in Range(diffs) : d.added \o d.removed # <<>>})]

DiffSchemas(from, to) ==
  LET kept == Keep(from, {t \in Range(from) : Has(to, t.name)})
      diffs == Each(kept, LAMBDA t : TableDiff(t.name, t.fields, Named(to, t.name).fields))
  IN  [added |-> Unknown(to, from),
       removed |-> Unknown(from, to),
       changed |-> Keep(diffs, {d \in Range(diffs) : d.added \o d.removed # <<>> \/ d.changed # <<>>})]

GenerateMigrationSql(diff) ==
  LET alter(d) == Each(d.added, LAMBDA f : AddColumn(d.table, f))
                  \o Each(d.removed, LAMBDA f : DropColumn(d.table, f))
                  \o Each(d.changed, LAMBDA c : AlterColumn(d.table, c.field, c.toType))
  IN  Each(diff.added, CreateTable)
      \o FlattenSeq(Each(diff.changed, alter))
      \o Each(diff.removed, LAMBDA t : DropTable(t.name))

\* The other route to the same goal: a DSL whose actions have an up and a down.
BuildMigrationDsl(from, to) ==
  LET diff == DiffSchemas(from, to)
      alter(d) ==
        Each(d.added, LAMBDA f : [type |-> "add_column", table |-> d.table, column |-> f])
        \o Each(d.changed, LAMBDA c : [type |-> "alter_column", table |-> d.table, change |-> c])
        \o Each(d.removed, LAMBDA f : [type |-> "drop_column", table |-> d.table, column |-> f])
  IN  Each(diff.added, LAMBDA t : [type |-> "create_table", table |-> t])
      \o FlattenSeq(Each(diff.changed, alter))
      \o Each(diff.removed, LAMBDA t : [type |-> "drop_table", table |-> t])

UpOf(a) ==
  CASE a.type = "create_table" -> CreateTable(a.table)
    [] a.type = "drop_table" -> DropTable(a.table.name)
    [] a.type = "add_column" -> AddColumn(a.table, a.column)
    [] a.type = "drop_column" -> DropColumn(a.table, a.column)
    [] a.type = "alter_column" -> AlterColumn(a.table, a.change.field, a.change.toType)

\* Slip: the way down sets the type the way up has set.
DownOfForward(a) ==
  CASE a.type = "create_table" -> DropTable(a.table.name)
    [] a.type = "drop_table" -> CreateTable(a.table)
    [] a.type = "add_column" -> DropColumn(a.table, a.column)
    [] a.type = "drop_column" -> AddColumn(a.table, a.column)
    [] a.type = "alter_column" -> AlterColumn(a.table, a.change.field, a.change.toType)

DownOf(a) ==
  CASE a.type = "create_table" -> DropTable(a.table.name)
    [] a.type = "drop_table" -> CreateTable(a.table)
    [] a.type = "add_column" -> DropColumn(a.table, a.column)
    [] a.type = "drop_column" -> AddColumn(a.table, a.column)
    [] a.type = "alter_column" -> AlterColumn(a.table, a.change.field, a.change.fromType)

\* push builds the way up, unshift the way down.
CompileUp(dsl) == Each(dsl, UpOf)
CompileDown(dsl) == Reverse(Each(dsl, DownOf))

----------------------------------------------------------------------------
\* The guard

\* Slip: dropping a column is not on the list of patterns.
DestructiveTable(statement) == statement.op = "drop_table"

Destructive(statement) == statement.op \in {"drop_table", "drop_column"}

\* normalizeStatement: the text of a destructive statement in upper case, the quoted
\* names in it as well, although Postgres tells them apart by case.
Normalize(s) ==
  IF s.op = "drop_table" THEN [s EXCEPT !.table = Upper(@)]
                         ELSE [s EXCEPT !.table = Upper(@), !.column = Upper(@)]

\* Slip: any allowlist lets everything through.
BlockedUnlessListed(statements, options) ==
  Keep(statements, {s \in Range(statements) : /\ Destructive(s)
                                              /\ ~options.allowDestructive
                                              /\ options.allowlist = {}})

\* The blocked statements of createMigrationSafetyReport.
Blocked(statements, options) ==
  Keep(statements, {s \in Range(statements) : /\ Destructive(s)
                                              /\ ~options.allowDestructive
                                              /\ Normalize(s) \notin {Normalize(x) : x \in options.allowlist}})

----------------------------------------------------------------------------
\* Postgres

Columns(fields) ==
  [c \in {fields[i].name : i \in DOMAIN fields} |->
     [type |-> Named(fields, c).type, nullable |-> Named(fields, c).nullable]]

\* The database that holds exactly the tables of a schema.
Tables(schema) ==
  [t \in {schema[i].name : i \in DOMAIN schema} |-> Columns(Named(schema, t).fields)]

\* ALTER COLUMN ... TYPE without USING goes through the assignment cast.
CanCast(from, to) == from = to \/ <<from, to>> \in Casts

\* Postgres answers with an error, populated being the tables with rows.
Refused(db, populated, s) ==
  IF s.op = "create_table"
  THEN s.table \in DOMAIN db \/ \E f \in Range(s.fields) : f.type \notin Known
  ELSE s.table \in DOMAIN db =>
         LET columns == db[s.table] IN
         \/ /\ s.op = "add_column"
            /\ \/ s.field.type \notin Known
               \/ s.field.name \in DOMAIN columns
               \/ ~s.field.nullable /\ s.table \in populated
         \/ s.op = "drop_column" /\ s.column \notin DOMAIN columns
         \/ /\ s.op = "alter_column"
            /\ \/ s.type \notin Known
               \/ s.column \in DOMAIN columns => ~CanCast(columns[s.column].type, s.type)

WithColumn(columns, f) ==
  [c \in {f.name} \cup DOMAIN columns |->
     IF c = f.name THEN [type |-> f.type, nullable |-> f.nullable] ELSE columns[c]]

\* What a statement that is not refused does.
Effect(db, s) ==
  CASE s.op = "create_table" ->
         [t \in DOMAIN db \cup {s.table} |-> IF t = s.table THEN Columns(s.fields) ELSE db[t]]
    [] s.op = "drop_table" -> [t \in DOMAIN db \ {s.table} |-> db[t]]
    [] s.op = "add_column" -> [db EXCEPT ![s.table] = WithColumn(@, s.field)]
    [] s.op = "drop_column" ->
         [db EXCEPT ![s.table] = [c \in DOMAIN @ \ {s.column} |-> @[c]]]
    [] OTHER -> [db EXCEPT ![s.table][s.column].type = s.type]   \* alter_column
=============================================================================
