------------------------ MODULE MCMigrationExecution ------------------------
(* Three versions: columns added to two tables, then a type change with no *)
(* way back of a column that becomes nullable, a column dropped, and a     *)
(* table replaced by one whose name differs only in case.  Migrating from  *)
(* 1 to 2 locks t before u, from 1 to 3 u before t.                        *)
EXTENDS MigrationExecution

Field(n, t) == [name |-> n, type |-> t, nullable |-> FALSE]
Nullable(n, t) == [Field(n, t) EXCEPT !.nullable = TRUE]
Table(n, fs) == [name |-> n, fields |-> fs]

Text == "TEXT"
MCCasts == {<<"INTEGER", Text>>}
MCUpper(n) == CASE n = "t" -> "T" [] n = "u" -> "U" [] n = "b" -> "B" [] OTHER -> n

MCSchemaOf == <<
  << Table("t", <<Field("a", "INTEGER")>>), Table("u", <<Field("a", "INTEGER")>>) >>,
  << Table("u", <<Field("a", "INTEGER"), Field("b", Text)>>),
     Table("t", <<Field("a", "INTEGER"), Field("b", Text)>>) >>,
  << Table("u", <<Nullable("a", Text)>>), Table("T", <<Field("a", "INTEGER")>>) >> >>

Allow == [allowDestructive |-> TRUE, allowlist |-> {}]
Allowlist(statements) == [allowDestructive |-> FALSE, allowlist |-> statements]

Migrate(v, w, options) == [kind |-> "migrate", from |-> v, to |-> w, options |-> options]
Replay(v, options) == [kind |-> "replay", from |-> v, to |-> v, options |-> options]

MCRequests == {Migrate(1, 2, NoOptions), Migrate(2, 1, Allow), Migrate(2, 3, Allowlist({DropTable("t")})),
               Migrate(2, 3, Allowlist({DropTable("T"), DropColumn("U", [name |-> "b"])})),
               Migrate(1, 3, Allow), Migrate(3, 2, Allow), Replay(1, Allow)}
=============================================================================
