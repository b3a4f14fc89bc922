------------------------- MODULE MCMigrationScripts -------------------------
(***************************************************************************)
(* Two tables, in either order: one with up to two columns, the second of  *)
(* them perhaps of a type that does not exist, the other with at most one; *)
(* and databases that have indexes on them, and a relation either way or   *)
(* within a table.  And documents with everything that can be wrong with   *)
(* them: two tables with fields and indexes, and relations between them;   *)
(* or tenants, apps, rules and permissions.                                *)
(***************************************************************************)
EXTENDS MigrationScripts

MCUpper(n) == CASE n = "orders" -> "ORDERS" [] n = "users" -> "USERS" [] OTHER -> n

\* Every type is cast to text on assignment.
MCCasts == {<<"INTEGER", "TEXT">>, <<"JSON", "TEXT">>}

Field(name, types, nullability) == [name : {name}, type : types, nullable : nullability]

Fields ==
  LET a == Field("a", {"TEXT", "INTEGER"}, BOOLEAN)
      b == Field("b", {"TEXT", "STRNG"}, {FALSE})
  IN  {<<>>} \cup {<<f>> : f \in a \cup b} \cup {<<f, g>> : f \in a, g \in b}

Orders == {<<[name |-> "orders", fields |-> fs]>> : fs \in Fields}
Users == {<<[name |-> "users", fields |-> fs]>> : fs \in {<<>>} \cup {<<f>> : f \in Field("a", {"TEXT", "INTEGER", "JSON"}, {FALSE})}}

MCSchemas == {<<>>} \cup Orders \cup Users \cup {o \o u : o \in Orders, u \in Users}
             \cup {u \o o : o \in Orders, u \in Users}

\* Indexes and relations that earlier versions have left.
Index(t, name, fields) == CreateIndex([name |-> t], [name |-> name, fields |-> fields, unique |-> TRUE])
Relation(a, c, b, d) ==
  CreateRelation([fromTable |-> a, fromField |-> c, toTable |-> b, toField |-> d])

MCHoldings ==
  LET i == Index("orders", "i", <<"a">>)
      u == Index("users", "u", <<"a">>)
  IN  {{}, {i, Index("orders", "users", <<"a", "b">>)},
       {i, Relation("users", "a", "orders", "a"), Relation("orders", "a", "orders", "a")},
       {u, Relation("orders", "b", "users", "a")}, {i, Relation("orders", "b", "orders", "a")}}

\* Fields and indexes of a document's table.
F(name, type) == [name |-> name, type |-> type, nullable |-> FALSE]
I(name, fields, unique) == [name |-> name, fields |-> fields, unique |-> unique]

DocFields == {<<F("a", "INTEGER")>>, <<F("a", "INTEGER"), F("b", "TEXT")>>,
              <<F("a", "INTEGER"), F("a", "TEXT")>>, <<F(Empty, "TEXT")>>, <<F("a b", "TEXT")>>,
              <<F("a", "STRNG")>>, <<F("a", "JSON")>>}
DocIndexes == {<<>>, <<I("i", <<"a">>, TRUE)>>, <<I("i", <<"a">>, FALSE), I("j", <<"b">>, TRUE)>>,
               <<I("i", <<"a">>, TRUE), I("i", <<"b">>, TRUE)>>, <<I("i", <<>>, TRUE)>>,
               <<I("orders", <<"a">>, TRUE)>>, <<I(Empty, <<"a">>, TRUE)>>}
Table(names) == [name : names, fields : DocFields, indexes : DocIndexes]

R(a, b, c, d) == [fromTable |-> a, fromField |-> b, toTable |-> c, toField |-> d]
DocRelations == {<<>>, <<R("users", "a", "orders", "a")>>, <<R("orders", "a", "users", "b")>>,
                 <<R("users", "a", "orders", "a"), R("users", "a", "users", "a")>>,
                 <<R("users", "a", "orders", Empty)>>, <<R("orders", "a", "orders", "b")>>}

DocTables == {<<>>} \cup {<<t>> : t \in Table({Empty, "orders"})}
             \cup {<<t, u>> : t \in Table({"orders"}), u \in Table({"orders", "users"})}

DocTenants == {<<>>, <<[id |-> "t", name |-> "n"]>>, <<[id |-> "t", name |-> Empty]>>,
               <<[id |-> "t", name |-> "n"], [id |-> "t", name |-> "m"]>>,
               <<[id |-> Empty, name |-> "n"]>>}
App(id, tenant, name) == [id |-> id, tenantId |-> tenant, name |-> name]
DocApps == {<<>>, <<App("p", "t", "n")>>, <<App("p", "u", "n")>>, <<App("p", "t", Empty)>>,
            <<App("p", Empty, "n")>>, <<App("p", "t", "n"), App("p", "t", "m")>>}
Rule(id, app, trigger) == [id |-> id, appId |-> app, trigger |-> trigger]
DocRules == {<<>>, <<Rule("r", "p", "e")>>, <<Rule("r", "q", "e")>>, <<Rule("r", "p", Empty)>>,
             <<Rule("r", "p", "e"), Rule("r", "p", "f")>>, <<Rule(Empty, "p", "e")>>}
Allow(resource, action, roles) == [resource |-> resource, action |-> action, roles |-> roles]
DocPermissions == {<<>>, <<Allow("o", "query", <<"x", "y">>)>>, <<Allow(Empty, "query", <<"x">>)>>,
                   <<Allow("o", Empty, <<"x">>)>>, <<Allow("o", "query", <<>>)>>,
                   <<Allow("o", "query", <<"x", Empty>>)>>, <<Allow("o", "query", <<"x", "x">>)>>}

MCDocuments ==
  {[Nothing EXCEPT !.tables = t, !.relations = r] : t \in DocTables, r \in DocRelations}
  \cup {[Nothing EXCEPT !.tenants = t, !.apps = a, !.rules = r, !.permissions = p] :
          t \in DocTenants, a \in DocApps, r \in DocRules, p \in DocPermissions}
=============================================================================
