-------------------------- MODULE MigrationProofs --------------------------
(***************************************************************************)
(* What migration statements and plans do to a database, for every schema: *)
(* a plan leads from one schema to the other.  Migrations are atomic, and  *)
(* what is told of them is true, for every number of calls and connections,*)
(* every history of schemas and every failure.  Then a generated migration *)
(* by itself: where its statements lead, and which documents are compiled, *)
(* for every pair of schemas and every document.                           *)
(***************************************************************************)
EXTENDS MigrationExecution, MigrationScripts, FiniteSetTheorems, WellFoundedInduction, TLAPS

----------------------------------------------------------------------------
(* Induction, over a set of numbers.                                       *)

LEMMA EveryNumber ==
  ASSUME NEW S, 0 \in S, \A n \in Nat : n \in S => n + 1 \in S
  PROVE  Nat \subseteq S
<1>1. SUFFICES ASSUME Nat \ S # {} PROVE FALSE
  OBVIOUS
<1>2. PICK m \in Nat \ S : \A k \in Nat \ S : <<k, m>> \notin OpToRel(<, Nat)
  <2>1. Nat \ S \subseteq Nat
    OBVIOUS
  <2> QED BY <1>1, <2>1, NatLessThanWellFounded, WFMin
<1>3. m \in Nat /\ m \notin S /\ m # 0
  BY <1>2
<1>4. m - 1 \in Nat /\ m - 1 < m
  BY <1>3
<1>5. m - 1 \in S
  BY <1>2, <1>4 DEF OpToRel
<1>6. m \in S
  <2>1. (m - 1) + 1 = m
    BY <1>3
  <2> QED BY <1>4, <1>5, <2>1
<1> QED BY <1>3, <1>6

----------------------------------------------------------------------------
(* Statements on databases.                                                *)

IsMap(d) == d = [t \in DOMAIN d |-> d[t]]

\* Two databases have the same table, or both have none, of a name.
SameAt(d, e, t) == /\ t \in DOMAIN d <=> t \in DOMAIN e
                   /\ t \in DOMAIN d => d[t] = e[t]

LEMMA MapsAreEqual ==
  ASSUME NEW d, NEW e, IsMap(d), IsMap(e), \A t : SameAt(d, e, t)
  PROVE  d = e
BY DEF IsMap, SameAt

\* A statement makes a database of a database.
LEMMA EffectIsMap ==
  ASSUME NEW d, NEW s, IsMap(d)
  PROVE  IsMap(Effect(d, s))
BY DEF IsMap, Effect

\* It changes the table it names, and no other.
LEMMA EffectElsewhere ==
  ASSUME NEW d, NEW s, IsMap(d), NEW t, t # s.table
  PROVE  SameAt(Effect(d, s), d, t)
BY DEF IsMap, SameAt, Effect

\* What it does to its table depends on that table alone ...
LEMMA EffectIsLocal ==
  ASSUME NEW d, NEW e, NEW s, IsMap(d), IsMap(e), SameAt(d, e, s.table)
  PROVE  SameAt(Effect(d, s), Effect(e, s), s.table)
BY DEF IsMap, SameAt, Effect

\* ... and so does whether it is refused.
LEMMA RefusedIsLocal ==
  ASSUME NEW d, NEW e, NEW s, SameAt(d, e, s.table)
  PROVE  Refused(d, {}, s) <=> Refused(e, {}, s)
BY DEF SameAt, Refused

\* A statement on a table that is not there is refused, unless it creates it.
LEMMA TableIsThere ==
  ASSUME NEW d, NEW s, ~Refused(d, {}, s)
  PROVE  s.op = "create_table" \/ s.table \in DOMAIN d
BY DEF Refused

----------------------------------------------------------------------------
(* Plans.                                                                  *)

\* The states a database goes through in the first n statements of p.
IsRun(f, d, p, n) == f = [i \in 0 .. n |-> IF i = 0 THEN d ELSE Effect(f[i - 1], p[i])]

Ran(d, p, n) == (CHOOSE f : IsRun(f, d, p, n))[n]

LEMMA RunExists ==
  ASSUME NEW d, NEW p, NEW n \in Nat
  PROVE  \E f : IsRun(f, d, p, n)
<1> DEFINE S == {m \in Nat : \E f : IsRun(f, d, p, m)}
<1>1. 0 \in S
  <2> DEFINE f == [i \in 0 .. 0 |-> d]
  <2>1. f = [i \in 0 .. 0 |-> IF i = 0 THEN d ELSE Effect(f[i - 1], p[i])]
    OBVIOUS
  <2> QED BY <2>1 DEF IsRun
<1>2. ASSUME NEW m \in Nat, m \in S PROVE m + 1 \in S
  <2>1. PICK f : IsRun(f, d, p, m)
    BY <1>2
  <2> DEFINE g == [i \in 0 .. m + 1 |-> IF i = m + 1 THEN Effect(f[m], p[m + 1]) ELSE f[i]]
  <2>2. ASSUME NEW i \in 0 .. m + 1
        PROVE  g[i] = IF i = 0 THEN d ELSE Effect(g[i - 1], p[i])
    <3>1. CASE i = m + 1
      <4>1. i # 0 /\ i - 1 = m /\ g[i] = Effect(f[m], p[i]) /\ g[m] = f[m]
        BY <3>1
      <4> QED BY <4>1
    <3>2. CASE i \in 0 .. m
      <4>1. f[i] = IF i = 0 THEN d ELSE Effect(f[i - 1], p[i])
        BY <2>1, <3>2 DEF IsRun
      <4>2. g[i] = f[i] /\ (i # 0 => g[i - 1] = f[i - 1])
        BY <3>2
      <4> QED BY <4>1, <4>2
    <3> QED BY <3>1, <3>2
  <2>3. IsRun(g, d, p, m + 1)
    <3> HIDE DEF g
    <3>1. g = [i \in 0 .. m + 1 |-> g[i]]
      BY DEF g
    <3> QED BY <2>2, <3>1 DEF IsRun
  <2> QED BY <2>3
<1>3. Nat \subseteq S
  <2> HIDE DEF S
  <2> QED BY <1>1, <1>2, EveryNumber
<1> QED BY <1>3

LEMMA RunsAgree ==
  ASSUME NEW d, NEW p, NEW n \in Nat, NEW m \in Nat, NEW f, NEW g,
         IsRun(f, d, p, n), IsRun(g, d, p, m)
  PROVE  \A i \in Nat : i <= n /\ i <= m => f[i] = g[i]
<1> DEFINE S == {i \in Nat : i <= n /\ i <= m => f[i] = g[i]}
<1>1. 0 \in S
  BY DEF IsRun
<1>2. ASSUME NEW i \in Nat, i \in S PROVE i + 1 \in S
  <2>1. SUFFICES ASSUME i + 1 <= n, i + 1 <= m PROVE f[i + 1] = g[i + 1]
    OBVIOUS
  <2>2. f[i + 1] = Effect(f[i], p[i + 1]) /\ g[i + 1] = Effect(g[i], p[i + 1])
    BY <2>1 DEF IsRun
  <2>3. f[i] = g[i]
    BY <1>2, <2>1
  <2> QED BY <2>2, <2>3
<1>3. Nat \subseteq S
  <2> HIDE DEF S
  <2> QED BY <1>1, <1>2, EveryNumber
<1> QED BY <1>3

LEMMA RanSteps ==
  ASSUME NEW d, NEW p
  PROVE  /\ Ran(d, p, 0) = d
         /\ \A n \in Nat : Ran(d, p, n + 1) = Effect(Ran(d, p, n), p[n + 1])
<1> DEFINE R(n) == CHOOSE f : IsRun(f, d, p, n)
<1>1. \A n \in Nat : IsRun(R(n), d, p, n)
  BY RunExists
<1>2. Ran(d, p, 0) = d
  <2>1. IsRun(R(0), d, p, 0)
    BY <1>1
  <2> HIDE DEF R
  <2>2. R(0)[0] = d
    BY <2>1 DEF IsRun
  <2> QED BY <2>2 DEF Ran, R
<1>3. ASSUME NEW n \in Nat PROVE Ran(d, p, n + 1) = Effect(Ran(d, p, n), p[n + 1])
  <2>1. IsRun(R(n), d, p, n) /\ IsRun(R(n + 1), d, p, n + 1)
    BY <1>1
  <2> HIDE DEF R
  <2>2. R(n + 1)[n] = R(n)[n]
    BY <2>1, RunsAgree
  <2>3. R(n + 1)[n + 1] = Effect(R(n + 1)[n], p[n + 1])
    BY <2>1 DEF IsRun
  <2> QED BY <2>2, <2>3 DEF Ran, R
<1> QED BY <1>2, <1>3

\* On databases that agree on the tables it names, a plan does the same to these,
\* and nothing to others.
LEMMA RanIsLocal ==
  ASSUME NEW d, NEW e, NEW p, NEW n \in Nat, NEW T, IsMap(d), IsMap(e),
         \A i \in 1 .. n : p[i].table \in T,
         \A t \in T : SameAt(d, e, t)
  PROVE  \A i \in 0 .. n :
           /\ IsMap(Ran(d, p, i)) /\ IsMap(Ran(e, p, i))
           /\ \A t \in T : SameAt(Ran(d, p, i), Ran(e, p, i), t)
           /\ \A t : t \notin T => SameAt(Ran(d, p, i), d, t) /\ SameAt(Ran(e, p, i), e, t)
<1> DEFINE P(i) == /\ IsMap(Ran(d, p, i)) /\ IsMap(Ran(e, p, i))
                   /\ \A t \in T : SameAt(Ran(d, p, i), Ran(e, p, i), t)
                   /\ \A t : t \notin T => /\ SameAt(Ran(d, p, i), d, t)
                                           /\ SameAt(Ran(e, p, i), e, t)
           S == {i \in Nat : i <= n => P(i)}
<1>1. 0 \in S
  BY RanSteps DEF SameAt
<1>2. ASSUME NEW i \in Nat, i \in S PROVE i + 1 \in S
  <2>1. SUFFICES ASSUME i + 1 <= n PROVE P(i + 1)
    OBVIOUS
  <2> DEFINE a == Ran(d, p, i) b == Ran(e, p, i) s == p[i + 1]
  <2>2. P(i) /\ s.table \in T
    BY <1>2, <2>1
  <2>3. Ran(d, p, i + 1) = Effect(a, s) /\ Ran(e, p, i + 1) = Effect(b, s)
    BY RanSteps
  <2>4. IsMap(a) /\ IsMap(b) /\ SameAt(a, b, s.table)
    BY <2>2
  <2> HIDE DEF a, b, s
  <2>5. IsMap(Effect(a, s)) /\ IsMap(Effect(b, s))
    BY <2>4, EffectIsMap
  <2>6. ASSUME NEW t, t # s.table
        PROVE  SameAt(Effect(a, s), a, t) /\ SameAt(Effect(b, s), b, t)
    BY <2>4, <2>6, EffectElsewhere
  <2>7. SameAt(Effect(a, s), Effect(b, s), s.table)
    BY <2>4, EffectIsLocal
  <2>8. ASSUME NEW t \in T PROVE SameAt(Effect(a, s), Effect(b, s), t)
    <3>1. SameAt(a, b, t)
      BY <2>2 DEF a, b
    <3> QED BY <2>6, <2>7, <3>1 DEF SameAt
  <2>9. ASSUME NEW t, t \notin T PROVE SameAt(Effect(a, s), d, t) /\ SameAt(Effect(b, s), e, t)
    <3>1. SameAt(a, d, t) /\ SameAt(b, e, t)
      BY <2>2, <2>9 DEF a, b
    <3> QED BY <2>2, <2>6, <2>9, <3>1 DEF SameAt
  <2> QED BY <2>3, <2>5, <2>8, <2>9
<1>3. Nat \subseteq S
  <2> HIDE DEF S
  <2> QED BY <1>1, <1>2, EveryNumber
<1> QED BY <1>3

----------------------------------------------------------------------------
(* From one database to another.                                           *)

\* Columns have a type and a nullability.
IsColumn(x) == x = [type |-> x.type, nullable |-> x.nullable]
IsTable(columns) == IsMap(columns) /\ \A c \in DOMAIN columns : IsColumn(columns[c])
IsDatabase(d) == IsMap(d) /\ \A t \in DOMAIN d : IsTable(d[t])

\* The column a statement on columns is about.
ColumnOf(s) == IF s.op = "add_column" THEN s.field.name ELSE s.column

\* Statement s does one of the things that d and e differ by.
Fits(s, d, e) ==
  \/ /\ s.op = "create_table"
     /\ s.table \in DOMAIN e \ DOMAIN d
     /\ Columns(s.fields) = e[s.table]
  \/ /\ s.op = "drop_table"
     /\ s.table \in DOMAIN d \ DOMAIN e
  \/ /\ s.op = "add_column"
     /\ s.table \in DOMAIN d \cap DOMAIN e
     /\ ColumnOf(s) \in DOMAIN e[s.table] \ DOMAIN d[s.table]
     /\ e[s.table][ColumnOf(s)] = [type |-> s.field.type, nullable |-> s.field.nullable]
  \/ /\ s.op = "drop_column"
     /\ s.table \in DOMAIN d \cap DOMAIN e
     /\ ColumnOf(s) \in DOMAIN d[s.table] \ DOMAIN e[s.table]
  \/ /\ s.op = "alter_column"
     /\ s.table \in DOMAIN d \cap DOMAIN e
     /\ ColumnOf(s) \in DOMAIN d[s.table] \cap DOMAIN e[s.table]
     /\ e[s.table][ColumnOf(s)] = [d[s.table][ColumnOf(s)] EXCEPT !.type = s.type]

\* Some statement of D is about column c of table t, or about table t as a whole.
Concerned(D, t, c) == \E s \in D : s.table = t /\ ColumnOf(s) = c
Handled(D, t) == \E s \in D : s.table = t

\* Database f is what d has become by the statements D on the way to e.
Between(f, d, e, D) ==
  /\ IsDatabase(f)
  /\ \A t : t \notin DOMAIN d \cap DOMAIN e =>
       SameAt(f, IF Handled(D, t) THEN e ELSE d, t)
  /\ \A t \in DOMAIN d \cap DOMAIN e :
       /\ t \in DOMAIN f
       /\ \A c : SameAt(f[t], IF Concerned(D, t, c) THEN e[t] ELSE d[t], c)

\* A statement that fits takes the database one step of the way.
LEMMA FittingEffect ==
  ASSUME NEW d, NEW e, NEW f, NEW D, NEW s, IsDatabase(d), IsDatabase(e),
         \A x \in D : Fits(x, d, e), Fits(s, d, e), Between(f, d, e, D)
  PROVE  Between(Effect(f, s), d, e, D \cup {s})
<1> DEFINE g == Effect(f, s)
           n == s.table
           k == ColumnOf(s)
           both == DOMAIN d \cap DOMAIN e
<1>1. IsMap(f) /\ IsMap(g)
  BY EffectIsMap DEF Between, IsDatabase
<1>2. \A t : t # n => SameAt(g, f, t)
  BY <1>1, EffectElsewhere
<1>3. \A t : Handled(D \cup {s}, t) <=> Handled(D, t) \/ t = n
  BY DEF Handled
<1>4. \A t, c : Concerned(D \cup {s}, t, c) <=> Concerned(D, t, c) \/ (t = n /\ c = k)
  BY DEF Concerned
<1>5. CASE s.op \in {"create_table", "drop_table"}
  <2>1. n \notin both /\ SameAt(g, e, n)
    BY <1>1, <1>5 DEF Fits, Effect, SameAt
  <2>2. n \in DOMAIN g => IsTable(g[n])
    BY <2>1 DEF SameAt, IsDatabase
  <2>3. \A t \in DOMAIN g : IsTable(g[t])
    BY <1>2, <2>2 DEF SameAt, IsDatabase, Between
  <2>4. ASSUME NEW t, t \notin both
        PROVE  SameAt(g, IF Handled(D \cup {s}, t) THEN e ELSE d, t)
    BY <1>2, <1>3, <2>1, <2>4 DEF Between, SameAt
  <2>5. ASSUME NEW t \in both
        PROVE  /\ t \in DOMAIN g
               /\ \A c : SameAt(g[t], IF Concerned(D \cup {s}, t, c) THEN e[t] ELSE d[t], c)
    <3>1. t # n /\ t \in DOMAIN f /\ t \in DOMAIN g /\ g[t] = f[t]
      BY <1>2, <2>1, <2>5 DEF SameAt, Between
    <3> QED BY <1>4, <3>1 DEF Between
  <2> QED BY <1>1, <2>3, <2>4, <2>5 DEF Between, IsDatabase
<1>6. CASE s.op \in {"add_column", "drop_column", "alter_column"}
  <2>1. n \in both /\ n \in DOMAIN f /\ n \in DOMAIN g /\ IsTable(f[n]) /\ IsTable(d[n]) /\ IsTable(e[n])
    BY <1>1, <1>6 DEF Fits, Effect, Between, IsDatabase
  <2>2. \A c : SameAt(f[n], IF Concerned(D, n, c) THEN e[n] ELSE d[n], c)
    BY <2>1 DEF Between
  <2>3. /\ IsTable(g[n])
        /\ SameAt(g[n], e[n], k)
        /\ \A c : c # k => SameAt(g[n], f[n], c)
    <3>1. CASE s.op = "add_column"
      <4>1. g[n] = WithColumn(f[n], s.field) /\ k = s.field.name
        BY <1>1, <2>1, <3>1 DEF Effect, ColumnOf
      <4>2. k \in DOMAIN e[n] /\ e[n][k] = [type |-> s.field.type, nullable |-> s.field.nullable]
        BY <3>1 DEF Fits
      <4> HIDE DEF g, k, n
      <4> QED BY <2>1, <4>1, <4>2 DEF WithColumn, SameAt, IsTable, IsMap, IsColumn
    <3>2. CASE s.op = "drop_column"
      <4>1. g[n] = [c \in DOMAIN f[n] \ {k} |-> f[n][c]]
        BY <1>1, <2>1, <3>2 DEF Effect, ColumnOf
      <4>2. k \notin DOMAIN e[n]
        BY <3>2 DEF Fits
      <4> HIDE DEF g, k, n
      <4> QED BY <2>1, <4>1, <4>2 DEF SameAt, IsTable, IsMap, IsColumn
    <3>3. CASE s.op = "alter_column"
      <4>1. g[n] = [f[n] EXCEPT ![k].type = s.type]
        BY <1>1, <2>1, <3>3 DEF Effect, ColumnOf
      <4>2. k \in DOMAIN d[n] /\ k \in DOMAIN e[n] /\ e[n][k] = [d[n][k] EXCEPT !.type = s.type]
        BY <3>3 DEF Fits
      <4>3. k \in DOMAIN f[n] /\ (f[n][k] = e[n][k] \/ f[n][k] = d[n][k])
        BY <2>2, <4>2 DEF SameAt
      <4> HIDE DEF g, k, n
      <4>4. g[n] = [c \in DOMAIN f[n] |-> IF c = k THEN [f[n][k] EXCEPT !.type = s.type] ELSE f[n][c]]
        BY <2>1, <4>1, <4>3 DEF IsTable, IsMap
      <4>5. IsColumn(d[n][k]) /\ IsColumn(e[n][k]) /\ IsColumn(f[n][k])
        BY <2>1, <4>2, <4>3 DEF IsTable
      <4>6. [f[n][k] EXCEPT !.type = s.type] = e[n][k]
        <5>1. [d[n][k] EXCEPT !.type = s.type] = [type |-> s.type, nullable |-> d[n][k].nullable]
          BY <4>5 DEF IsColumn
        <5>2. f[n][k].nullable = d[n][k].nullable
          BY <4>2, <4>3, <5>1
        <5>3. [f[n][k] EXCEPT !.type = s.type] = [type |-> s.type, nullable |-> f[n][k].nullable]
          BY <4>5 DEF IsColumn
        <5> QED BY <4>2, <5>1, <5>2, <5>3
      <4> QED BY <2>1, <4>2, <4>3, <4>4, <4>5, <4>6 DEF SameAt, IsTable, IsMap
    <3> QED BY <1>6, <3>1, <3>2, <3>3
  <2>4. \A t \in DOMAIN g : IsTable(g[t])
    BY <1>2, <2>3 DEF SameAt, IsDatabase, Between
  <2>5. ASSUME NEW t, t \notin both
        PROVE  SameAt(g, IF Handled(D \cup {s}, t) THEN e ELSE d, t)
    BY <1>2, <1>3, <2>1, <2>5 DEF Between, SameAt
  <2>6. ASSUME NEW t \in both
        PROVE  /\ t \in DOMAIN g
               /\ \A c : SameAt(g[t], IF Concerned(D \cup {s}, t, c) THEN e[t] ELSE d[t], c)
    <3>1. CASE t # n
      <4>1. t \in DOMAIN f /\ t \in DOMAIN g /\ g[t] = f[t]
        BY <1>2, <2>6, <3>1 DEF SameAt, Between
      <4> QED BY <1>4, <3>1, <4>1 DEF Between
    <3>2. CASE t = n
      <4> HIDE DEF g, n, k
      <4> QED BY <1>4, <2>1, <2>2, <2>3, <3>2 DEF SameAt
    <3> QED BY <3>1, <3>2
  <2> QED BY <1>1, <2>4, <2>5, <2>6 DEF Between, IsDatabase
<1> QED BY <1>5, <1>6 DEF Fits

\* What a plan has to do: every difference is the business of one of its statements.
Covers(D, d, e) ==
  /\ \A t : ~SameAt(d, e, t) /\ t \notin DOMAIN d \cap DOMAIN e => Handled(D, t)
  /\ \A t \in DOMAIN d \cap DOMAIN e : \A c : ~SameAt(d[t], e[t], c) => Concerned(D, t, c)

LEMMA NothingLeft ==
  ASSUME NEW d, NEW e, NEW f, NEW D, IsDatabase(e), Between(f, d, e, D), Covers(D, d, e)
  PROVE  f = e
<1>1. ASSUME NEW t PROVE SameAt(f, e, t)
  <2>1. CASE t \notin DOMAIN d \cap DOMAIN e
    BY <2>1 DEF Between, Covers, SameAt
  <2>2. CASE t \in DOMAIN d \cap DOMAIN e
    <3>1. t \in DOMAIN f /\ IsMap(f[t]) /\ IsMap(e[t])
      BY <2>2 DEF Between, IsDatabase, IsTable
    <3>2. \A c : SameAt(f[t], e[t], c)
      BY <2>2 DEF Between, Covers, SameAt
    <3>3. f[t] = e[t]
      BY <3>1, <3>2, MapsAreEqual
    <3> QED BY <2>2, <3>1, <3>3 DEF SameAt
  <2> QED BY <2>1, <2>2
<1> QED BY <1>1, MapsAreEqual DEF Between, IsDatabase

\* A plan of fitting statements that leaves nothing out leads from d to e.
LEMMA PlanLeads ==
  ASSUME NEW d, NEW e, NEW p, NEW n \in Nat, IsDatabase(d), IsDatabase(e),
         \A i \in 1 .. n : Fits(p[i], d, e),
         Covers({p[i] : i \in 1 .. n}, d, e)
  PROVE  Ran(d, p, n) = e
<1> DEFINE D(m) == {p[i] : i \in 1 .. m}
           S == {m \in Nat : m <= n => Between(Ran(d, p, m), d, e, D(m))}
<1>1. 0 \in S
  <2>1. D(0) = {}
    OBVIOUS
  <2>2. Between(d, d, e, {})
    BY DEF Between, Handled, Concerned, SameAt
  <2> QED BY <2>1, <2>2, RanSteps
<1>2. ASSUME NEW m \in Nat, m \in S PROVE m + 1 \in S
  <2>1. SUFFICES ASSUME m + 1 <= n PROVE Between(Ran(d, p, m + 1), d, e, D(m + 1))
    OBVIOUS
  <2>2. Between(Ran(d, p, m), d, e, D(m))
    BY <1>2, <2>1
  <2>3. D(m + 1) = D(m) \cup {p[m + 1]}
    <3>1. 1 .. m + 1 = (1 .. m) \cup {m + 1}
      OBVIOUS
    <3> QED BY <3>1
  <2>4. Fits(p[m + 1], d, e) /\ \A x \in D(m) : Fits(x, d, e)
    BY <2>1
  <2> HIDE DEF D
  <2>5. Between(Effect(Ran(d, p, m), p[m + 1]), d, e, D(m) \cup {p[m + 1]})
    BY <2>2, <2>4, FittingEffect
  <2> QED BY <2>3, <2>5, RanSteps
<1>3. n \in S
  <2> HIDE DEF S
  <2> QED BY <1>1, <1>2, EveryNumber
<1>4. Between(Ran(d, p, n), d, e, D(n))
  BY <1>3
<1> QED BY <1>4, NothingLeft

----------------------------------------------------------------------------
(* Sequences: what is kept, joined and flattened.                          *)

\* What a recursive function over numbers asks for exists.
Recursion(f, a, G, n) == f = [i \in 0 .. n |-> IF i = 0 THEN a ELSE G[<<f[i - 1], i>>]]

LEMMA RecursionExists ==
  ASSUME NEW a, NEW G, NEW n \in Nat
  PROVE  \E f : Recursion(f, a, G, n)
<1> DEFINE Good(f, m) == Recursion(f, a, G, m)
           S == {m \in Nat : \E f : Good(f, m)}
<1>1. 0 \in S
  <2> DEFINE f == [i \in 0 .. 0 |-> a]
  <2>1. f = [i \in 0 .. 0 |-> IF i = 0 THEN a ELSE G[<<f[i - 1], i>>]]
    OBVIOUS
  <2> QED BY <2>1 DEF Recursion
<1>2. ASSUME NEW m \in Nat, m \in S PROVE m + 1 \in S
  <2>1. PICK f : Good(f, m)
    BY <1>2
  <2> DEFINE g == [i \in 0 .. m + 1 |-> IF i = m + 1 THEN G[<<f[m], m + 1>>] ELSE f[i]]
  <2>2. ASSUME NEW i \in 0 .. m + 1
        PROVE  g[i] = IF i = 0 THEN a ELSE G[<<g[i - 1], i>>]
    <3>1. CASE i = m + 1
      <4>1. i # 0 /\ i - 1 = m /\ g[i] = G[<<f[m], i>>] /\ g[m] = f[m]
        BY <3>1
      <4> QED BY <4>1
    <3>2. CASE i \in 0 .. m
      <4>1. f[i] = IF i = 0 THEN a ELSE G[<<f[i - 1], i>>]
        BY <2>1, <3>2 DEF Recursion
      <4>2. g[i] = f[i] /\ (i # 0 => g[i - 1] = f[i - 1])
        BY <3>2
      <4> QED BY <4>1, <4>2
    <3> QED BY <3>1, <3>2
  <2>3. Good(g, m + 1)
    <3> HIDE DEF g
    <3>1. g = [i \in 0 .. m + 1 |-> g[i]]
      BY DEF g
    <3> QED BY <2>2, <3>1 DEF Recursion
  <2> HIDE DEF g
  <2> QED BY <2>3
<1>3. n \in S
  <2> HIDE DEF S
  <2> QED BY <1>1, <1>2, EveryNumber
<1> QED BY <1>3

LEMMA SeqFacts ==
  ASSUME NEW s, IsSeq(s)
  PROVE  /\ Len(s) \in Nat /\ DOMAIN s = 1 .. Len(s)
         /\ \A i \in 1 .. Len(s) : s[i] \in Range(s)
         /\ \A x \in Range(s) : \E i \in 1 .. Len(s) : s[i] = x
         /\ s = <<>> <=> Range(s) = {}
BY DEF IsSeq, Range

LEMMA JoinedRange ==
  ASSUME NEW s, NEW t, IsSeq(s), IsSeq(t)
  PROVE  /\ IsSeq(s \o t)
         /\ Range(s \o t) = Range(s) \cup Range(t)
<1> DEFINE S == Range(s) \cup Range(t)
<1>1. s \in Seq(S) /\ t \in Seq(S)
  BY DEF IsSeq
<1>2. s \o t \in Seq(S) /\ Len(s \o t) = Len(s) + Len(t)
  BY <1>1
<1>3. \A i \in 1 .. Len(s) + Len(t) : (s \o t)[i] = IF i <= Len(s) THEN s[i] ELSE t[i - Len(s)]
  BY <1>1
<1>4. Range(s \o t) \subseteq S
  BY <1>2 DEF Range
<1>5. ASSUME NEW x \in S PROVE x \in Range(s \o t)
  <2>1. CASE x \in Range(s)
    <3>1. PICK i \in 1 .. Len(s) : s[i] = x
      BY <2>1, SeqFacts
    <3>2. i \in DOMAIN (s \o t) /\ (s \o t)[i] = x
      BY <1>2, <1>3, <3>1, SeqFacts
    <3> QED BY <3>2 DEF Range
  <2>2. CASE x \in Range(t)
    <3>1. PICK i \in 1 .. Len(t) : t[i] = x
      BY <2>2, SeqFacts
    <3>2. i + Len(s) \in DOMAIN (s \o t) /\ (s \o t)[i + Len(s)] = x
      BY <1>2, <1>3, <3>1, SeqFacts
    <3> QED BY <3>2 DEF Range
  <2> QED BY <2>1, <2>2
<1>6. Range(s \o t) = S
  BY <1>4, <1>5
<1> HIDE DEF S
<1> QED BY <1>2, <1>6 DEF IsSeq, S

LEMMA AppendedRange ==
  ASSUME NEW s, NEW x, IsSeq(s)
  PROVE  /\ IsSeq(Append(s, x))
         /\ Range(Append(s, x)) = Range(s) \cup {x}
<1> DEFINE S == Range(s) \cup {x}
<1>1. s \in Seq(S)
  BY DEF IsSeq
<1>2. /\ Append(s, x) \in Seq(S) /\ Len(Append(s, x)) = Len(s) + 1
      /\ \A i \in 1 .. Len(s) : Append(s, x)[i] = s[i]
      /\ Append(s, x)[Len(s) + 1] = x
  BY <1>1
<1>3. Range(Append(s, x)) = S
  <2>1. Range(Append(s, x)) \subseteq S
    BY <1>2 DEF Range
  <2>2. x \in Range(Append(s, x))
    BY <1>1, <1>2 DEF Range
  <2>3. ASSUME NEW y \in Range(s) PROVE y \in Range(Append(s, x))
    <3>1. PICK i \in 1 .. Len(s) : s[i] = y
      BY SeqFacts
    <3>2. i \in DOMAIN Append(s, x) /\ Append(s, x)[i] = y
      BY <1>2, <3>1, SeqFacts
    <3> QED BY <3>2 DEF Range
  <2> QED BY <2>1, <2>2, <2>3
<1> HIDE DEF S
<1> QED BY <1>2, <1>3 DEF IsSeq, S

LEMMA KeepRecurs ==
  ASSUME NEW s, NEW kept, IsSeq(s)
  PROVE  \E f : f = [i \in 0 .. Len(s) |->
                      IF i = 0 THEN <<>>
                      ELSE IF s[i] \in kept THEN Append(f[i - 1], s[i]) ELSE f[i - 1]]
<1> DEFINE n == Len(s)
           V == Seq(Range(s))
           Good(f) == f = [i \in 0 .. n |->
                             IF i = 0 THEN <<>>
                             ELSE IF s[i] \in kept THEN Append(f[i - 1], s[i]) ELSE f[i - 1]]
<1>0. n \in Nat /\ \A i \in 1 .. n : s[i] \in Range(s)
  BY SeqFacts
<1>1. \E f : Good(f)
  <2> DEFINE G == [x \in V \X (1 .. n) |->
                     IF s[x[2]] \in kept THEN Append(x[1], s[x[2]]) ELSE x[1]]
  <2>1. PICK f : Recursion(f, <<>>, G, n)
    BY <1>0, RecursionExists
  <2>2. \A v \in V : \A i \in 1 .. n :
          /\ G[<<v, i>>] = IF s[i] \in kept THEN Append(v, s[i]) ELSE v
          /\ G[<<v, i>>] \in V
    BY <1>0
  <2> HIDE DEF G, V
  <2>3. <<>> \in V
    BY DEF V
  <2> DEFINE S == {i \in Nat : i <= n => f[i] \in V}
  <2>4. 0 \in S
    BY <1>0, <2>1, <2>3 DEF Recursion
  <2>5. ASSUME NEW i \in Nat, i \in S PROVE i + 1 \in S
    <3>1. SUFFICES ASSUME i + 1 <= n PROVE f[i + 1] \in V
      OBVIOUS
    <3>2. f[i] \in V /\ f[i + 1] = G[<<f[i], i + 1>>]
      BY <1>0, <2>1, <2>5, <3>1 DEF Recursion
    <3> QED BY <1>0, <2>2, <3>1, <3>2
  <2>6. Nat \subseteq S
    <3> HIDE DEF S
    <3> QED BY <2>4, <2>5, EveryNumber
  <2>7. \A i \in 0 .. n : f[i] = IF i = 0 THEN <<>>
                               ELSE IF s[i] \in kept THEN Append(f[i - 1], s[i]) ELSE f[i - 1]
    BY <1>0, <2>1, <2>2, <2>6 DEF Recursion
  <2>8. f = [i \in 0 .. n |-> f[i]]
    BY <2>1 DEF Recursion
  <2> HIDE DEF S
  <2>9. Good(f)
    BY <2>7, <2>8
  <2> QED BY <2>9
<1> QED BY <1>1

\* Keep is the part of a sequence that is in a set.
LEMMA KeptRange ==
  ASSUME NEW s, NEW kept, IsSeq(s)
  PROVE  /\ IsSeq(Keep(s, kept))
         /\ Range(Keep(s, kept)) = Range(s) \cap kept
<1> DEFINE n == Len(s)
           Good(f) == f = [i \in 0 .. n |->
                             IF i = 0 THEN <<>>
                             ELSE IF s[i] \in kept THEN Append(f[i - 1], s[i]) ELSE f[i - 1]]
<1>0. n \in Nat /\ \A i \in 1 .. n : s[i] \in Range(s)
  BY SeqFacts
<1>1. \E f : Good(f)
  BY KeepRecurs
<1>2. PICK f : Good(f) /\ Keep(s, kept) = f[n]
  BY <1>1 DEF Keep
<1> DEFINE S == {i \in Nat : i <= n => IsSeq(f[i]) /\ Range(f[i]) = {s[j] : j \in 1 .. i} \cap kept}
<1>3. 0 \in S
  <2>1. f[0] = <<>>
    BY <1>0, <1>2
  <2>2. IsSeq(<<>>) /\ Range(<<>>) = {}
    BY DEF IsSeq, Range
  <2> QED BY <2>1, <2>2
<1>4. ASSUME NEW i \in Nat, i \in S PROVE i + 1 \in S
  <2>1. SUFFICES ASSUME i + 1 <= n
                 PROVE  /\ IsSeq(f[i + 1])
                        /\ Range(f[i + 1]) = {s[j] : j \in 1 .. i + 1} \cap kept
    OBVIOUS
  <2>2. IsSeq(f[i]) /\ Range(f[i]) = {s[j] : j \in 1 .. i} \cap kept
    BY <1>4, <2>1
  <2>3. f[i + 1] = IF s[i + 1] \in kept THEN Append(f[i], s[i + 1]) ELSE f[i]
    <3> DEFINE k == i + 1
    <3>1. k \in 0 .. n /\ k # 0 /\ k - 1 = i
      BY <1>0, <2>1
    <3> HIDE DEF k
    <3>2. f[k] = IF s[k] \in kept THEN Append(f[k - 1], s[k]) ELSE f[k - 1]
      BY <1>2, <3>1
    <3> QED BY <3>1, <3>2 DEF k
  <2>4. {s[j] : j \in 1 .. i + 1} = {s[j] : j \in 1 .. i} \cup {s[i + 1]}
    <3>1. 1 .. i + 1 = (1 .. i) \cup {i + 1}
      OBVIOUS
    <3> QED BY <3>1
  <2>5. CASE s[i + 1] \in kept
    BY <2>2, <2>3, <2>4, <2>5, AppendedRange
  <2>6. CASE s[i + 1] \notin kept
    BY <2>2, <2>3, <2>4, <2>6
  <2> QED BY <2>5, <2>6
<1>5. n \in S
  <2> HIDE DEF S
  <2> QED BY <1>0, <1>3, <1>4, EveryNumber
<1>6. Range(s) = {s[j] : j \in 1 .. n}
  BY SeqFacts DEF Range
<1> QED BY <1>0, <1>2, <1>5, <1>6

LEMMA FlattenRecurs ==
  ASSUME NEW ss, IsSeq(ss), \A t \in Range(ss) : IsSeq(t), Len(ss) # 0
  PROVE  \E f : f = [i \in 1 .. Len(ss) |-> IF i = 1 THEN ss[i] ELSE f[i - 1] \o ss[i]]
<1> DEFINE n == Len(ss)
           U == UNION {Range(t) : t \in Range(ss)}
           V == Seq(U)
           Good(f) == f = [i \in 1 .. n |-> IF i = 1 THEN ss[i] ELSE f[i - 1] \o ss[i]]
<1>0. n \in Nat /\ \A i \in 1 .. n : ss[i] \in Range(ss) /\ IsSeq(ss[i]) /\ ss[i] \in V
  <2>1. n \in Nat /\ \A i \in 1 .. n : ss[i] \in Range(ss) /\ IsSeq(ss[i])
    BY SeqFacts
  <2>2. \A i \in 1 .. n : Range(ss[i]) \subseteq U
    BY <2>1
  <2> HIDE DEF U
  <2> QED BY <2>1, <2>2 DEF IsSeq
<1> DEFINE G == [x \in V \X (1 .. n) |-> x[1] \o ss[x[2]]]
<1>1. PICK h : Recursion(h, <<>>, G, n)
  BY <1>0, RecursionExists
<1>2. \A v \in V : \A i \in 1 .. n : G[<<v, i>>] = v \o ss[i] /\ G[<<v, i>>] \in V
  <2>1. \A v \in V : \A i \in 1 .. n : G[<<v, i>>] = v \o ss[i]
    OBVIOUS
  <2>2. \A v, w \in V : v \o w \in V
    <3> HIDE DEF U
    <3> QED OBVIOUS
  <2> HIDE DEF G, V
  <2> QED BY <1>0, <2>1, <2>2
<1>3. <<>> \in V /\ \A v \in V : <<>> \o v = v
  OBVIOUS
<1> HIDE DEF G, V
<1> DEFINE S == {i \in Nat : i <= n => h[i] \in V}
<1>4. 0 \in S
  BY <1>0, <1>1, <1>3 DEF Recursion
<1>5. ASSUME NEW i \in Nat, i \in S PROVE i + 1 \in S
  <2>1. SUFFICES ASSUME i + 1 <= n PROVE h[i + 1] \in V
    OBVIOUS
  <2>2. h[i] \in V /\ h[i + 1] = G[<<h[i], i + 1>>]
    BY <1>0, <1>1, <1>5, <2>1 DEF Recursion
  <2>3. i + 1 \in 1 .. n
    BY <1>0, <2>1
  <2> QED BY <1>2, <2>2, <2>3
<1>6. Nat \subseteq S
  <2> HIDE DEF S
  <2> QED BY <1>4, <1>5, EveryNumber
<1>7. \A i \in 1 .. n : h[i - 1] \in V /\ h[i] = h[i - 1] \o ss[i]
  <2>1. \A i \in 1 .. n : i \in Nat /\ i - 1 \in Nat /\ i - 1 <= n /\ i # 0
    BY <1>0
  <2>2. \A i \in 1 .. n : h[i] = G[<<h[i - 1], i>>]
    BY <1>0, <1>1 DEF Recursion
  <2>3. \A i \in 1 .. n : h[i - 1] \in V
    BY <1>6, <2>1
  <2> QED BY <1>2, <2>2, <2>3
<1>8. h[0] = <<>>
  BY <1>0, <1>1 DEF Recursion
<1> DEFINE f == [i \in 1 .. n |-> h[i]]
<1>9. ASSUME NEW i \in 1 .. n
      PROVE  f[i] = IF i = 1 THEN ss[i] ELSE f[i - 1] \o ss[i]
  <2>1. CASE i = 1
    <3>1. h[i] = h[i - 1] \o ss[i]
      BY <1>7
    <3>0. i - 1 = 0
      BY <2>1
    <3>2. ss[1] \in V
      BY <1>0, <2>1
    <3> QED BY <1>3, <1>8, <2>1, <3>0, <3>1, <3>2
  <2>2. CASE i # 1
    <3>1. f[i] = h[i] /\ f[i - 1] = h[i - 1]
      BY <2>2
    <3>2. h[i] = h[i - 1] \o ss[i]
      BY <1>7
    <3> HIDE DEF f
    <3> QED BY <2>2, <3>1, <3>2
  <2> QED BY <2>1, <2>2
<1>10. f = [i \in 1 .. n |-> f[i]]
  OBVIOUS
<1> HIDE DEF f, S
<1>11. Good(f)
  BY <1>9, <1>10
<1> QED BY <1>11

\* FlattenSeq joins sequences.
LEMMA FlattenedRange ==
  ASSUME NEW ss, IsSeq(ss), \A t \in Range(ss) : IsSeq(t)
  PROVE  /\ IsSeq(FlattenSeq(ss))
         /\ Range(FlattenSeq(ss)) = UNION {Range(t) : t \in Range(ss)}
<1> DEFINE n == Len(ss)
           U == UNION {Range(t) : t \in Range(ss)}
           V == Seq(U)
           Good(f) == f = [i \in 1 .. n |-> IF i = 1 THEN ss[i] ELSE f[i - 1] \o ss[i]]
<1>0. n \in Nat /\ \A i \in 1 .. n : ss[i] \in Range(ss) /\ IsSeq(ss[i]) /\ ss[i] \in V
  <2>1. n \in Nat /\ \A i \in 1 .. n : ss[i] \in Range(ss) /\ IsSeq(ss[i])
    BY SeqFacts
  <2>2. \A i \in 1 .. n : Range(ss[i]) \subseteq U
    BY <2>1
  <2> HIDE DEF U
  <2> QED BY <2>1, <2>2 DEF IsSeq
<1>1. CASE n = 0
  <2>1. ss = <<>> /\ Range(ss) = {}
    BY <1>1, SeqFacts
  <2>2. FlattenSeq(ss) = ss
    BY <1>1 DEF FlattenSeq
  <2> QED BY <2>1, <2>2
<1>2. CASE n # 0
  <2>2. PICK f : Good(f) /\ FlattenSeq(ss) = f[n]
    BY <1>0, <1>2, FlattenRecurs DEF FlattenSeq
  <2> DEFINE S == {i \in Nat : i + 1 <= n =>
                     /\ IsSeq(f[i + 1])
                     /\ Range(f[i + 1]) = UNION {Range(ss[j]) : j \in 1 .. i + 1}}
  <2>3. 0 \in S
    <3>1. f[1] = ss[1] /\ 1 \in 1 .. n
      BY <1>0, <1>2, <2>2
    <3>2. UNION {Range(ss[j]) : j \in 1 .. 1} = Range(ss[1])
      <4>1. 1 .. 1 = {1}
        OBVIOUS
      <4> QED BY <4>1
    <3>3. 0 + 1 = 1
      OBVIOUS
    <3> QED BY <1>0, <3>1, <3>2, <3>3
  <2>4. ASSUME NEW i \in Nat, i \in S PROVE i + 1 \in S
    <3> DEFINE k == i + 2
    <3>1. SUFFICES ASSUME k <= n
                   PROVE  /\ IsSeq(f[k])
                          /\ Range(f[k]) = UNION {Range(ss[j]) : j \in 1 .. k}
      <4>1. (i + 1) + 1 = k
        OBVIOUS
      <4> HIDE DEF k
      <4> QED BY <4>1
    <3>2. k \in 1 .. n /\ k # 1 /\ k - 1 = i + 1
      BY <1>0, <3>1
    <3>3. IsSeq(f[k - 1]) /\ Range(f[k - 1]) = UNION {Range(ss[j]) : j \in 1 .. k - 1}
      BY <2>4, <3>1, <3>2
    <3> HIDE DEF k
    <3>4. f[k] = f[k - 1] \o ss[k]
      BY <2>2, <3>2
    <3>5. IsSeq(f[k]) /\ Range(f[k]) = Range(f[k - 1]) \cup Range(ss[k])
      BY <1>0, <3>2, <3>3, <3>4, JoinedRange
    <3>6. UNION {Range(ss[j]) : j \in 1 .. k} = (UNION {Range(ss[j]) : j \in 1 .. k - 1}) \cup Range(ss[k])
      <4>1. 1 .. k = (1 .. k - 1) \cup {k}
        BY <1>0, <3>2
      <4> QED BY <4>1
    <3> QED BY <3>3, <3>5, <3>6
  <2>5. n - 1 \in S
    <3>1. Nat \subseteq S
      <4> HIDE DEF S
      <4> QED BY <2>3, <2>4, EveryNumber
    <3>2. n - 1 \in Nat
      BY <1>0, <1>2
    <3> HIDE DEF S
    <3> QED BY <3>1, <3>2
  <2>6. IsSeq(f[n]) /\ Range(f[n]) = UNION {Range(ss[j]) : j \in 1 .. n}
    <3>1. (n - 1) + 1 = n
      BY <1>0
    <3> QED BY <2>5, <3>1
  <2>7. U = UNION {Range(ss[j]) : j \in 1 .. n}
    <3>1. Range(ss) = {ss[j] : j \in 1 .. n}
      BY SeqFacts DEF Range
    <3> QED BY <3>1
  <2> QED BY <2>2, <2>6, <2>7
<1> QED BY <1>0, <1>1, <1>2

\* A sequence of images.
LEMMA MappedRange ==
  ASSUME NEW s, NEW m, NEW g, IsSeq(s), m = [i \in DOMAIN s |-> g[s[i]]]
  PROVE  /\ IsSeq(m) /\ Len(m) = Len(s)
         /\ \A x : x \in Range(m) <=> \E y \in Range(s) : x = g[y]
<1>1. Len(s) \in Nat /\ DOMAIN s = 1 .. Len(s)
  BY SeqFacts
<1>2. m \in [1 .. Len(s) -> Range(m)]
  BY <1>1 DEF Range
<1>3. m \in Seq(Range(m)) /\ Len(m) = Len(s)
  BY <1>1, <1>2
<1> QED BY <1>3 DEF IsSeq, Range

----------------------------------------------------------------------------
(* Sequences in which nothing is there twice.                              *)

LEMMA AppendedOnce ==
  ASSUME NEW s, NEW x, IsSeq(s), IsInjective(s), x \notin Range(s)
  PROVE  IsInjective(Append(s, x))
<1> DEFINE t == Append(s, x)
           S == Range(s) \cup {x}
<1>1. s \in Seq(S)
  BY DEF IsSeq
<1>2. /\ Len(s) \in Nat /\ DOMAIN t = 1 .. Len(s) + 1
      /\ \A i \in 1 .. Len(s) : t[i] = s[i] /\ t[i] \in Range(s) /\ i \in DOMAIN s
      /\ t[Len(s) + 1] = x
  BY <1>1, SeqFacts
<1> HIDE DEF t
<1>3. IsInjective(t)
  BY <1>2 DEF IsInjective
<1> QED BY <1>3 DEF t

LEMMA KeptOnce ==
  ASSUME NEW s, NEW kept, IsSeq(s), IsInjective(s)
  PROVE  IsInjective(Keep(s, kept))
<1> DEFINE n == Len(s)
           Good(f) == f = [i \in 0 .. n |->
                             IF i = 0 THEN <<>>
                             ELSE IF s[i] \in kept THEN Append(f[i - 1], s[i]) ELSE f[i - 1]]
<1>0. n \in Nat /\ DOMAIN s = 1 .. n
  BY SeqFacts
<1>9. \E f : Good(f)
  BY KeepRecurs
<1>1. PICK f : Good(f) /\ Keep(s, kept) = f[n]
  BY <1>9 DEF Keep
<1> DEFINE S == {i \in Nat : i <= n => /\ IsSeq(f[i]) /\ IsInjective(f[i])
                                       /\ \A x \in Range(f[i]) : \E j \in 1 .. i : x = s[j]}
<1>2. 0 \in S
  <2>1. f[0] = <<>>
    BY <1>0, <1>1
  <2>2. IsSeq(<<>>) /\ Range(<<>>) = {} /\ IsInjective(<<>>)
    BY DEF IsSeq, Range, IsInjective
  <2> QED BY <2>1, <2>2
<1>3. ASSUME NEW i \in Nat, i \in S PROVE i + 1 \in S
  <2> DEFINE k == i + 1
  <2>1. SUFFICES ASSUME k <= n
                 PROVE  /\ IsSeq(f[k]) /\ IsInjective(f[k])
                        /\ \A x \in Range(f[k]) : \E j \in 1 .. k : x = s[j]
    OBVIOUS
  <2>2. /\ IsSeq(f[i]) /\ IsInjective(f[i])
        /\ \A x \in Range(f[i]) : \E j \in 1 .. i : x = s[j]
    BY <1>3, <2>1
  <2>3. k \in 1 .. n /\ k \in 0 .. n /\ k # 0 /\ k - 1 = i /\ \A j \in 1 .. i : j \in 1 .. k /\ j \in 1 .. n /\ j # k
    BY <1>0, <2>1
  <2> HIDE DEF k
  <2>4. f[k] = IF s[k] \in kept THEN Append(f[k - 1], s[k]) ELSE f[k - 1]
    BY <1>1, <2>3
  <2>5. s[k] \notin Range(f[i])
    BY <1>0, <2>2, <2>3 DEF IsInjective
  <2>6. CASE s[k] \in kept
    BY <2>2, <2>3, <2>4, <2>5, <2>6, AppendedRange, AppendedOnce
  <2>7. CASE s[k] \notin kept
    BY <2>2, <2>3, <2>4, <2>7
  <2> QED BY <2>6, <2>7
<1>4. n \in S
  <2> HIDE DEF S
  <2> QED BY <1>0, <1>2, <1>3, EveryNumber
<1> QED BY <1>0, <1>1, <1>4

LEMMA JoinedOnce ==
  ASSUME NEW s, NEW t, IsSeq(s), IsSeq(t), IsInjective(s), IsInjective(t),
         Range(s) \cap Range(t) = {}
  PROVE  IsInjective(s \o t)
<1> DEFINE u == s \o t
           S == Range(s) \cup Range(t)
<1>1. s \in Seq(S) /\ t \in Seq(S)
  BY DEF IsSeq
<1>2. /\ Len(s) \in Nat /\ Len(t) \in Nat
      /\ DOMAIN s = 1 .. Len(s) /\ DOMAIN t = 1 .. Len(t)
      /\ \A i \in 1 .. Len(s) : s[i] \in Range(s)
      /\ \A i \in 1 .. Len(t) : t[i] \in Range(t)
  BY SeqFacts
<1>3. /\ DOMAIN u = 1 .. Len(s) + Len(t)
      /\ \A i \in DOMAIN u : u[i] = IF i <= Len(s) THEN s[i] ELSE t[i - Len(s)]
  BY <1>1, <1>2
<1> HIDE DEF u, S
<1>4. ASSUME NEW i \in DOMAIN u, NEW j \in DOMAIN u, u[i] = u[j] PROVE i = j
  <2>1. CASE i <= Len(s) /\ j <= Len(s)
    BY <1>2, <1>3, <1>4, <2>1 DEF IsInjective
  <2>2. CASE i > Len(s) /\ j > Len(s)
    <3>1. i - Len(s) \in DOMAIN t /\ j - Len(s) \in DOMAIN t
      BY <1>2, <1>3, <2>2
    <3>2. t[i - Len(s)] = t[j - Len(s)]
      BY <1>2, <1>3, <1>4, <2>2
    <3>3. i - Len(s) = j - Len(s)
      BY <3>1, <3>2 DEF IsInjective
    <3> QED BY <1>2, <1>3, <3>3
  <2>3. CASE i <= Len(s) /\ j > Len(s)
    BY <1>2, <1>3, <1>4, <2>3
  <2>4. CASE i > Len(s) /\ j <= Len(s)
    BY <1>2, <1>3, <1>4, <2>4
  <2> QED BY <1>2, <1>3, <2>1, <2>2, <2>3, <2>4
<1> QED BY <1>4 DEF IsInjective, u

\* A sequence of images that are told apart.
LEMMA Mapped ==
  ASSUME NEW s, NEW g, IsSeq(s), IsInjective(s), \A x, y \in Range(s) : g[x] = g[y] => x = y
  PROVE  LET m == [i \in DOMAIN s |-> g[s[i]]] IN
         IsSeq(m) /\ IsInjective(m) /\ \A x : x \in Range(m) <=> \E y \in Range(s) : x = g[y]
<1> DEFINE m == [i \in DOMAIN s |-> g[s[i]]]
<1>1. IsInjective(m)
  BY DEF IsInjective, Range
<1>2. IsSeq(m) /\ \A x : x \in Range(m) <=> \E y \in Range(s) : x = g[y]
  BY MappedRange
<1> QED BY <1>1, <1>2

LEMMA ThreeJoined ==
  ASSUME NEW a, NEW b, NEW c, IsSeq(a), IsSeq(b), IsSeq(c),
         IsInjective(a), IsInjective(b), IsInjective(c),
         \A x \in Range(a) : x \notin Range(b), \A x \in Range(a) : x \notin Range(c),
         \A x \in Range(b) : x \notin Range(c)
  PROVE  LET p == a \o b \o c IN
         IsSeq(p) /\ IsInjective(p) /\ Range(p) = Range(a) \cup Range(b) \cup Range(c)
<1>1. Range(a) \cap Range(b) = {} /\ (Range(a) \cup Range(b)) \cap Range(c) = {}
  OBVIOUS
<1>2. IsSeq(a \o b) /\ IsInjective(a \o b) /\ Range(a \o b) = Range(a) \cup Range(b)
  BY <1>1, JoinedRange, JoinedOnce
<1> QED BY <1>1, <1>2, JoinedRange, JoinedOnce

LEMMA FlattenedOnce ==
  ASSUME NEW ss, IsSeq(ss), \A t \in Range(ss) : IsSeq(t) /\ IsInjective(t),
         \A i, j \in DOMAIN ss : i # j => Range(ss[i]) \cap Range(ss[j]) = {}
  PROVE  IsInjective(FlattenSeq(ss))
<1> DEFINE n == Len(ss)
           Good(f) == f = [i \in 1 .. n |-> IF i = 1 THEN ss[i] ELSE f[i - 1] \o ss[i]]
<1>0. n \in Nat /\ DOMAIN ss = 1 .. n /\ \A i \in 1 .. n : IsSeq(ss[i]) /\ IsInjective(ss[i])
  BY SeqFacts
<1>1. CASE n = 0
  <2>1. FlattenSeq(ss) = ss /\ ss = <<>>
    BY <1>1, SeqFacts DEF FlattenSeq
  <2> QED BY <2>1 DEF IsInjective
<1>2. CASE n # 0
  <2>1. PICK f : Good(f) /\ FlattenSeq(ss) = f[n]
    BY <1>2, FlattenRecurs DEF FlattenSeq
  <2> DEFINE S == {i \in Nat : i + 1 <= n =>
                     /\ IsSeq(f[i + 1]) /\ IsInjective(f[i + 1])
                     /\ \A x \in Range(f[i + 1]) : \E j \in 1 .. i + 1 : x \in Range(ss[j])}
  <2>2. 0 \in S
    <3>1. f[1] = ss[1] /\ 1 \in 1 .. n /\ 0 + 1 = 1
      BY <1>0, <1>2, <2>1
    <3> QED BY <1>0, <3>1
  <2>3. ASSUME NEW i \in Nat, i \in S PROVE i + 1 \in S
    <3> DEFINE k == i + 2
    <3>1. SUFFICES ASSUME k <= n
                   PROVE  /\ IsSeq(f[k]) /\ IsInjective(f[k])
                          /\ \A x \in Range(f[k]) : \E j \in 1 .. k : x \in Range(ss[j])
      <4>1. (i + 1) + 1 = k
        OBVIOUS
      <4> HIDE DEF k
      <4> QED BY <4>1
    <3>2. /\ k \in 1 .. n /\ k # 1 /\ k - 1 = i + 1
          /\ \A j \in 1 .. k - 1 : j \in 1 .. k /\ j \in 1 .. n /\ j # k
      BY <1>0, <3>1
    <3>3. /\ IsSeq(f[k - 1]) /\ IsInjective(f[k - 1])
          /\ \A x \in Range(f[k - 1]) : \E j \in 1 .. k - 1 : x \in Range(ss[j])
      BY <2>3, <3>1, <3>2
    <3> HIDE DEF k
    <3>4. f[k] = f[k - 1] \o ss[k]
      BY <2>1, <3>2
    <3>5. Range(f[k - 1]) \cap Range(ss[k]) = {}
      <4> SUFFICES ASSUME NEW x \in Range(f[k - 1]), x \in Range(ss[k]) PROVE FALSE
        OBVIOUS
      <4>1. PICK j \in 1 .. k - 1 : x \in Range(ss[j])
        BY <3>3
      <4>2. Range(ss[j]) \cap Range(ss[k]) = {}
        BY <1>0, <3>2, <4>1
      <4> QED BY <4>1, <4>2
    <3>6. IsSeq(f[k]) /\ Range(f[k]) = Range(f[k - 1]) \cup Range(ss[k]) /\ IsInjective(f[k])
      BY <1>0, <3>2, <3>3, <3>4, <3>5, JoinedRange, JoinedOnce
    <3> QED BY <3>2, <3>3, <3>6
  <2>4. n - 1 \in S
    <3>1. Nat \subseteq S
      <4> HIDE DEF S
      <4> QED BY <2>2, <2>3, EveryNumber
    <3>2. n - 1 \in Nat
      BY <1>0, <1>2
    <3> HIDE DEF S
    <3> QED BY <3>1, <3>2
  <2>5. IsInjective(f[n])
    <3>1. (n - 1) + 1 = n
      BY <1>0
    <3> QED BY <2>4, <3>1
  <2> QED BY <2>1, <2>5
<1> QED BY <1>1, <1>2

----------------------------------------------------------------------------
(* What a plan consists of.                                                *)

LEMMA NamesFind ==
  ASSUME NEW s, UniqueNames(s)
  PROVE  /\ \A x \in Range(s) : Has(s, x.name) /\ Named(s, x.name) = x
         /\ \A n : Has(s, n) => Named(s, n) \in Range(s) /\ Named(s, n).name = n
<1>1. ASSUME NEW x \in Range(s) PROVE Has(s, x.name) /\ Named(s, x.name) = x
  <2>1. PICK i \in DOMAIN s : s[i] = x
    BY DEF Range
  <2>2. \A j \in DOMAIN s : s[j].name = x.name => j = i
    BY <2>1 DEF UniqueNames
  <2>3. (CHOOSE j \in DOMAIN s : s[j].name = x.name) = i
    BY <2>1, <2>2
  <2> QED BY <2>1, <2>3 DEF Has, Named
<1>2. ASSUME NEW n, Has(s, n) PROVE Named(s, n) \in Range(s) /\ Named(s, n).name = n
  <2> DEFINE i == CHOOSE i \in DOMAIN s : s[i].name = n
  <2>1. i \in DOMAIN s /\ s[i].name = n
    BY <1>2 DEF Has
  <2> HIDE DEF i
  <2>2. Named(s, n) = s[i]
    BY DEF Named, i
  <2> QED BY <2>1, <2>2 DEF Range
<1> QED BY <1>1, <1>2

\* The tables of a schema as a database.
LEMMA TablesAt ==
  ASSUME NEW s
  PROVE  /\ IsDatabase(Tables(s))
         /\ \A t : t \in DOMAIN Tables(s) <=> Has(s, t)
         /\ \A t : Has(s, t) => Tables(s)[t] = Columns(Named(s, t).fields)
<1>1. \A fs : IsTable(Columns(fs))
  BY DEF IsTable, IsMap, IsColumn, Columns
<1>2. \A t : t \in DOMAIN Tables(s) <=> Has(s, t)
  BY DEF Tables, Has
<1>3. \A t : Has(s, t) => Tables(s)[t] = Columns(Named(s, t).fields)
  BY DEF Tables, Has
<1>4. IsMap(Tables(s))
  BY DEF IsMap, Tables
<1> QED BY <1>1, <1>2, <1>3, <1>4 DEF IsDatabase

LEMMA ColumnsAt ==
  ASSUME NEW fs
  PROVE  /\ IsTable(Columns(fs))
         /\ \A c : c \in DOMAIN Columns(fs) <=> Has(fs, c)
         /\ \A c : Has(fs, c) => Columns(fs)[c] = [type |-> Named(fs, c).type,
                                                   nullable |-> Named(fs, c).nullable]
BY DEF IsTable, IsMap, IsColumn, Columns, Has

\* What table t has to hear to become table u.
ColumnAsked(x, t, u) ==
  \/ \E f \in Range(u.fields) : ~Has(t.fields, f.name) /\ x = AddColumn(t.name, f)
  \/ \E f \in Range(t.fields) : ~Has(u.fields, f.name) /\ x = DropColumn(t.name, f)
  \/ \E f \in Range(t.fields) :
       /\ Has(u.fields, f.name) /\ Named(u.fields, f.name).type # f.type
       /\ x = AlterColumn(t.name, f.name, Named(u.fields, f.name).type)

\* ... and one schema to become the other.
Asked(x, before, after) ==
  \/ \E t \in Range(after) : ~Has(before, t.name) /\ x = CreateTable(t)
  \/ \E t \in Range(before) : ~Has(after, t.name) /\ x = DropTable(t.name)
  \/ \E t \in Range(before) : Has(after, t.name) /\ ColumnAsked(x, t, Named(after, t.name))

LEMMA UnknownRange ==
  ASSUME NEW s, NEW t, IsSeq(s)
  PROVE  /\ IsSeq(Unknown(s, t))
         /\ \A x : x \in Range(Unknown(s, t)) <=> x \in Range(s) /\ ~Has(t, x.name)
BY KeptRange DEF Unknown

LEMMA UnknownOnce ==
  ASSUME NEW s, NEW t, UniqueNames(s)
  PROVE  IsInjective(Unknown(s, t))
<1>1. IsSeq(s) /\ IsInjective(s)
  BY DEF UniqueNames, IsInjective
<1> QED BY <1>1, KeptOnce DEF Unknown

\* The fields a table diff lists.
LEMMA TableDiffLists ==
  ASSUME NEW n, NEW before, NEW after, UniqueNames(before), UniqueNames(after)
  PROVE  LET diff == TableDiff(n, before, after) IN
         /\ diff.table = n
         /\ IsSeq(diff.added) /\ IsSeq(diff.removed) /\ IsSeq(diff.changed)
         /\ IsInjective(diff.added) /\ IsInjective(diff.removed) /\ IsInjective(diff.changed)
         /\ \A f : f \in Range(diff.added) <=> f \in Range(after) /\ ~Has(before, f.name)
         /\ \A f : f \in Range(diff.removed) <=> f \in Range(before) /\ ~Has(after, f.name)
         /\ \A x : x \in Range(diff.changed) <=>
              \E f \in Range(before) :
                /\ Has(after, f.name) /\ Named(after, f.name).type # f.type
                /\ x = [field |-> f.name, fromType |-> f.type, toType |-> Named(after, f.name).type]
<1> DEFINE diff == TableDiff(n, before, after)
           other == {f \in Range(before) : Has(after, f.name) /\ Named(after, f.name).type # f.type}
           changes == Keep(before, other)
           g == [f \in Range(before) |-> [field |-> f.name, fromType |-> f.type,
                                        toType |-> Named(after, f.name).type]]
           m == [i \in DOMAIN changes |-> g[changes[i]]]
<1>1. IsSeq(before) /\ IsSeq(after) /\ IsInjective(before)
  BY DEF UniqueNames, IsInjective
<1>2. IsSeq(changes) /\ IsInjective(changes) /\ Range(changes) = Range(before) \cap other
  BY <1>1, KeptRange, KeptOnce
<1>3. diff.table = n /\ diff.added = Unknown(after, before) /\ diff.removed = Unknown(before, after)
  BY DEF TableDiff
<1>4. diff.changed = m
  <2>1. diff.changed = [i \in DOMAIN changes |->
                          [field |-> changes[i].name, fromType |-> changes[i].type,
                           toType |-> Named(after, changes[i].name).type]]
    BY DEF TableDiff, Each
  <2>2. \A i \in DOMAIN changes : changes[i] \in Range(before)
    <3> HIDE DEF changes, other
    <3> QED BY <1>2 DEF Range
  <2> HIDE DEF changes, diff
  <2> QED BY <2>1, <2>2
<1>5. IsSeq(m) /\ IsInjective(m) /\ \A x : x \in Range(m) <=> \E f \in Range(changes) : x = g[f]
  <2>1. ASSUME NEW e \in Range(before), NEW f \in Range(before), g[e] = g[f] PROVE e = f
    <3>1. e.name = f.name
      <4>1. g[e].field = e.name /\ g[f].field = f.name
        OBVIOUS
      <4> QED BY <2>1, <4>1
    <3> QED BY <3>1 DEF UniqueNames, Range
  <2> HIDE DEF changes, g
  <2> QED BY <1>2, <2>1, Mapped
<1>6. \A x : x \in Range(m) <=>
              \E f \in Range(before) :
                /\ Has(after, f.name) /\ Named(after, f.name).type # f.type
                /\ x = [field |-> f.name, fromType |-> f.type, toType |-> Named(after, f.name).type]
  <2> HIDE DEF changes, m
  <2> QED BY <1>2, <1>5
<1> HIDE DEF diff, m
<1> QED BY <1>1, <1>3, <1>4, <1>5, <1>6, UnknownRange, UnknownOnce DEF diff

\* The differences of two schemas.
Differences(t, after) == TableDiff(t.name, t.fields, Named(after, t.name).fields)

LEMMA DiffLists ==
  ASSUME NEW before, NEW after, IsSchema(before), IsSchema(after)
  PROVE  LET diff == DiffSchemas(before, after)
             differences(t) == Differences(t, after)
         IN
         /\ IsSeq(diff.added) /\ IsSeq(diff.removed) /\ IsSeq(diff.changed)
         /\ IsInjective(diff.added) /\ IsInjective(diff.removed) /\ IsInjective(diff.changed)
         /\ \A t : t \in Range(diff.added) <=> t \in Range(after) /\ ~Has(before, t.name)
         /\ \A t : t \in Range(diff.removed) <=> t \in Range(before) /\ ~Has(after, t.name)
         /\ \A d \in Range(diff.changed) :
              \E t \in Range(before) : Has(after, t.name) /\ d = differences(t)
         /\ \A t \in Range(before) : Has(after, t.name) =>
              LET d == differences(t) IN
              \/ d \in Range(diff.changed)
              \/ Range(d.added) = {} /\ Range(d.removed) = {} /\ Range(d.changed) = {}
<1> DEFINE diff == DiffSchemas(before, after)
           differences(t) == Differences(t, after)
           shared == {t \in Range(before) : Has(after, t.name)}
           kept == Keep(before, shared)
           g == [t \in Range(before) |-> differences(t)]
           diffs == [i \in DOMAIN kept |-> g[kept[i]]]
           some == {d \in Range(diffs) : d.added \o d.removed # <<>> \/ d.changed # <<>>}
<1>1. /\ IsSeq(before) /\ IsSeq(after) /\ IsInjective(before)
      /\ \A t, u \in Range(before) : t.name = u.name => t = u
      /\ \A t \in Range(before) : Has(after, t.name) =>
           UniqueNames(t.fields) /\ UniqueNames(Named(after, t.name).fields)
  <2>1. \A t \in Range(before) : Has(after, t.name) =>
           UniqueNames(t.fields) /\ UniqueNames(Named(after, t.name).fields)
    BY NamesFind DEF IsSchema
  <2>2. \A t, u \in Range(before) : t.name = u.name => t = u
    BY DEF IsSchema, UniqueNames, Range
  <2> QED BY <2>1, <2>2 DEF IsSchema, UniqueNames, IsInjective
<1>2. IsSeq(kept) /\ IsInjective(kept) /\ Range(kept) = shared
  BY <1>1, KeptRange, KeptOnce
<1>3. /\ diff.added = Unknown(after, before) /\ diff.removed = Unknown(before, after)
      /\ diff.changed = Keep(diffs, some)
  <2>1. \A i \in DOMAIN kept : kept[i] \in Range(before)
    <3>1. \A i \in DOMAIN kept : kept[i] \in Range(kept)
      BY DEF Range
    <3> HIDE DEF kept
    <3> QED BY <1>2, <3>1
  <2>2. diffs = [i \in DOMAIN kept |-> differences(kept[i])]
    <3> HIDE DEF kept, differences
    <3> QED BY <2>1
  <2>3. diffs = Each(kept, LAMBDA t : TableDiff(t.name, t.fields, Named(after, t.name).fields))
    <3> HIDE DEF kept, diffs
    <3> QED BY <2>2 DEF Each, differences, Differences
  <2> HIDE DEF diffs
  <2> QED BY <2>3 DEF DiffSchemas, kept, shared
<1>4. /\ IsSeq(diffs) /\ IsInjective(diffs)
      /\ \A d : d \in Range(diffs) <=> \E t \in Range(kept) : d = g[t]
  <2>1. ASSUME NEW t \in shared, NEW u \in shared, g[t] = g[u] PROVE t = u
    <3>1. g[t].table = t.name /\ g[u].table = u.name
      BY <1>1, TableDiffLists DEF Differences
    <3> QED BY <1>1, <2>1, <3>1
  <2> HIDE DEF kept, g, shared
  <2> QED BY <1>2, <2>1, Mapped
<1>5. \A d : d \in Range(diffs) <=> \E t \in shared : d = differences(t)
  <2> HIDE DEF diffs, kept, differences
  <2> QED BY <1>2, <1>4
<1>6. /\ IsSeq(Keep(diffs, some)) /\ IsInjective(Keep(diffs, some))
      /\ Range(Keep(diffs, some)) = some
  <2>1. some \subseteq Range(diffs)
    OBVIOUS
  <2> HIDE DEF diffs, some
  <2>2. /\ IsSeq(Keep(diffs, some)) /\ IsInjective(Keep(diffs, some))
        /\ Range(Keep(diffs, some)) = Range(diffs) \cap some
    BY <1>4, KeptRange, KeptOnce
  <2>3. Range(diffs) \cap some = some
    BY <2>1
  <2> QED BY <2>2, <2>3
<1>7. ASSUME NEW t \in shared, differences(t) \notin some
      PROVE  LET d == differences(t) IN
             Range(d.added) = {} /\ Range(d.removed) = {} /\ Range(d.changed) = {}
  <2> DEFINE d == differences(t)
  <2>1. IsSeq(d.added) /\ IsSeq(d.removed) /\ IsSeq(d.changed)
    BY <1>1, TableDiffLists DEF Differences
  <2>2. d \in Range(diffs)
    <3> HIDE DEF diffs, differences
    <3> QED BY <1>5
  <2> HIDE DEF d, diffs
  <2>3. d.added \o d.removed = <<>> /\ d.changed = <<>>
    BY <1>7, <2>2 DEF d
  <2>4. Range(<<>>) = {}
    BY DEF Range
  <2> QED BY <2>1, <2>3, <2>4, JoinedRange DEF d
<1> HIDE DEF diff, differences, diffs, some
<1>8. /\ IsSeq(diff.added) /\ IsSeq(diff.removed) /\ IsSeq(diff.changed)
      /\ IsInjective(diff.added) /\ IsInjective(diff.removed) /\ IsInjective(diff.changed)
      /\ \A t : t \in Range(diff.added) <=> t \in Range(after) /\ ~Has(before, t.name)
      /\ \A t : t \in Range(diff.removed) <=> t \in Range(before) /\ ~Has(after, t.name)
  BY <1>1, <1>3, <1>6, UnknownRange, UnknownOnce DEF IsSchema
<1>9. \A d \in Range(diff.changed) : \E t \in Range(before) : Has(after, t.name) /\ d = differences(t)
  BY <1>3, <1>5, <1>6 DEF some
<1>10. \A t \in Range(before) : Has(after, t.name) =>
              LET d == differences(t) IN
              \/ d \in Range(diff.changed)
              \/ Range(d.added) = {} /\ Range(d.removed) = {} /\ Range(d.changed) = {}
  BY <1>3, <1>6, <1>7
<1> QED BY <1>8, <1>9, <1>10 DEF diff, differences

\* A list with one thing for every table that comes or goes, and with a list of things for
\* every table that changes ...
Gathering(diff, gc, ga, gd) ==
  [i \in DOMAIN diff.added |-> gc[diff.added[i]]]
  \o FlattenSeq([i \in DOMAIN diff.changed |-> ga[diff.changed[i]]])
  \o [i \in DOMAIN diff.removed |-> gd[diff.removed[i]]]

Apart(gc, gd, before, after) ==
  /\ \A t, u \in Range(after) : gc[t] = gc[u] => t = u
  /\ \A t, u \in Range(before) : gd[t] = gd[u] => t = u
  /\ \A t \in Range(after) : \A u \in Range(before) : gc[t] # gd[u]

ListedOnce(t, gc, ga, gd, before, after) ==
  LET d == Differences(t, after) IN
  /\ IsSeq(ga[d]) /\ IsInjective(ga[d])
  /\ \A x \in Range(ga[d]) : /\ x.table = t.name
                             /\ \A u \in Range(after) : x # gc[u]
                             /\ \A u \in Range(before) : x # gd[u]
  /\ Range(ga[d]) # {} => Range(d.added) # {} \/ Range(d.removed) # {} \/ Range(d.changed) # {}

\* ... holds all of them, and none twice.
LEMMA Gathered ==
  ASSUME NEW before, NEW after, IsSchema(before), IsSchema(after), NEW gc, NEW ga, NEW gd,
         Apart(gc, gd, before, after),
         \A t \in Range(before) : Has(after, t.name) => ListedOnce(t, gc, ga, gd, before, after)
  PROVE  LET p == Gathering(DiffSchemas(before, after), gc, ga, gd) IN
         /\ IsSeq(p) /\ IsInjective(p)
         /\ \A x : x \in Range(p) <=>
              \/ \E t \in Range(after) : ~Has(before, t.name) /\ x = gc[t]
              \/ \E t \in Range(before) : ~Has(after, t.name) /\ x = gd[t]
              \/ \E t \in Range(before) : Has(after, t.name) /\ x \in Range(ga[Differences(t, after)])
<1> DEFINE diff == DiffSchemas(before, after)
           added == diff.added
           changed == diff.changed
           removed == diff.removed
           creates == [i \in DOMAIN added |-> gc[added[i]]]
           lists == [i \in DOMAIN changed |-> ga[changed[i]]]
           drops == [i \in DOMAIN removed |-> gd[removed[i]]]
<1>1. /\ IsSeq(added) /\ IsSeq(removed) /\ IsSeq(changed)
      /\ IsInjective(added) /\ IsInjective(removed) /\ IsInjective(changed)
      /\ \A t : t \in Range(added) <=> t \in Range(after) /\ ~Has(before, t.name)
      /\ \A t : t \in Range(removed) <=> t \in Range(before) /\ ~Has(after, t.name)
      /\ \A d \in Range(changed) :
           \E t \in Range(before) : Has(after, t.name) /\ d = Differences(t, after)
      /\ \A t \in Range(before) : Has(after, t.name) =>
           LET d == Differences(t, after) IN
           \/ d \in Range(changed)
           \/ Range(d.added) = {} /\ Range(d.removed) = {} /\ Range(d.changed) = {}
  BY DiffLists
<1>0. /\ \A t, u \in Range(after) : gc[t] = gc[u] => t = u
      /\ \A t, u \in Range(before) : gd[t] = gd[u] => t = u
      /\ \A t \in Range(after) : \A u \in Range(before) : gc[t] # gd[u]
  BY DEF Apart
<1>11. \A t \in Range(before) : Has(after, t.name) =>
         LET d == Differences(t, after) IN
         /\ IsSeq(ga[d]) /\ IsInjective(ga[d])
         /\ \A x \in Range(ga[d]) : /\ x.table = t.name
                                    /\ \A u \in Range(after) : x # gc[u]
                                    /\ \A u \in Range(before) : x # gd[u]
         /\ Range(ga[d]) # {} => \/ Range(d.added) # {} \/ Range(d.removed) # {}
                                 \/ Range(d.changed) # {}
  BY DEF ListedOnce
<1>12. Gathering(diff, gc, ga, gd) = creates \o FlattenSeq(lists) \o drops
  BY DEF Gathering
<1> HIDE DEF added, changed, removed
<1>2. /\ IsSeq(creates) /\ IsInjective(creates)
      /\ \A x : x \in Range(creates) <=> \E t \in Range(added) : x = gc[t]
  BY <1>0, <1>1, Mapped
<1>3. /\ IsSeq(drops) /\ IsInjective(drops)
      /\ \A x : x \in Range(drops) <=> \E t \in Range(removed) : x = gd[t]
  BY <1>0, <1>1, Mapped
<1>4. IsSeq(lists) /\ \A q : q \in Range(lists) <=> \E d \in Range(changed) : q = ga[d]
  <2>1. IsSeq(changed)
    BY <1>1
  <2>2. IsSeq(lists) /\ \A q : q \in Range(lists) <=> \E d \in Range(changed) : q = ga[d]
    BY <2>1, MappedRange
  <2> QED BY <2>2
<1>5. \A q \in Range(lists) : IsSeq(q) /\ IsInjective(q)
  BY <1>1, <1>4, <1>11
<1>6. ASSUME NEW i \in DOMAIN lists, NEW j \in DOMAIN lists, i # j
      PROVE  Range(lists[i]) \cap Range(lists[j]) = {}
  <2>1. /\ changed[i] \in Range(changed) /\ changed[j] \in Range(changed)
        /\ lists[i] = ga[changed[i]] /\ lists[j] = ga[changed[j]]
        /\ changed[i] # changed[j]
    BY <1>1, <1>6 DEF Range, IsInjective
  <2>2. PICK t \in Range(before) : Has(after, t.name) /\ changed[i] = Differences(t, after)
    BY <1>1, <2>1
  <2>3. PICK u \in Range(before) : Has(after, u.name) /\ changed[j] = Differences(u, after)
    BY <1>1, <2>1
  <2>4. t.name # u.name
    BY <2>1, <2>2, <2>3 DEF IsSchema, UniqueNames, Range
  <2>5. ASSUME NEW x \in Range(lists[i]), x \in Range(lists[j]) PROVE FALSE
    <3>1. x.table = t.name
      BY <1>11, <2>1, <2>2, <2>5
    <3>2. x.table = u.name
      BY <1>11, <2>1, <2>3, <2>5
    <3> QED BY <2>4, <3>1, <3>2
  <2> HIDE DEF lists
  <2> QED BY <2>5
<1>7. /\ IsSeq(FlattenSeq(lists)) /\ IsInjective(FlattenSeq(lists))
      /\ Range(FlattenSeq(lists)) = UNION {Range(q) : q \in Range(lists)}
  <2> HIDE DEF lists
  <2> QED BY <1>4, <1>5, <1>6, FlattenedRange, FlattenedOnce
<1> DEFINE all == FlattenSeq(lists)
<1>8. ASSUME NEW x
      PROVE  x \in Range(all) <=>
               \E t \in Range(before) : Has(after, t.name) /\ x \in Range(ga[Differences(t, after)])
  <2> HIDE DEF lists
  <2>1. ASSUME x \in Range(all)
        PROVE  \E t \in Range(before) : Has(after, t.name) /\ x \in Range(ga[Differences(t, after)])
    <3>1. PICK q \in Range(lists) : x \in Range(q)
      BY <1>7, <2>1
    <3> QED BY <1>1, <1>4, <3>1
  <2>2. ASSUME NEW t \in Range(before), Has(after, t.name), x \in Range(ga[Differences(t, after)])
        PROVE  x \in Range(all)
    <3> DEFINE d == Differences(t, after)
    <3>1. d \in Range(changed)
      BY <1>1, <1>11, <2>2
    <3>2. ga[d] \in Range(lists)
      BY <1>4, <3>1
    <3> QED BY <1>7, <2>2, <3>2
  <2> QED BY <2>1, <2>2
<1> HIDE DEF creates, all, drops
<1> DEFINE p == creates \o all \o drops
<1>9. IsSeq(p) /\ IsInjective(p) /\ Range(p) = Range(creates) \cup Range(all) \cup Range(drops)
  <2>1. \A x \in Range(creates) : x \notin Range(all) /\ x \notin Range(drops)
    BY <1>0, <1>1, <1>2, <1>3, <1>8, <1>11
  <2>2. \A x \in Range(all) : x \notin Range(drops)
    BY <1>1, <1>3, <1>8, <1>11
  <2>3. IsSeq(all) /\ IsInjective(all)
    BY <1>7 DEF all
  <2> QED BY <1>2, <1>3, <2>1, <2>2, <2>3, ThreeJoined
<1>10. \A x : x \in Range(p) <=>
         \/ \E t \in Range(after) : ~Has(before, t.name) /\ x = gc[t]
         \/ \E t \in Range(before) : ~Has(after, t.name) /\ x = gd[t]
         \/ \E t \in Range(before) : Has(after, t.name) /\ x \in Range(ga[Differences(t, after)])
  <2> HIDE DEF p
  <2> QED BY <1>1, <1>2, <1>3, <1>8, <1>9
<1>13. Gathering(diff, gc, ga, gd) = p
  BY <1>12 DEF all
<1> HIDE DEF diff, p
<1> QED BY <1>9, <1>10, <1>13 DEF diff

\* The statements for the differences of one table.
Alterations(d) ==
  Each(d.added, LAMBDA f : AddColumn(d.table, f))
  \o Each(d.removed, LAMBDA f : DropColumn(d.table, f))
  \o Each(d.changed, LAMBDA c : AlterColumn(d.table, c.field, c.toType))

\* A table without differences has none.
LEMMA DifferentFields ==
  ASSUME NEW t, NEW u, UniqueNames(t.fields), UniqueNames(u.fields), NEW x, ColumnAsked(x, t, u)
  PROVE  LET d == TableDiff(t.name, t.fields, u.fields) IN
         Range(d.added) # {} \/ Range(d.removed) # {} \/ Range(d.changed) # {}
<1>1. \/ \E f \in Range(u.fields) : ~Has(t.fields, f.name)
      \/ \E f \in Range(t.fields) : ~Has(u.fields, f.name)
      \/ \E f \in Range(t.fields) : Has(u.fields, f.name) /\ Named(u.fields, f.name).type # f.type
  BY DEF ColumnAsked
<1>2. CASE \E f \in Range(u.fields) : ~Has(t.fields, f.name)
  BY <1>2, TableDiffLists
<1>3. CASE \E f \in Range(t.fields) : ~Has(u.fields, f.name)
  BY <1>3, TableDiffLists
<1>4. CASE \E f \in Range(t.fields) : Has(u.fields, f.name) /\ Named(u.fields, f.name).type # f.type
  <2>1. PICK f \in Range(t.fields) : Has(u.fields, f.name) /\ Named(u.fields, f.name).type # f.type
    BY <1>4
  <2>2. [field |-> f.name, fromType |-> f.type, toType |-> Named(u.fields, f.name).type]
          \in Range(TableDiff(t.name, t.fields, u.fields).changed)
    BY <2>1, TableDiffLists
  <2> QED BY <2>2
<1> QED BY <1>1, <1>2, <1>3, <1>4

LEMMA AlterationsAsked ==
  ASSUME NEW t, NEW u, UniqueNames(t.fields), UniqueNames(u.fields)
  PROVE  LET p == Alterations(TableDiff(t.name, t.fields, u.fields)) IN
         IsSeq(p) /\ IsInjective(p) /\ \A x : x \in Range(p) <=> ColumnAsked(x, t, u)
<1> DEFINE d == TableDiff(t.name, t.fields, u.fields)
           ga == [f \in Range(d.added) |-> AddColumn(d.table, f)]
           gr == [f \in Range(d.removed) |-> DropColumn(d.table, f)]
           gc == [c \in Range(d.changed) |-> AlterColumn(d.table, c.field, c.toType)]
           a == [i \in DOMAIN d.added |-> ga[d.added[i]]]
           r == [i \in DOMAIN d.removed |-> gr[d.removed[i]]]
           c == [i \in DOMAIN d.changed |-> gc[d.changed[i]]]
<1>1. /\ IsSeq(d.added) /\ IsSeq(d.removed) /\ IsSeq(d.changed) /\ d.table = t.name
      /\ IsInjective(d.added) /\ IsInjective(d.removed) /\ IsInjective(d.changed)
  BY TableDiffLists
<1>0. /\ \A e, f \in Range(d.added) : e.name = f.name => e = f
      /\ \A e, f \in Range(d.removed) : e.name = f.name => e = f
      /\ \A e, f \in Range(d.changed) : e.field = f.field => e = f
  <2>1. \A e, f \in Range(u.fields) : e.name = f.name => e = f
    BY DEF UniqueNames, Range
  <2>2. \A e, f \in Range(t.fields) : e.name = f.name => e = f
    BY DEF UniqueNames, Range
  <2>3. ASSUME NEW x \in Range(d.changed), NEW y \in Range(d.changed), x.field = y.field
        PROVE  x = y
    <3> HIDE DEF d
    <3>1. \A z \in Range(d.changed) : \E f \in Range(t.fields) :
            z = [field |-> f.name, fromType |-> f.type, toType |-> Named(u.fields, f.name).type]
      BY TableDiffLists DEF d
    <3>2. PICK e \in Range(t.fields) :
            x = [field |-> e.name, fromType |-> e.type, toType |-> Named(u.fields, e.name).type]
      BY <3>1
    <3>3. PICK f \in Range(t.fields) :
            y = [field |-> f.name, fromType |-> f.type, toType |-> Named(u.fields, f.name).type]
      BY <3>1
    <3>4. x.field = e.name /\ y.field = f.name
      BY <3>2, <3>3
    <3> QED BY <2>2, <2>3, <3>2, <3>3, <3>4
  <2> HIDE DEF d
  <2>4. /\ \A f \in Range(d.added) : f \in Range(u.fields)
        /\ \A f \in Range(d.removed) : f \in Range(t.fields)
    BY TableDiffLists DEF d
  <2> QED BY <2>1, <2>2, <2>3, <2>4
<1>2. Alterations(d) = a \o r \o c
  <2> HIDE DEF d
  <2>1. a = Each(d.added, LAMBDA f : AddColumn(d.table, f))
    BY DEF Each, Range
  <2>2. r = Each(d.removed, LAMBDA f : DropColumn(d.table, f))
    BY DEF Each, Range
  <2>3. c = Each(d.changed, LAMBDA e : AlterColumn(d.table, e.field, e.toType))
    BY DEF Each, Range
  <2> HIDE DEF a, r, c
  <2> QED BY <2>1, <2>2, <2>3 DEF Alterations
<1> HIDE DEF d
<1>3. IsSeq(a) /\ IsInjective(a) /\ \A x : x \in Range(a) <=> \E f \in Range(d.added) : x = AddColumn(d.table, f)
  <2>2. \A e, f \in Range(d.added) : ga[e] = ga[f] => e = f
    <3>1. \A e \in Range(d.added) : ga[e].field = e
      BY DEF AddColumn
    <3> QED BY <3>1
  <2>1. IsSeq(a) /\ IsInjective(a) /\ \A x : x \in Range(a) <=> \E f \in Range(d.added) : x = ga[f]
    <3> HIDE DEF ga
    <3> QED BY <1>1, <2>2, Mapped
  <2> HIDE DEF a
  <2> QED BY <2>1
<1>4. IsSeq(r) /\ IsInjective(r) /\ \A x : x \in Range(r) <=> \E f \in Range(d.removed) : x = DropColumn(d.table, f)
  <2>2. \A e, f \in Range(d.removed) : gr[e] = gr[f] => e = f
    <3>1. \A e \in Range(d.removed) : gr[e].column = e.name
      BY DEF DropColumn
    <3> QED BY <1>0, <3>1
  <2>1. IsSeq(r) /\ IsInjective(r) /\ \A x : x \in Range(r) <=> \E f \in Range(d.removed) : x = gr[f]
    <3> HIDE DEF gr
    <3> QED BY <1>1, <2>2, Mapped
  <2> HIDE DEF r
  <2> QED BY <2>1
<1>5. IsSeq(c) /\ IsInjective(c) /\ \A x : x \in Range(c) <=>
                    \E e \in Range(d.changed) : x = AlterColumn(d.table, e.field, e.toType)
  <2>2. \A e, f \in Range(d.changed) : gc[e] = gc[f] => e = f
    <3>1. \A e \in Range(d.changed) : gc[e].column = e.field
      BY DEF AlterColumn
    <3> QED BY <1>0, <3>1
  <2>1. IsSeq(c) /\ IsInjective(c) /\ \A x : x \in Range(c) <=> \E e \in Range(d.changed) : x = gc[e]
    <3> HIDE DEF gc
    <3> QED BY <1>1, <2>2, Mapped
  <2> HIDE DEF c
  <2> QED BY <2>1
<1> HIDE DEF a, r, c
<1>6. /\ IsSeq(a \o r \o c) /\ IsInjective(a \o r \o c)
      /\ Range(a \o r \o c) = Range(a) \cup Range(r) \cup Range(c)
  <2>1. /\ \A x \in Range(a) : x.op = "add_column"
        /\ \A x \in Range(r) : x.op = "drop_column"
        /\ \A x \in Range(c) : x.op = "alter_column"
    BY <1>3, <1>4, <1>5 DEF AddColumn, DropColumn, AlterColumn
  <2>2. /\ \A x \in Range(a) : x \notin Range(r) /\ x \notin Range(c)
        /\ \A x \in Range(r) : x \notin Range(c)
    BY <2>1
  <2> QED BY <1>3, <1>4, <1>5, <2>2, ThreeJoined
<1>7. ASSUME NEW x PROVE x \in Range(a \o r \o c) <=> ColumnAsked(x, t, u)
  <2>1. x \in Range(a) <=> \E f \in Range(u.fields) : ~Has(t.fields, f.name) /\ x = AddColumn(t.name, f)
    BY <1>1, <1>3, TableDiffLists DEF d
  <2>2. x \in Range(r) <=> \E f \in Range(t.fields) : ~Has(u.fields, f.name) /\ x = DropColumn(t.name, f)
    BY <1>1, <1>4, TableDiffLists DEF d
  <2>3. x \in Range(c) <=>
          \E f \in Range(t.fields) :
            /\ Has(u.fields, f.name) /\ Named(u.fields, f.name).type # f.type
            /\ x = AlterColumn(t.name, f.name, Named(u.fields, f.name).type)
    <3>1. \A e : e \in Range(d.changed) <=>
            \E f \in Range(t.fields) :
              /\ Has(u.fields, f.name) /\ Named(u.fields, f.name).type # f.type
              /\ e = [field |-> f.name, fromType |-> f.type, toType |-> Named(u.fields, f.name).type]
      BY TableDiffLists DEF d
    <3>2. ASSUME NEW e \in Range(d.changed), x = AlterColumn(d.table, e.field, e.toType)
          PROVE  \E f \in Range(t.fields) :
                   /\ Has(u.fields, f.name) /\ Named(u.fields, f.name).type # f.type
                   /\ x = AlterColumn(t.name, f.name, Named(u.fields, f.name).type)
      <4>1. PICK f \in Range(t.fields) :
              /\ Has(u.fields, f.name) /\ Named(u.fields, f.name).type # f.type
              /\ e = [field |-> f.name, fromType |-> f.type, toType |-> Named(u.fields, f.name).type]
        BY <3>1
      <4>2. e.field = f.name /\ e.toType = Named(u.fields, f.name).type
        BY <4>1
      <4> QED BY <1>1, <3>2, <4>1, <4>2
    <3>3. ASSUME NEW f \in Range(t.fields),
                 Has(u.fields, f.name), Named(u.fields, f.name).type # f.type,
                 x = AlterColumn(t.name, f.name, Named(u.fields, f.name).type)
          PROVE  \E e \in Range(d.changed) : x = AlterColumn(d.table, e.field, e.toType)
      <4>1. PICK e \in Range(d.changed) :
              e = [field |-> f.name, fromType |-> f.type, toType |-> Named(u.fields, f.name).type]
        BY <3>1, <3>3
      <4>2. e.field = f.name /\ e.toType = Named(u.fields, f.name).type
        BY <4>1
      <4>3. x = AlterColumn(d.table, e.field, e.toType)
        BY <1>1, <3>3, <4>2
      <4> QED BY <4>3
    <3> QED BY <1>5, <3>2, <3>3
  <2> QED BY <1>6, <2>1, <2>2, <2>3 DEF ColumnAsked
<1> QED BY <1>2, <1>6, <1>7 DEF d

\* A plan says everything it is asked, and nothing else or twice.
LEMMA PlanIsAsked ==
  ASSUME NEW before, NEW after, IsSchema(before), IsSchema(after)
  PROVE  LET p == GenerateMigrationSql(DiffSchemas(before, after)) IN
         IsSeq(p) /\ IsInjective(p) /\ \A x : x \in Range(p) <=> Asked(x, before, after)
<1> DEFINE diff == DiffSchemas(before, after)
           gc == [t \in Range(after) |-> CreateTable(t)]
           ga == [d \in {Differences(t, after) : t \in Range(before)} |-> Alterations(d)]
           gd == [t \in Range(before) |-> DropTable(t.name)]
           p == Gathering(diff, gc, ga, gd)
<1>1. /\ \A t \in Range(after) : gc[t] = CreateTable(t) /\ gc[t].op = "create_table"
      /\ \A t \in Range(before) : gd[t] = DropTable(t.name) /\ gd[t].op = "drop_table"
  BY DEF CreateTable, DropTable
<1>2. ASSUME NEW t \in Range(before), Has(after, t.name)
      PROVE  LET d == Differences(t, after) IN
             /\ ga[d] = Alterations(d)
             /\ IsSeq(ga[d]) /\ IsInjective(ga[d])
             /\ \A x : x \in Range(ga[d]) <=> ColumnAsked(x, t, Named(after, t.name))
             /\ \A x \in Range(ga[d]) :
                  x.table = t.name /\ x.op \in {"add_column", "drop_column", "alter_column"}
             /\ Range(ga[d]) # {} => \/ Range(d.added) # {} \/ Range(d.removed) # {}
                                     \/ Range(d.changed) # {}
  <2> DEFINE d == Differences(t, after)
             u == Named(after, t.name)
  <2>1. UniqueNames(t.fields) /\ UniqueNames(u.fields)
    BY <1>2, NamesFind DEF IsSchema
  <2>2. ga[d] = Alterations(d)
    OBVIOUS
  <2> HIDE DEF ga
  <2>3. d = TableDiff(t.name, t.fields, u.fields)
    BY DEF Differences
  <2> HIDE DEF d, u
  <2>4. IsSeq(ga[d]) /\ IsInjective(ga[d]) /\ \A x : x \in Range(ga[d]) <=> ColumnAsked(x, t, u)
    BY <2>1, <2>2, <2>3, AlterationsAsked
  <2>5. ASSUME NEW x, ColumnAsked(x, t, u)
        PROVE  x.table = t.name /\ x.op \in {"add_column", "drop_column", "alter_column"}
    BY <2>5 DEF ColumnAsked, AddColumn, DropColumn, AlterColumn
  <2>6. Range(ga[d]) # {} => Range(d.added) # {} \/ Range(d.removed) # {} \/ Range(d.changed) # {}
    BY <2>1, <2>3, <2>4, DifferentFields
  <2> QED BY <2>2, <2>4, <2>5, <2>6 DEF d, u
<1>3. GenerateMigrationSql(diff) = p
  <2>1. /\ \A t \in Range(diff.added) : t \in Range(after)
        /\ \A t \in Range(diff.removed) : t \in Range(before)
        /\ \A d \in Range(diff.changed) : d \in {Differences(t, after) : t \in Range(before)}
    BY DiffLists
  <2> HIDE DEF diff
  <2>2. Each(diff.added, CreateTable) = [i \in DOMAIN diff.added |-> gc[diff.added[i]]]
    BY <2>1 DEF Each, Range
  <2>3. Each(diff.changed, Alterations) = [i \in DOMAIN diff.changed |-> ga[diff.changed[i]]]
    BY <2>1 DEF Each, Range
  <2>4. Each(diff.removed, LAMBDA t : DropTable(t.name))
          = [i \in DOMAIN diff.removed |-> gd[diff.removed[i]]]
    BY <2>1 DEF Each, Range
  <2> HIDE DEF gc, ga, gd
  <2>5. GenerateMigrationSql(diff) =
          Each(diff.added, CreateTable) \o FlattenSeq(Each(diff.changed, Alterations))
          \o Each(diff.removed, LAMBDA t : DropTable(t.name))
    BY DEF GenerateMigrationSql, Alterations, Each
  <2> QED BY <2>2, <2>3, <2>4, <2>5 DEF Gathering
<1>4. /\ \A t, u \in Range(after) : gc[t] = gc[u] => t = u
      /\ \A t, u \in Range(before) : gd[t] = gd[u] => t = u
  <2>1. /\ \A t, u \in Range(after) : t.name = u.name => t = u
        /\ \A t, u \in Range(before) : t.name = u.name => t = u
    BY DEF IsSchema, UniqueNames, Range
  <2>2. \A t \in Range(after) : gc[t].table = t.name
    BY DEF CreateTable
  <2>3. \A t \in Range(before) : gd[t].table = t.name
    BY DEF DropTable
  <2> HIDE DEF gc, gd
  <2> QED BY <2>1, <2>2, <2>3
<1> HIDE DEF gc, ga, gd, diff
<1>5. /\ IsSeq(p) /\ IsInjective(p)
      /\ \A x : x \in Range(p) <=>
           \/ \E t \in Range(after) : ~Has(before, t.name) /\ x = gc[t]
           \/ \E t \in Range(before) : ~Has(after, t.name) /\ x = gd[t]
           \/ \E t \in Range(before) : Has(after, t.name) /\ x \in Range(ga[Differences(t, after)])
  <2>1. Apart(gc, gd, before, after)
    BY <1>1, <1>4 DEF Apart
  <2>2. \A t \in Range(before) : Has(after, t.name) => ListedOnce(t, gc, ga, gd, before, after)
    BY <1>1, <1>2 DEF ListedOnce
  <2> QED BY <2>1, <2>2, Gathered DEF diff
<1> HIDE DEF p
<1>6. ASSUME NEW x PROVE x \in Range(p) <=> Asked(x, before, after)
  <2>1. (\E t \in Range(after) : ~Has(before, t.name) /\ x = gc[t])
          <=> (\E t \in Range(after) : ~Has(before, t.name) /\ x = CreateTable(t))
    BY <1>1
  <2>2. (\E t \in Range(before) : ~Has(after, t.name) /\ x = gd[t])
          <=> (\E t \in Range(before) : ~Has(after, t.name) /\ x = DropTable(t.name))
    BY <1>1
  <2>3. (\E t \in Range(before) : Has(after, t.name) /\ x \in Range(ga[Differences(t, after)]))
          <=> (\E t \in Range(before) : Has(after, t.name) /\ ColumnAsked(x, t, Named(after, t.name)))
    BY <1>2
  <2>4. Asked(x, before, after) <=>
          \/ \E t \in Range(after) : ~Has(before, t.name) /\ x = CreateTable(t)
          \/ \E t \in Range(before) : ~Has(after, t.name) /\ x = DropTable(t.name)
          \/ \E t \in Range(before) : Has(after, t.name) /\ ColumnAsked(x, t, Named(after, t.name))
    BY DEF Asked
  <2> QED BY <1>5, <2>1, <2>2, <2>3, <2>4
<1> QED BY <1>3, <1>5, <1>6 DEF diff

----------------------------------------------------------------------------
(* The other generator: a DSL, and its way up and down.                    *)

AddAction(n, f) == [type |-> "add_column", table |-> n, column |-> f]
DropAction(n, f) == [type |-> "drop_column", table |-> n, column |-> f]
AlterAction(n, c) == [type |-> "alter_column", table |-> n, change |-> c]
CreateTableAction(t) == [type |-> "create_table", table |-> t]
DropTableAction(t) == [type |-> "drop_table", table |-> t]
ChangeOf(f, g) == [field |-> f.name, fromType |-> f.type, toType |-> g.type]

\* The actions for the differences of one table.
Actions(d) ==
  Each(d.added, LAMBDA f : AddAction(d.table, f))
  \o Each(d.changed, LAMBDA c : AlterAction(d.table, c))
  \o Each(d.removed, LAMBDA f : DropAction(d.table, f))

\* The same questions as ColumnAsked and Asked put, answered by actions.
ColumnAction(x, t, u) ==
  \/ \E f \in Range(u.fields) : ~Has(t.fields, f.name) /\ x = AddAction(t.name, f)
  \/ \E f \in Range(t.fields) : ~Has(u.fields, f.name) /\ x = DropAction(t.name, f)
  \/ \E f \in Range(t.fields) :
       /\ Has(u.fields, f.name) /\ Named(u.fields, f.name).type # f.type
       /\ x = AlterAction(t.name, ChangeOf(f, Named(u.fields, f.name)))

Action(x, before, after) ==
  \/ \E t \in Range(after) : ~Has(before, t.name) /\ x = CreateTableAction(t)
  \/ \E t \in Range(before) : ~Has(after, t.name) /\ x = DropTableAction(t)
  \/ \E t \in Range(before) : Has(after, t.name) /\ ColumnAction(x, t, Named(after, t.name))

LEMMA ActionsListed ==
  ASSUME NEW t, NEW u, UniqueNames(t.fields), UniqueNames(u.fields)
  PROVE  LET p == Actions(TableDiff(t.name, t.fields, u.fields)) IN
         /\ IsSeq(p) /\ IsInjective(p)
         /\ \A x : x \in Range(p) <=> ColumnAction(x, t, u)
<1> DEFINE d == TableDiff(t.name, t.fields, u.fields)
           ga == [f \in Range(d.added) |-> AddAction(d.table, f)]
           gr == [f \in Range(d.removed) |-> DropAction(d.table, f)]
           gc == [c \in Range(d.changed) |-> AlterAction(d.table, c)]
           a == [i \in DOMAIN d.added |-> ga[d.added[i]]]
           r == [i \in DOMAIN d.removed |-> gr[d.removed[i]]]
           c == [i \in DOMAIN d.changed |-> gc[d.changed[i]]]
<1>1. /\ IsSeq(d.added) /\ IsSeq(d.removed) /\ IsSeq(d.changed) /\ d.table = t.name
      /\ IsInjective(d.added) /\ IsInjective(d.removed) /\ IsInjective(d.changed)
  BY TableDiffLists
<1>2. Actions(d) = a \o c \o r
  <2> HIDE DEF d
  <2>1. a = Each(d.added, LAMBDA f : AddAction(d.table, f))
    BY DEF Each, Range
  <2>2. r = Each(d.removed, LAMBDA f : DropAction(d.table, f))
    BY DEF Each, Range
  <2>3. c = Each(d.changed, LAMBDA e : AlterAction(d.table, e))
    BY DEF Each, Range
  <2> HIDE DEF a, r, c
  <2> QED BY <2>1, <2>2, <2>3 DEF Actions
<1> HIDE DEF d
<1>3. /\ \A e, f \in Range(d.added) : ga[e] = ga[f] => e = f
      /\ \A e, f \in Range(d.removed) : gr[e] = gr[f] => e = f
      /\ \A e, f \in Range(d.changed) : gc[e] = gc[f] => e = f
  <2>1. \A f \in Range(d.added) : ga[f].column = f
    BY DEF AddAction
  <2>2. \A f \in Range(d.removed) : gr[f].column = f
    BY DEF DropAction
  <2>3. \A f \in Range(d.changed) : gc[f].change = f
    BY DEF AlterAction
  <2> HIDE DEF ga, gr, gc
  <2> QED BY <2>1, <2>2, <2>3
<1>4. /\ IsSeq(a) /\ IsInjective(a)
      /\ \A x : x \in Range(a) <=> \E f \in Range(d.added) : x = AddAction(d.table, f)
  <2>1. IsSeq(a) /\ IsInjective(a) /\ \A x : x \in Range(a) <=> \E f \in Range(d.added) : x = ga[f]
    <3> HIDE DEF ga
    <3> QED BY <1>1, <1>3, Mapped
  <2> HIDE DEF a
  <2> QED BY <2>1
<1>5. /\ IsSeq(r) /\ IsInjective(r)
      /\ \A x : x \in Range(r) <=> \E f \in Range(d.removed) : x = DropAction(d.table, f)
  <2>1. IsSeq(r) /\ IsInjective(r) /\ \A x : x \in Range(r) <=> \E f \in Range(d.removed) : x = gr[f]
    <3> HIDE DEF gr
    <3> QED BY <1>1, <1>3, Mapped
  <2> HIDE DEF r
  <2> QED BY <2>1
<1>6. /\ IsSeq(c) /\ IsInjective(c)
      /\ \A x : x \in Range(c) <=> \E e \in Range(d.changed) : x = AlterAction(d.table, e)
  <2>1. IsSeq(c) /\ IsInjective(c) /\ \A x : x \in Range(c) <=> \E e \in Range(d.changed) : x = gc[e]
    <3> HIDE DEF gc
    <3> QED BY <1>1, <1>3, Mapped
  <2> HIDE DEF c
  <2> QED BY <2>1
<1> HIDE DEF a, r, c
<1>7. /\ IsSeq(a \o c \o r) /\ IsInjective(a \o c \o r)
      /\ Range(a \o c \o r) = Range(a) \cup Range(c) \cup Range(r)
  <2>1. /\ \A x \in Range(a) : x.type = "add_column"
        /\ \A x \in Range(r) : x.type = "drop_column"
        /\ \A x \in Range(c) : x.type = "alter_column"
    BY <1>4, <1>5, <1>6 DEF AddAction, DropAction, AlterAction
  <2>2. /\ \A x \in Range(a) : x \notin Range(r) /\ x \notin Range(c)
        /\ \A x \in Range(c) : x \notin Range(r)
    BY <2>1
  <2> QED BY <1>4, <1>5, <1>6, <2>2, ThreeJoined
<1>8. ASSUME NEW x PROVE x \in Range(a \o c \o r) <=> ColumnAction(x, t, u)
  <2>1. x \in Range(a) <=> \E f \in Range(u.fields) : ~Has(t.fields, f.name) /\ x = AddAction(t.name, f)
    BY <1>1, <1>4, TableDiffLists DEF d
  <2>2. x \in Range(r) <=> \E f \in Range(t.fields) : ~Has(u.fields, f.name) /\ x = DropAction(t.name, f)
    BY <1>1, <1>5, TableDiffLists DEF d
  <2>3. \A e : e \in Range(d.changed) <=>
          \E f \in Range(t.fields) :
            /\ Has(u.fields, f.name) /\ Named(u.fields, f.name).type # f.type
            /\ e = ChangeOf(f, Named(u.fields, f.name))
    BY TableDiffLists DEF d, ChangeOf
  <2>4. x \in Range(c) <=>
          \E f \in Range(t.fields) :
            /\ Has(u.fields, f.name) /\ Named(u.fields, f.name).type # f.type
            /\ x = AlterAction(t.name, ChangeOf(f, Named(u.fields, f.name)))
    BY <1>1, <1>6, <2>3
  <2> QED BY <1>7, <2>1, <2>2, <2>4 DEF ColumnAction
<1> QED BY <1>2, <1>7, <1>8 DEF d

\* The DSL has an action for everything that is asked, and no other or twice.
LEMMA DslIsAsked ==
  ASSUME NEW before, NEW after, IsSchema(before), IsSchema(after)
  PROVE  LET p == BuildMigrationDsl(before, after) IN
         IsSeq(p) /\ IsInjective(p) /\ \A x : x \in Range(p) <=> Action(x, before, after)
<1> DEFINE diff == DiffSchemas(before, after)
           gc == [t \in Range(after) |-> CreateTableAction(t)]
           ga == [d \in {Differences(t, after) : t \in Range(before)} |-> Actions(d)]
           gd == [t \in Range(before) |-> DropTableAction(t)]
           p == Gathering(diff, gc, ga, gd)
<1>1. /\ \A t \in Range(after) : gc[t] = CreateTableAction(t) /\ gc[t].type = "create_table"
      /\ \A t \in Range(before) : gd[t] = DropTableAction(t) /\ gd[t].type = "drop_table"
  BY DEF CreateTableAction, DropTableAction
<1>2. ASSUME NEW t \in Range(before), Has(after, t.name)
      PROVE  LET d == Differences(t, after) IN
             /\ ga[d] = Actions(d)
             /\ IsSeq(ga[d]) /\ IsInjective(ga[d])
             /\ \A x : x \in Range(ga[d]) <=> ColumnAction(x, t, Named(after, t.name))
             /\ \A x \in Range(ga[d]) :
                  x.table = t.name /\ x.type \in {"add_column", "drop_column", "alter_column"}
             /\ Range(ga[d]) # {} => \/ Range(d.added) # {} \/ Range(d.removed) # {}
                                     \/ Range(d.changed) # {}
  <2> DEFINE d == Differences(t, after)
             u == Named(after, t.name)
  <2>1. UniqueNames(t.fields) /\ UniqueNames(u.fields)
    BY <1>2, NamesFind DEF IsSchema
  <2>2. ga[d] = Actions(d)
    OBVIOUS
  <2> HIDE DEF ga
  <2>3. d = TableDiff(t.name, t.fields, u.fields)
    BY DEF Differences
  <2> HIDE DEF d, u
  <2>4. IsSeq(ga[d]) /\ IsInjective(ga[d]) /\ \A x : x \in Range(ga[d]) <=> ColumnAction(x, t, u)
    BY <2>1, <2>2, <2>3, ActionsListed
  <2>5. ASSUME NEW x, ColumnAction(x, t, u)
        PROVE  x.table = t.name /\ x.type \in {"add_column", "drop_column", "alter_column"}
    BY <2>5 DEF ColumnAction, AddAction, DropAction, AlterAction
  <2>6. ASSUME NEW x, ColumnAction(x, t, u) PROVE \E y : ColumnAsked(y, t, u)
    BY <2>6 DEF ColumnAction, ColumnAsked
  <2>7. Range(ga[d]) # {} => Range(d.added) # {} \/ Range(d.removed) # {} \/ Range(d.changed) # {}
    BY <2>1, <2>3, <2>4, <2>6, DifferentFields
  <2> QED BY <2>2, <2>4, <2>5, <2>7 DEF d, u
<1>3. BuildMigrationDsl(before, after) = p
  <2>1. /\ \A t \in Range(diff.added) : t \in Range(after)
        /\ \A t \in Range(diff.removed) : t \in Range(before)
        /\ \A d \in Range(diff.changed) : d \in {Differences(t, after) : t \in Range(before)}
    BY DiffLists
  <2>0. BuildMigrationDsl(before, after) =
          Each(diff.added, CreateTableAction) \o FlattenSeq(Each(diff.changed, Actions))
          \o Each(diff.removed, DropTableAction)
    BY DEF BuildMigrationDsl, Actions, AddAction, DropAction, AlterAction, CreateTableAction,
           DropTableAction, Each
  <2> HIDE DEF diff
  <2>2. Each(diff.added, CreateTableAction) = [i \in DOMAIN diff.added |-> gc[diff.added[i]]]
    BY <2>1 DEF Each, Range
  <2>3. Each(diff.changed, Actions) = [i \in DOMAIN diff.changed |-> ga[diff.changed[i]]]
    BY <2>1 DEF Each, Range
  <2>4. Each(diff.removed, DropTableAction) = [i \in DOMAIN diff.removed |-> gd[diff.removed[i]]]
    BY <2>1 DEF Each, Range
  <2> HIDE DEF gc, ga, gd
  <2> QED BY <2>0, <2>2, <2>3, <2>4 DEF Gathering
<1>4. /\ \A t, u \in Range(after) : gc[t] = gc[u] => t = u
      /\ \A t, u \in Range(before) : gd[t] = gd[u] => t = u
  <2>1. \A t \in Range(after) : gc[t].table = t
    BY DEF CreateTableAction
  <2>2. \A t \in Range(before) : gd[t].table = t
    BY DEF DropTableAction
  <2> HIDE DEF gc, gd
  <2> QED BY <2>1, <2>2
<1> HIDE DEF gc, ga, gd, diff
<1>5. /\ IsSeq(p) /\ IsInjective(p)
      /\ \A x : x \in Range(p) <=>
           \/ \E t \in Range(after) : ~Has(before, t.name) /\ x = gc[t]
           \/ \E t \in Range(before) : ~Has(after, t.name) /\ x = gd[t]
           \/ \E t \in Range(before) : Has(after, t.name) /\ x \in Range(ga[Differences(t, after)])
  <2>1. Apart(gc, gd, before, after)
    BY <1>1, <1>4 DEF Apart
  <2>2. \A t \in Range(before) : Has(after, t.name) => ListedOnce(t, gc, ga, gd, before, after)
    BY <1>1, <1>2 DEF ListedOnce
  <2> QED BY <2>1, <2>2, Gathered DEF diff
<1> HIDE DEF p
<1>6. ASSUME NEW x PROVE x \in Range(p) <=> Action(x, before, after)
  <2>1. \A t \in Range(after) : x = gc[t] <=> x = CreateTableAction(t)
    BY <1>1
  <2>2. \A t \in Range(before) : x = gd[t] <=> x = DropTableAction(t)
    BY <1>1
  <2>3. \A t \in Range(before) : Has(after, t.name) =>
          (x \in Range(ga[Differences(t, after)]) <=> ColumnAction(x, t, Named(after, t.name)))
    BY <1>2
  <2> QED BY <1>5, <2>1, <2>2, <2>3 DEF Action
<1> QED BY <1>3, <1>5, <1>6

LEMMA ReversedRange ==
  ASSUME NEW s, IsSeq(s), IsInjective(s)
  PROVE  IsSeq(Reverse(s)) /\ IsInjective(Reverse(s)) /\ Range(Reverse(s)) = Range(s)
<1> DEFINE n == Len(s)
           r == Reverse(s)
<1>1. n \in Nat /\ DOMAIN s = 1 .. n /\ \A i \in 1 .. n : s[i] \in Range(s)
  BY SeqFacts
<1>2. r = [i \in 1 .. n |-> s[(n - i) + 1]]
  BY DEF Reverse
<1>3. \A i \in 1 .. n : (n - i) + 1 \in 1 .. n /\ n - ((n - i) + 1) + 1 = i
  BY <1>1
<1> HIDE DEF n, r
<1>4. DOMAIN r = 1 .. n /\ \A i \in 1 .. n : r[i] = s[(n - i) + 1] /\ s[i] = r[(n - i) + 1]
  BY <1>2, <1>3
<1>5. Range(r) = Range(s)
  <2>1. \A i \in 1 .. n : r[i] \in Range(s)
    BY <1>1, <1>3, <1>4
  <2>2. \A i \in 1 .. n : s[i] \in Range(r)
    BY <1>3, <1>4 DEF Range
  <2> QED BY <1>1, <1>4, <2>1, <2>2 DEF Range
<1>6. IsInjective(r)
  <2>1. ASSUME NEW i \in 1 .. n, NEW j \in 1 .. n, r[i] = r[j] PROVE i = j
    <3>1. (n - i) + 1 = (n - j) + 1
      BY <1>1, <1>3, <1>4, <2>1 DEF IsInjective
    <3> QED BY <1>1, <3>1
  <2> QED BY <1>4, <2>1 DEF IsInjective
<1>7. IsSeq(r)
  <2>1. r \in [1 .. n -> Range(r)]
    BY <1>2, <1>4 DEF Range
  <2>2. r \in Seq(Range(r))
    BY <1>1, <2>1
  <2> QED BY <2>2 DEF IsSeq
<1> QED BY <1>5, <1>6, <1>7 DEF r

\* What an action is about, and what it says on the way up and on the way down.
LEMMA SaysOfColumns ==
  ASSUME NEW n, NEW f, NEW g
  PROVE  /\ UpOf(AddAction(n, f)) = AddColumn(n, f)
         /\ DownOf(AddAction(n, f)) = DropColumn(n, f)
         /\ UpOf(DropAction(n, f)) = DropColumn(n, f)
         /\ DownOf(DropAction(n, f)) = AddColumn(n, f)
         /\ UpOf(AlterAction(n, ChangeOf(f, g))) = AlterColumn(n, f.name, g.type)
         /\ DownOf(AlterAction(n, ChangeOf(f, g))) = AlterColumn(n, f.name, f.type)
<1>1. /\ AddAction(n, f).type = "add_column" /\ AddAction(n, f).table = n
      /\ AddAction(n, f).column = f
  BY DEF AddAction
<1>2. /\ DropAction(n, f).type = "drop_column" /\ DropAction(n, f).table = n
      /\ DropAction(n, f).column = f
  BY DEF DropAction
<1>3. LET a == AlterAction(n, ChangeOf(f, g)) IN
      /\ a.type = "alter_column" /\ a.table = n
      /\ a.change.field = f.name /\ a.change.fromType = f.type /\ a.change.toType = g.type
  BY DEF AlterAction, ChangeOf
<1>4. UpOf(AddAction(n, f)) = AddColumn(n, f) /\ DownOf(AddAction(n, f)) = DropColumn(n, f)
  BY <1>1 DEF UpOf, DownOf
<1>5. UpOf(DropAction(n, f)) = DropColumn(n, f) /\ DownOf(DropAction(n, f)) = AddColumn(n, f)
  BY <1>2 DEF UpOf, DownOf
<1>6. /\ UpOf(AlterAction(n, ChangeOf(f, g))) = AlterColumn(n, f.name, g.type)
      /\ DownOf(AlterAction(n, ChangeOf(f, g))) = AlterColumn(n, f.name, f.type)
  BY <1>3 DEF UpOf, DownOf
<1> QED BY <1>4, <1>5, <1>6

LEMMA SaysOfTables ==
  ASSUME NEW t
  PROVE  /\ UpOf(CreateTableAction(t)) = CreateTable(t)
         /\ DownOf(CreateTableAction(t)) = DropTable(t.name)
         /\ UpOf(DropTableAction(t)) = DropTable(t.name)
         /\ DownOf(DropTableAction(t)) = CreateTable(t)
<1>1. CreateTableAction(t).type = "create_table" /\ CreateTableAction(t).table = t
  BY DEF CreateTableAction
<1>2. DropTableAction(t).type = "drop_table" /\ DropTableAction(t).table = t
  BY DEF DropTableAction
<1> QED BY <1>1, <1>2 DEF UpOf, DownOf

\* The way up is asked for ...
LEMMA UpAsked ==
  ASSUME NEW before, NEW after, NEW y
  PROVE  (\E x : Action(x, before, after) /\ y = UpOf(x)) <=> Asked(y, before, after)
<1>1. ASSUME NEW t, NEW u
      PROVE  (\E x : ColumnAction(x, t, u) /\ y = UpOf(x)) <=> ColumnAsked(y, t, u)
  <2>1. ASSUME NEW x, ColumnAction(x, t, u) PROVE ColumnAsked(UpOf(x), t, u)
    <3>1. ASSUME NEW f \in Range(u.fields), ~Has(t.fields, f.name), x = AddAction(t.name, f)
          PROVE  ColumnAsked(UpOf(x), t, u)
      <4>1. UpOf(x) = AddColumn(t.name, f)
        BY <3>1, SaysOfColumns
      <4> QED BY <3>1, <4>1 DEF ColumnAsked
    <3>2. ASSUME NEW f \in Range(t.fields), ~Has(u.fields, f.name), x = DropAction(t.name, f)
          PROVE  ColumnAsked(UpOf(x), t, u)
      <4>1. UpOf(x) = DropColumn(t.name, f)
        BY <3>2, SaysOfColumns
      <4> QED BY <3>2, <4>1 DEF ColumnAsked
    <3>3. ASSUME NEW f \in Range(t.fields), Has(u.fields, f.name),
                 Named(u.fields, f.name).type # f.type,
                 x = AlterAction(t.name, ChangeOf(f, Named(u.fields, f.name)))
          PROVE  ColumnAsked(UpOf(x), t, u)
      <4>1. UpOf(x) = AlterColumn(t.name, f.name, Named(u.fields, f.name).type)
        BY <3>3, SaysOfColumns
      <4> QED BY <3>3, <4>1 DEF ColumnAsked
    <3> QED BY <2>1, <3>1, <3>2, <3>3 DEF ColumnAction
  <2>2. ASSUME ColumnAsked(y, t, u) PROVE \E x : ColumnAction(x, t, u) /\ y = UpOf(x)
    <3>1. CASE \E f \in Range(u.fields) : ~Has(t.fields, f.name) /\ y = AddColumn(t.name, f)
      <4>1. PICK f \in Range(u.fields) : ~Has(t.fields, f.name) /\ y = AddColumn(t.name, f)
        BY <3>1
      <4>2. ColumnAction(AddAction(t.name, f), t, u)
        BY <4>1 DEF ColumnAction
      <4> QED BY <4>1, <4>2, SaysOfColumns
    <3>2. CASE \E f \in Range(t.fields) : ~Has(u.fields, f.name) /\ y = DropColumn(t.name, f)
      <4>1. PICK f \in Range(t.fields) : ~Has(u.fields, f.name) /\ y = DropColumn(t.name, f)
        BY <3>2
      <4>2. ColumnAction(DropAction(t.name, f), t, u)
        BY <4>1 DEF ColumnAction
      <4> QED BY <4>1, <4>2, SaysOfColumns
    <3>3. CASE \E f \in Range(t.fields) :
                 /\ Has(u.fields, f.name) /\ Named(u.fields, f.name).type # f.type
                 /\ y = AlterColumn(t.name, f.name, Named(u.fields, f.name).type)
      <4>1. PICK f \in Range(t.fields) :
              /\ Has(u.fields, f.name) /\ Named(u.fields, f.name).type # f.type
              /\ y = AlterColumn(t.name, f.name, Named(u.fields, f.name).type)
        BY <3>3
      <4>2. ColumnAction(AlterAction(t.name, ChangeOf(f, Named(u.fields, f.name))), t, u)
        BY <4>1 DEF ColumnAction
      <4> QED BY <4>1, <4>2, SaysOfColumns
    <3> QED BY <2>2, <3>1, <3>2, <3>3 DEF ColumnAsked
  <2> QED BY <2>1, <2>2
<1> QED BY <1>1, SaysOfTables DEF Action, Asked

\* ... and the way down is what the opposite migration asks for.
LEMMA DownAsked ==
  ASSUME NEW before, NEW after, IsSchema(before), IsSchema(after), NEW y
  PROVE  (\E x : Action(x, before, after) /\ y = DownOf(x)) <=> Asked(y, after, before)
<1>1. ASSUME NEW t, NEW u, t.name = u.name, UniqueNames(t.fields), UniqueNames(u.fields)
      PROVE  (\E x : ColumnAction(x, t, u) /\ y = DownOf(x)) <=> ColumnAsked(y, u, t)
  <2> DEFINE Retyped(f, g) ==
               /\ f \in Range(t.fields) /\ g \in Range(u.fields) /\ f.name = g.name
               /\ g.type # f.type /\ y = AlterColumn(t.name, f.name, f.type)
  <2>1. ASSUME NEW f \in Range(t.fields)
        PROVE  Has(t.fields, f.name) /\ Named(t.fields, f.name) = f
    BY <1>1, NamesFind
  <2>2. ASSUME NEW g \in Range(u.fields)
        PROVE  Has(u.fields, g.name) /\ Named(u.fields, g.name) = g
    BY <1>1, NamesFind
  <2>3. (\E f \in Range(t.fields) :
           /\ Has(u.fields, f.name) /\ Named(u.fields, f.name).type # f.type
           /\ y = AlterColumn(t.name, f.name, f.type))
        <=> \E f, g : Retyped(f, g)
    <3>1. ASSUME NEW f \in Range(t.fields), Has(u.fields, f.name)
          PROVE  Named(u.fields, f.name) \in Range(u.fields) /\ Named(u.fields, f.name).name = f.name
      BY <1>1, <3>1, NamesFind
    <3> QED BY <2>2, <3>1
  <2>4. (\E g \in Range(u.fields) :
           /\ Has(t.fields, g.name) /\ Named(t.fields, g.name).type # g.type
           /\ y = AlterColumn(u.name, g.name, Named(t.fields, g.name).type))
        <=> \E f, g : Retyped(f, g)
    <3>1. ASSUME NEW g \in Range(u.fields), Has(t.fields, g.name)
          PROVE  Named(t.fields, g.name) \in Range(t.fields) /\ Named(t.fields, g.name).name = g.name
      BY <1>1, <3>1, NamesFind
    <3> QED BY <1>1, <2>1, <3>1
  <2>5. (\E x : ColumnAction(x, t, u) /\ y = DownOf(x)) <=>
          \/ \E f \in Range(u.fields) : ~Has(t.fields, f.name) /\ y = DropColumn(t.name, f)
          \/ \E f \in Range(t.fields) : ~Has(u.fields, f.name) /\ y = AddColumn(t.name, f)
          \/ \E f \in Range(t.fields) :
               /\ Has(u.fields, f.name) /\ Named(u.fields, f.name).type # f.type
               /\ y = AlterColumn(t.name, f.name, f.type)
    <3>1. ASSUME NEW x, ColumnAction(x, t, u), y = DownOf(x)
          PROVE  \/ \E f \in Range(u.fields) : ~Has(t.fields, f.name) /\ y = DropColumn(t.name, f)
                 \/ \E f \in Range(t.fields) : ~Has(u.fields, f.name) /\ y = AddColumn(t.name, f)
                 \/ \E f \in Range(t.fields) :
                      /\ Has(u.fields, f.name) /\ Named(u.fields, f.name).type # f.type
                      /\ y = AlterColumn(t.name, f.name, f.type)
      BY <3>1, SaysOfColumns DEF ColumnAction
    <3>2. ASSUME NEW f \in Range(u.fields), ~Has(t.fields, f.name), y = DropColumn(t.name, f)
          PROVE  \E x : ColumnAction(x, t, u) /\ y = DownOf(x)
      <4>1. ColumnAction(AddAction(t.name, f), t, u)
        BY <3>2 DEF ColumnAction
      <4> QED BY <3>2, <4>1, SaysOfColumns
    <3>3. ASSUME NEW f \in Range(t.fields), ~Has(u.fields, f.name), y = AddColumn(t.name, f)
          PROVE  \E x : ColumnAction(x, t, u) /\ y = DownOf(x)
      <4>1. ColumnAction(DropAction(t.name, f), t, u)
        BY <3>3 DEF ColumnAction
      <4> QED BY <3>3, <4>1, SaysOfColumns
    <3>4. ASSUME NEW f \in Range(t.fields), Has(u.fields, f.name),
                 Named(u.fields, f.name).type # f.type, y = AlterColumn(t.name, f.name, f.type)
          PROVE  \E x : ColumnAction(x, t, u) /\ y = DownOf(x)
      <4>1. ColumnAction(AlterAction(t.name, ChangeOf(f, Named(u.fields, f.name))), t, u)
        BY <3>4 DEF ColumnAction
      <4> QED BY <3>4, <4>1, SaysOfColumns
    <3> QED BY <3>1, <3>2, <3>3, <3>4
  <2> HIDE DEF Retyped
  <2> QED BY <1>1, <2>3, <2>4, <2>5 DEF ColumnAsked
<1>2. (\E t \in Range(before) : Has(after, t.name) /\ \E x : ColumnAction(x, t, Named(after, t.name)) /\ y = DownOf(x))
      <=> \E u \in Range(after) : Has(before, u.name) /\ ColumnAsked(y, u, Named(before, u.name))
  <2>1. ASSUME NEW t \in Range(before), Has(after, t.name)
        PROVE  LET u == Named(after, t.name) IN
               /\ u \in Range(after) /\ u.name = t.name /\ Has(before, u.name) /\ Named(before, u.name) = t
               /\ ((\E x : ColumnAction(x, t, u) /\ y = DownOf(x)) <=> ColumnAsked(y, u, t))
    <3> DEFINE u == Named(after, t.name)
    <3>1. u \in Range(after) /\ u.name = t.name /\ Has(before, t.name) /\ Named(before, t.name) = t
      BY <2>1, NamesFind DEF IsSchema
    <3>2. UniqueNames(t.fields) /\ UniqueNames(u.fields)
      BY <3>1 DEF IsSchema
    <3> HIDE DEF u
    <3>3. (\E x : ColumnAction(x, t, u) /\ y = DownOf(x)) <=> ColumnAsked(y, u, t)
      BY <1>1, <3>1, <3>2
    <3> QED BY <3>1, <3>3 DEF u
  <2>2. ASSUME NEW u \in Range(after), Has(before, u.name)
        PROVE  LET t == Named(before, u.name) IN
               t \in Range(before) /\ t.name = u.name /\ Has(after, t.name) /\ Named(after, t.name) = u
    BY <2>2, NamesFind DEF IsSchema
  <2>3. ASSUME NEW t \in Range(before), Has(after, t.name),
               \E x : ColumnAction(x, t, Named(after, t.name)) /\ y = DownOf(x)
        PROVE  \E u \in Range(after) : Has(before, u.name) /\ ColumnAsked(y, u, Named(before, u.name))
    BY <2>1, <2>3
  <2>4. ASSUME NEW u \in Range(after), Has(before, u.name), ColumnAsked(y, u, Named(before, u.name))
        PROVE  \E t \in Range(before) :
                 Has(after, t.name) /\ \E x : ColumnAction(x, t, Named(after, t.name)) /\ y = DownOf(x)
    <3> DEFINE t == Named(before, u.name)
    <3>1. t \in Range(before) /\ Has(after, t.name) /\ Named(after, t.name) = u
      BY <2>2, <2>4
    <3>2. \E x : ColumnAction(x, t, u) /\ y = DownOf(x)
      BY <2>1, <2>4, <3>1
    <3> QED BY <3>1, <3>2
  <2> QED BY <2>3, <2>4
<1>3. (\E x : Action(x, before, after) /\ y = DownOf(x)) <=>
        \/ \E t \in Range(after) : ~Has(before, t.name) /\ y = DropTable(t.name)
        \/ \E t \in Range(before) : ~Has(after, t.name) /\ y = CreateTable(t)
        \/ \E t \in Range(before) : Has(after, t.name) /\ \E x : ColumnAction(x, t, Named(after, t.name)) /\ y = DownOf(x)
  BY SaysOfTables DEF Action
<1> QED BY <1>2, <1>3 DEF Asked

\* No two actions are about the same table, or the same column of one.
ActionTable(x) == IF x.type \in {"create_table", "drop_table"} THEN x.table.name ELSE x.table
ActionColumn(x) ==
  IF x.type = "alter_column" THEN x.change.field
  ELSE IF x.type \in {"add_column", "drop_column"} THEN x.column.name ELSE ""

LEMMA OneAction ==
  ASSUME NEW before, NEW after, IsSchema(before), IsSchema(after),
         NEW x, NEW y, Action(x, before, after), Action(y, before, after),
         x.type = y.type, ActionTable(x) = ActionTable(y), ActionColumn(x) = ActionColumn(y)
  PROVE  x = y
<1>1. /\ \A t, u \in Range(after) : t.name = u.name => t = u
      /\ \A t, u \in Range(before) : t.name = u.name => t = u
  BY DEF IsSchema, UniqueNames, Range
<1>2. \A t : /\ CreateTableAction(t).type = "create_table"
             /\ ActionTable(CreateTableAction(t)) = t.name
             /\ DropTableAction(t).type = "drop_table"
             /\ ActionTable(DropTableAction(t)) = t.name
  BY DEF CreateTableAction, DropTableAction, ActionTable
<1>3. \A n, f : /\ AddAction(n, f).type = "add_column" /\ ActionTable(AddAction(n, f)) = n
                /\ ActionColumn(AddAction(n, f)) = f.name
                /\ DropAction(n, f).type = "drop_column" /\ ActionTable(DropAction(n, f)) = n
                /\ ActionColumn(DropAction(n, f)) = f.name
  BY DEF AddAction, DropAction, ActionTable, ActionColumn
<1>4. \A n, f, g : LET a == AlterAction(n, ChangeOf(f, g)) IN
                   a.type = "alter_column" /\ ActionTable(a) = n /\ ActionColumn(a) = f.name
  BY DEF AlterAction, ChangeOf, ActionTable, ActionColumn
<1>5. ASSUME NEW t \in Range(before), Has(after, t.name), ColumnAction(x, t, Named(after, t.name)),
             NEW s \in Range(before), Has(after, s.name), ColumnAction(y, s, Named(after, s.name))
      PROVE  x = y
  <2> DEFINE u == Named(after, t.name)
  <2>1. ActionTable(x) = t.name /\ ActionTable(y) = s.name
    BY <1>3, <1>4, <1>5 DEF ColumnAction
  <2>2. s = t
    BY <1>1, <1>5, <2>1
  <2>3. /\ \A e, f \in Range(t.fields) : e.name = f.name => e = f
        /\ \A e, f \in Range(u.fields) : e.name = f.name => e = f
    <3>1. UniqueNames(t.fields) /\ UniqueNames(u.fields)
      BY <1>5, NamesFind DEF IsSchema
    <3> HIDE DEF u
    <3> QED BY <3>1 DEF UniqueNames, Range
  <2>4. ColumnAction(x, t, u) /\ ColumnAction(y, t, u) /\ y.type = x.type
    BY <1>5, <2>2
  <2> HIDE DEF u
  <2>5. CASE x.type = "add_column"
    <3>1. PICK e \in Range(u.fields) : x = AddAction(t.name, e)
      <4>1. x.type = "add_column" /\ ColumnAction(x, t, u)
        BY <2>4, <2>5
      <4> QED BY <1>3, <1>4, <4>1 DEF ColumnAction
    <3>2. PICK f \in Range(u.fields) : y = AddAction(t.name, f)
      <4>1. y.type = "add_column" /\ ColumnAction(y, t, u)
        BY <2>4, <2>5
      <4> QED BY <1>3, <1>4, <4>1 DEF ColumnAction
    <3> QED BY <1>3, <2>3, <3>1, <3>2
  <2>6. CASE x.type = "drop_column"
    <3>1. PICK e \in Range(t.fields) : x = DropAction(t.name, e)
      <4>1. x.type = "drop_column" /\ ColumnAction(x, t, u)
        BY <2>4, <2>6
      <4> QED BY <1>3, <1>4, <4>1 DEF ColumnAction
    <3>2. PICK f \in Range(t.fields) : y = DropAction(t.name, f)
      <4>1. y.type = "drop_column" /\ ColumnAction(y, t, u)
        BY <2>4, <2>6
      <4> QED BY <1>3, <1>4, <4>1 DEF ColumnAction
    <3> QED BY <1>3, <2>3, <3>1, <3>2
  <2>7. CASE x.type = "alter_column"
    <3>1. PICK e \in Range(t.fields) : x = AlterAction(t.name, ChangeOf(e, Named(u.fields, e.name)))
      BY <1>3, <1>4, <2>4, <2>7 DEF ColumnAction
    <3>2. PICK f \in Range(t.fields) : y = AlterAction(t.name, ChangeOf(f, Named(u.fields, f.name)))
      BY <1>3, <1>4, <2>4, <2>7 DEF ColumnAction
    <3>3. e.name = f.name
      BY <1>4, <3>1, <3>2
    <3> QED BY <2>3, <3>1, <3>2, <3>3
  <2> QED BY <1>3, <1>4, <2>4, <2>5, <2>6, <2>7 DEF ColumnAction
<1>6. CASE x.type = "create_table"
  <2>1. ASSUME NEW z, Action(z, before, after), z.type = "create_table"
        PROVE  \E t \in Range(after) : z = CreateTableAction(t)
    BY <1>2, <1>3, <1>4, <2>1 DEF Action, ColumnAction
  <2>2. PICK t \in Range(after), u \in Range(after) : x = CreateTableAction(t) /\ y = CreateTableAction(u)
    BY <1>6, <2>1
  <2> QED BY <1>1, <1>2, <2>2
<1>7. CASE x.type = "drop_table"
  <2>1. ASSUME NEW z, Action(z, before, after), z.type = "drop_table"
        PROVE  \E t \in Range(before) : z = DropTableAction(t)
    BY <1>2, <1>3, <1>4, <2>1 DEF Action, ColumnAction
  <2>2. PICK t \in Range(before), u \in Range(before) : x = DropTableAction(t) /\ y = DropTableAction(u)
    BY <1>7, <2>1
  <2> QED BY <1>1, <1>2, <2>2
<1>8. CASE x.type \notin {"create_table", "drop_table"}
  <2>1. ASSUME NEW z, Action(z, before, after), z.type \notin {"create_table", "drop_table"}
        PROVE  \E t \in Range(before) : Has(after, t.name) /\ ColumnAction(z, t, Named(after, t.name))
    BY <1>2, <2>1 DEF Action
  <2> QED BY <1>5, <1>8, <2>1
<1> QED BY <1>6, <1>7, <1>8

\* What an action says is about its table and its column.
LEMMA SaysWhere ==
  ASSUME NEW before, NEW after, NEW x, Action(x, before, after)
  PROVE  /\ UpOf(x).table = ActionTable(x) /\ UpOf(x).op = x.type
         /\ DownOf(x).table = ActionTable(x)
         /\ DownOf(x).op = CASE x.type = "create_table" -> "drop_table"
                             [] x.type = "drop_table" -> "create_table"
                             [] x.type = "add_column" -> "drop_column"
                             [] x.type = "drop_column" -> "add_column"
                             [] x.type = "alter_column" -> "alter_column"
         /\ x.type \in {"create_table", "drop_table", "add_column", "drop_column", "alter_column"}
         /\ x.type \notin {"create_table", "drop_table"} =>
              ColumnOf(UpOf(x)) = ActionColumn(x) /\ ColumnOf(DownOf(x)) = ActionColumn(x)
<1>1. ASSUME NEW t, x = CreateTableAction(t)
      PROVE  /\ x.type = "create_table" /\ ActionTable(x) = t.name
             /\ UpOf(x).table = t.name /\ UpOf(x).op = "create_table"
             /\ DownOf(x).table = t.name /\ DownOf(x).op = "drop_table"
  <2>1. UpOf(x) = CreateTable(t) /\ DownOf(x) = DropTable(t.name)
    BY <1>1, SaysOfTables
  <2> QED BY <1>1, <2>1 DEF CreateTableAction, ActionTable, CreateTable, DropTable
<1>2. ASSUME NEW t, x = DropTableAction(t)
      PROVE  /\ x.type = "drop_table" /\ ActionTable(x) = t.name
             /\ UpOf(x).table = t.name /\ UpOf(x).op = "drop_table"
             /\ DownOf(x).table = t.name /\ DownOf(x).op = "create_table"
  <2>1. UpOf(x) = DropTable(t.name) /\ DownOf(x) = CreateTable(t)
    BY <1>2, SaysOfTables
  <2> QED BY <1>2, <2>1 DEF DropTableAction, ActionTable, CreateTable, DropTable
<1>3. ASSUME NEW n, NEW f, x = AddAction(n, f)
      PROVE  /\ x.type = "add_column" /\ ActionTable(x) = n /\ ActionColumn(x) = f.name
             /\ UpOf(x).table = n /\ UpOf(x).op = "add_column" /\ ColumnOf(UpOf(x)) = f.name
             /\ DownOf(x).table = n /\ DownOf(x).op = "drop_column" /\ ColumnOf(DownOf(x)) = f.name
  <2>1. UpOf(x) = AddColumn(n, f) /\ DownOf(x) = DropColumn(n, f)
    BY <1>3, SaysOfColumns
  <2> QED BY <1>3, <2>1 DEF AddAction, ActionTable, ActionColumn, AddColumn, DropColumn, ColumnOf
<1>4. ASSUME NEW n, NEW f, x = DropAction(n, f)
      PROVE  /\ x.type = "drop_column" /\ ActionTable(x) = n /\ ActionColumn(x) = f.name
             /\ UpOf(x).table = n /\ UpOf(x).op = "drop_column" /\ ColumnOf(UpOf(x)) = f.name
             /\ DownOf(x).table = n /\ DownOf(x).op = "add_column" /\ ColumnOf(DownOf(x)) = f.name
  <2>1. UpOf(x) = DropColumn(n, f) /\ DownOf(x) = AddColumn(n, f)
    BY <1>4, SaysOfColumns
  <2> QED BY <1>4, <2>1 DEF DropAction, ActionTable, ActionColumn, AddColumn, DropColumn, ColumnOf
<1>5. ASSUME NEW n, NEW f, NEW g, x = AlterAction(n, ChangeOf(f, g))
      PROVE  /\ x.type = "alter_column" /\ ActionTable(x) = n /\ ActionColumn(x) = f.name
             /\ UpOf(x).table = n /\ UpOf(x).op = "alter_column" /\ ColumnOf(UpOf(x)) = f.name
             /\ DownOf(x).table = n /\ DownOf(x).op = "alter_column" /\ ColumnOf(DownOf(x)) = f.name
  <2>1. UpOf(x) = AlterColumn(n, f.name, g.type) /\ DownOf(x) = AlterColumn(n, f.name, f.type)
    BY <1>5, SaysOfColumns
  <2> QED BY <1>5, <2>1 DEF AlterAction, ChangeOf, ActionTable, ActionColumn, AlterColumn, ColumnOf
<1>6. CASE \E t : x = CreateTableAction(t)
  BY <1>1, <1>6
<1>7. CASE \E t : x = DropTableAction(t)
  BY <1>2, <1>7
<1>8. CASE \E n, f : x = AddAction(n, f)
  BY <1>3, <1>8
<1>9. CASE \E n, f : x = DropAction(n, f)
  BY <1>4, <1>9
<1>10. CASE \E n, f, g : x = AlterAction(n, ChangeOf(f, g))
  BY <1>5, <1>10
<1> QED BY <1>6, <1>7, <1>8, <1>9, <1>10 DEF Action, ColumnAction

LEMMA UpIsAsked ==
  ASSUME NEW before, NEW after, IsSchema(before), IsSchema(after)
  PROVE  LET p == CompileUp(BuildMigrationDsl(before, after)) IN
         IsSeq(p) /\ IsInjective(p) /\ \A x : x \in Range(p) <=> Asked(x, before, after)
<1> DEFINE dsl == BuildMigrationDsl(before, after)
           g == [x \in Range(dsl) |-> UpOf(x)]
           p == [i \in DOMAIN dsl |-> g[dsl[i]]]
<1>1. IsSeq(dsl) /\ IsInjective(dsl) /\ \A x : x \in Range(dsl) <=> Action(x, before, after)
  BY DslIsAsked
<1> HIDE DEF dsl
<1>2. CompileUp(dsl) = p
  BY DEF CompileUp, Each, Range
<1>3. \A x, y \in Range(dsl) : g[x] = g[y] => x = y
  <2> SUFFICES ASSUME NEW x \in Range(dsl), NEW y \in Range(dsl), UpOf(x) = UpOf(y)
               PROVE  x = y
    OBVIOUS
  <2>1. Action(x, before, after) /\ Action(y, before, after)
    BY <1>1
  <2>2. x.type = y.type /\ ActionTable(x) = ActionTable(y)
    BY <2>1, SaysWhere
  <2>3. CASE x.type \notin {"create_table", "drop_table"}
    <3>1. ActionColumn(x) = ActionColumn(y)
      BY <2>1, <2>2, <2>3, SaysWhere
    <3> QED BY <2>1, <2>2, <3>1, OneAction
  <2>4. CASE x.type \in {"create_table", "drop_table"}
    <3>1. ActionColumn(x) = "" /\ ActionColumn(y) = ""
      BY <2>2, <2>4 DEF ActionColumn
    <3> QED BY <2>1, <2>2, <3>1, OneAction
  <2> QED BY <2>3, <2>4
<1>4. IsSeq(p) /\ IsInjective(p) /\ \A x : x \in Range(p) <=> \E y \in Range(dsl) : x = g[y]
  <2> HIDE DEF g
  <2> QED BY <1>1, <1>3, Mapped
<1> HIDE DEF p
<1>5. \A x : x \in Range(p) <=> Asked(x, before, after)
  BY <1>1, <1>4, UpAsked
<1> QED BY <1>2, <1>4, <1>5 DEF dsl

LEMMA DownIsAsked ==
  ASSUME NEW before, NEW after, IsSchema(before), IsSchema(after)
  PROVE  LET p == CompileDown(BuildMigrationDsl(before, after)) IN
         IsSeq(p) /\ IsInjective(p) /\ \A x : x \in Range(p) <=> Asked(x, after, before)
<1> DEFINE dsl == BuildMigrationDsl(before, after)
           g == [x \in Range(dsl) |-> DownOf(x)]
           p == [i \in DOMAIN dsl |-> g[dsl[i]]]
<1>1. IsSeq(dsl) /\ IsInjective(dsl) /\ \A x : x \in Range(dsl) <=> Action(x, before, after)
  BY DslIsAsked
<1> HIDE DEF dsl
<1>2. CompileDown(dsl) = Reverse(p)
  <2>1. Each(dsl, DownOf) = p
    BY DEF Each, Range
  <2> HIDE DEF p
  <2> QED BY <2>1 DEF CompileDown
<1>3. \A x, y \in Range(dsl) : g[x] = g[y] => x = y
  <2> SUFFICES ASSUME NEW x \in Range(dsl), NEW y \in Range(dsl), DownOf(x) = DownOf(y)
               PROVE  x = y
    OBVIOUS
  <2>1. Action(x, before, after) /\ Action(y, before, after)
    BY <1>1
  <2>2. x.type = y.type /\ ActionTable(x) = ActionTable(y)
    BY <2>1, SaysWhere
  <2>3. CASE x.type \notin {"create_table", "drop_table"}
    <3>1. ActionColumn(x) = ActionColumn(y)
      BY <2>1, <2>2, <2>3, SaysWhere
    <3> QED BY <2>1, <2>2, <3>1, OneAction
  <2>4. CASE x.type \in {"create_table", "drop_table"}
    <3>1. ActionColumn(x) = "" /\ ActionColumn(y) = ""
      BY <2>2, <2>4 DEF ActionColumn
    <3> QED BY <2>1, <2>2, <3>1, OneAction
  <2> QED BY <2>3, <2>4
<1>4. IsSeq(p) /\ IsInjective(p) /\ \A x : x \in Range(p) <=> \E y \in Range(dsl) : x = g[y]
  <2> HIDE DEF g
  <2> QED BY <1>1, <1>3, Mapped
<1> HIDE DEF p
<1>5. \A x : x \in Range(p) <=> Asked(x, after, before)
  BY <1>1, <1>4, DownAsked
<1>6. IsSeq(Reverse(p)) /\ IsInjective(Reverse(p)) /\ Range(Reverse(p)) = Range(p)
  BY <1>4, ReversedRange
<1> QED BY <1>2, <1>5, <1>6 DEF dsl

----------------------------------------------------------------------------
(* A plan reaches its goal.                                                *)

\* Database d has the tables, columns and types of schema s.  Migrations do not look at
\* nullability.
LikeSchema(d, s) ==
  /\ IsDatabase(d)
  /\ \A t : t \in DOMAIN d <=> Has(s, t)
  /\ \A t \in DOMAIN d : \A c :
       /\ c \in DOMAIN d[t] <=> Has(Named(s, t).fields, c)
       /\ c \in DOMAIN d[t] => d[t][c].type = Named(Named(s, t).fields, c).type

\* What migrating database d to schema s can lead to: a column that is there keeps the
\* nullability it has.
Goal(d, s) ==
  [t \in DOMAIN Tables(s) |->
     [c \in DOMAIN Tables(s)[t] |->
        IF t \in DOMAIN d /\ c \in DOMAIN d[t]
          THEN [Tables(s)[t][c] EXCEPT !.nullable = d[t][c].nullable]
          ELSE Tables(s)[t][c]]]

LEMMA GoalAt ==
  ASSUME NEW d, NEW s
  PROVE  /\ LikeSchema(Goal(d, s), s)
         /\ \A t : Has(s, t) => LET fs == Named(s, t).fields IN
              /\ t \notin DOMAIN d => Goal(d, s)[t] = Columns(fs)
              /\ \A c : Has(fs, c) =>
                   Goal(d, s)[t][c] =
                     [type |-> Named(fs, c).type,
                      nullable |-> IF t \in DOMAIN d /\ c \in DOMAIN d[t]
                                     THEN d[t][c].nullable ELSE Named(fs, c).nullable]
<1> DEFINE e == Goal(d, s)
<1>1. /\ \A t : t \in DOMAIN Tables(s) <=> Has(s, t)
      /\ \A t : Has(s, t) => Tables(s)[t] = Columns(Named(s, t).fields)
  BY TablesAt
<1>2. IsMap(e) /\ \A t : t \in DOMAIN e <=> Has(s, t)
  BY <1>1 DEF Goal, IsMap
<1>3. ASSUME NEW t, Has(s, t)
      PROVE  LET fs == Named(s, t).fields IN
             /\ IsTable(e[t])
             /\ \A c : c \in DOMAIN e[t] <=> Has(fs, c)
             /\ t \notin DOMAIN d => e[t] = Columns(fs)
             /\ \A c : Has(fs, c) =>
                   e[t][c] =
                     [type |-> Named(fs, c).type,
                      nullable |-> IF t \in DOMAIN d /\ c \in DOMAIN d[t]
                                     THEN d[t][c].nullable ELSE Named(fs, c).nullable]
  <2> DEFINE fs == Named(s, t).fields
             u == Columns(fs)
             kept == t \in DOMAIN d
  <2>1. /\ IsTable(u) /\ \A c : c \in DOMAIN u <=> Has(fs, c)
        /\ \A c : Has(fs, c) => u[c] = [type |-> Named(fs, c).type, nullable |-> Named(fs, c).nullable]
    BY ColumnsAt
  <2>2. e[t] = [c \in DOMAIN u |-> IF kept /\ c \in DOMAIN d[t]
                                     THEN [u[c] EXCEPT !.nullable = d[t][c].nullable] ELSE u[c]]
    BY <1>1, <1>3 DEF Goal
  <2> HIDE DEF e, fs, u
  <2>3. \A c \in DOMAIN u :
          [u[c] EXCEPT !.nullable = d[t][c].nullable] =
            [type |-> Named(fs, c).type, nullable |-> d[t][c].nullable]
    <3>1. \A a, b, v : [[type |-> a, nullable |-> b] EXCEPT !.nullable = v]
                         = [type |-> a, nullable |-> v]
      OBVIOUS
    <3> TAKE c \in DOMAIN u
    <3>2. u[c] = [type |-> Named(fs, c).type, nullable |-> Named(fs, c).nullable]
      BY <2>1
    <3> QED BY <3>1, <3>2
  <2>4. \A c \in DOMAIN u :
          e[t][c] = [type |-> Named(fs, c).type,
                     nullable |-> IF kept /\ c \in DOMAIN d[t]
                                     THEN d[t][c].nullable ELSE Named(fs, c).nullable]
    BY <2>1, <2>2, <2>3
  <2>5. DOMAIN e[t] = DOMAIN u /\ IsMap(e[t])
    BY <2>2 DEF IsMap
  <2>6. IsTable(e[t])
    <3>1. \A a, b : IsColumn([type |-> a, nullable |-> b])
      BY DEF IsColumn
    <3> QED BY <2>4, <2>5, <3>1 DEF IsTable
  <2>7. t \notin DOMAIN d => e[t] = u
    BY <2>1, <2>2 DEF IsTable, IsMap
  <2> QED BY <2>1, <2>4, <2>5, <2>6, <2>7 DEF fs, u
<1>4. \A t \in DOMAIN e : \A c \in DOMAIN e[t] : e[t][c].type = Named(Named(s, t).fields, c).type
  <2> TAKE t \in DOMAIN e
  <2> TAKE c \in DOMAIN e[t]
  <2>1. Has(s, t) /\ Has(Named(s, t).fields, c)
    BY <1>2, <1>3
  <2> DEFINE null == IF t \in DOMAIN d /\ c \in DOMAIN d[t]
                       THEN d[t][c].nullable ELSE Named(Named(s, t).fields, c).nullable
  <2>2. e[t][c] = [type |-> Named(Named(s, t).fields, c).type, nullable |-> null]
    BY <1>3, <2>1
  <2> HIDE DEF null, e
  <2> QED BY <2>2
<1>5. LikeSchema(e, s)
  <2> HIDE DEF e
  <2>1. IsDatabase(e)
    BY <1>2, <1>3 DEF IsDatabase
  <2> QED BY <1>2, <1>3, <1>4, <2>1 DEF LikeSchema
<1> HIDE DEF e
<1> QED BY <1>3, <1>5 DEF e

LEMMA AskedFits ==
  ASSUME NEW d, NEW before, NEW after, IsSchema(before), IsSchema(after), LikeSchema(d, before),
         NEW x, Asked(x, before, after)
  PROVE  Fits(x, d, Goal(d, after))
<1> DEFINE e == Goal(d, after)
<1>1. /\ \A t : t \in DOMAIN d <=> Has(before, t)
      /\ \A t : t \in DOMAIN e <=> Has(after, t)
  BY GoalAt DEF LikeSchema
<1>2. CASE \E t \in Range(after) : ~Has(before, t.name) /\ x = CreateTable(t)
  <2>1. PICK t \in Range(after) : ~Has(before, t.name) /\ x = CreateTable(t)
    BY <1>2
  <2>2. Has(after, t.name) /\ Named(after, t.name) = t
    BY NamesFind DEF IsSchema
  <2>3. x.op = "create_table" /\ x.table = t.name /\ x.fields = t.fields
    BY <2>1 DEF CreateTable
  <2>4. t.name \in DOMAIN e \ DOMAIN d
    BY <1>1, <2>1, <2>2
  <2>5. e[t.name] = Columns(t.fields)
    BY <2>2, <2>4, GoalAt
  <2> HIDE DEF e
  <2>6. Fits(x, d, e)
    BY <2>3, <2>4, <2>5 DEF Fits
  <2> QED BY <2>6 DEF e
<1>3. CASE \E t \in Range(before) : ~Has(after, t.name) /\ x = DropTable(t.name)
  <2>1. PICK t \in Range(before) : ~Has(after, t.name) /\ x = DropTable(t.name)
    BY <1>3
  <2>2. Has(before, t.name)
    BY NamesFind DEF IsSchema
  <2>3. x.op = "drop_table" /\ x.table = t.name
    BY <2>1 DEF DropTable
  <2> HIDE DEF e
  <2>4. Fits(x, d, e)
    BY <1>1, <2>1, <2>2, <2>3 DEF Fits
  <2> QED BY <2>4 DEF e
<1>4. CASE \E t \in Range(before) : Has(after, t.name) /\ ColumnAsked(x, t, Named(after, t.name))
  <2>1. PICK t \in Range(before) : Has(after, t.name) /\ ColumnAsked(x, t, Named(after, t.name))
    BY <1>4
  <2> DEFINE n == t.name
             u == Named(after, n)
  <2>2. Has(before, n) /\ Named(before, n) = t /\ u \in Range(after)
    BY <2>1, NamesFind DEF IsSchema
  <2>3. UniqueNames(t.fields) /\ UniqueNames(u.fields)
    BY <2>2 DEF IsSchema
  <2>4. n \in DOMAIN d \cap DOMAIN e /\ IsTable(d[n])
    BY <1>1, <2>1, <2>2 DEF LikeSchema, IsDatabase
  <2>5. \A c : /\ c \in DOMAIN d[n] <=> Has(t.fields, c)
               /\ c \in DOMAIN e[n] <=> Has(u.fields, c)
    BY <2>2, <2>4, GoalAt DEF LikeSchema
  <2>6. \A c \in DOMAIN e[n] :
          e[n][c] = [type |-> Named(u.fields, c).type,
                     nullable |-> IF c \in DOMAIN d[n] THEN d[n][c].nullable
                                                       ELSE Named(u.fields, c).nullable]
    BY <2>1, <2>4, <2>5, GoalAt
  <2> HIDE DEF e, u, n
  <2>7. CASE \E f \in Range(u.fields) : ~Has(t.fields, f.name) /\ x = AddColumn(n, f)
    <3>1. PICK f \in Range(u.fields) : ~Has(t.fields, f.name) /\ x = AddColumn(n, f)
      BY <2>7
    <3>2. Has(u.fields, f.name) /\ Named(u.fields, f.name) = f
      BY <2>3, NamesFind
    <3>3. x.op = "add_column" /\ x.table = n /\ x.field = f /\ ColumnOf(x) = f.name
      BY <3>1 DEF AddColumn, ColumnOf
    <3>4. f.name \in DOMAIN e[n] \ DOMAIN d[n]
      BY <2>5, <3>1, <3>2
    <3>5. e[n][f.name] = [type |-> f.type, nullable |-> f.nullable]
      BY <2>6, <3>2, <3>4
    <3>6. Fits(x, d, e)
      BY <2>4, <3>3, <3>4, <3>5 DEF Fits
    <3> QED BY <3>6 DEF e
  <2>8. CASE \E f \in Range(t.fields) : ~Has(u.fields, f.name) /\ x = DropColumn(n, f)
    <3>1. PICK f \in Range(t.fields) : ~Has(u.fields, f.name) /\ x = DropColumn(n, f)
      BY <2>8
    <3>2. Has(t.fields, f.name)
      BY <2>3, NamesFind
    <3>3. x.op = "drop_column" /\ x.table = n /\ ColumnOf(x) = f.name
      BY <3>1 DEF DropColumn, ColumnOf
    <3>4. f.name \in DOMAIN d[n] \ DOMAIN e[n]
      BY <2>5, <3>1, <3>2
    <3>5. Fits(x, d, e)
      BY <2>4, <3>3, <3>4 DEF Fits
    <3> QED BY <3>5 DEF e
  <2>9. CASE \E f \in Range(t.fields) :
               /\ Has(u.fields, f.name) /\ Named(u.fields, f.name).type # f.type
               /\ x = AlterColumn(n, f.name, Named(u.fields, f.name).type)
    <3>1. PICK f \in Range(t.fields) :
               /\ Has(u.fields, f.name) /\ Named(u.fields, f.name).type # f.type
               /\ x = AlterColumn(n, f.name, Named(u.fields, f.name).type)
      BY <2>9
    <3>2. Has(t.fields, f.name)
      BY <2>3, NamesFind
    <3>3. /\ x.op = "alter_column" /\ x.table = n /\ ColumnOf(x) = f.name
          /\ x.type = Named(u.fields, f.name).type
      BY <3>1 DEF AlterColumn, ColumnOf
    <3>4. f.name \in DOMAIN d[n] \cap DOMAIN e[n]
      BY <2>5, <3>1, <3>2
    <3>5. e[n][f.name] = [type |-> x.type, nullable |-> d[n][f.name].nullable]
      BY <2>6, <3>3, <3>4
    <3>6. [d[n][f.name] EXCEPT !.type = x.type] = [type |-> x.type, nullable |-> d[n][f.name].nullable]
      <4>1. IsColumn(d[n][f.name])
        BY <2>4, <3>4 DEF IsTable
      <4>2. \A a, b, v : [[type |-> a, nullable |-> b] EXCEPT !.type = v] = [type |-> v, nullable |-> b]
        OBVIOUS
      <4> QED BY <4>1, <4>2 DEF IsColumn
    <3>7. Fits(x, d, e)
      BY <2>4, <3>3, <3>4, <3>5, <3>6 DEF Fits
    <3> QED BY <3>7 DEF e
  <2> QED BY <2>1, <2>7, <2>8, <2>9 DEF ColumnAsked, u, n
<1> QED BY <1>2, <1>3, <1>4 DEF Asked

LEMMA LikeItself ==
  ASSUME NEW s
  PROVE  LikeSchema(Tables(s), s)
<1>1. /\ IsDatabase(Tables(s))
      /\ \A t : t \in DOMAIN Tables(s) <=> Has(s, t)
      /\ \A t : Has(s, t) => Tables(s)[t] = Columns(Named(s, t).fields)
  BY TablesAt
<1>2. ASSUME NEW t \in DOMAIN Tables(s), NEW c
      PROVE  /\ c \in DOMAIN Tables(s)[t] <=> Has(Named(s, t).fields, c)
             /\ c \in DOMAIN Tables(s)[t] => Tables(s)[t][c].type = Named(Named(s, t).fields, c).type
  <2>1. Tables(s)[t] = Columns(Named(s, t).fields)
    BY <1>1
  <2>2. /\ \A k : k \in DOMAIN Tables(s)[t] <=> Has(Named(s, t).fields, k)
        /\ \A k : Has(Named(s, t).fields, k) =>
             Tables(s)[t][k] = [type |-> Named(Named(s, t).fields, k).type,
                                nullable |-> Named(Named(s, t).fields, k).nullable]
    BY <2>1, ColumnsAt
  <2>3. c \in DOMAIN Tables(s)[t] <=> Has(Named(s, t).fields, c)
    BY <2>2
  <2>4. ASSUME c \in DOMAIN Tables(s)[t]
        PROVE  Tables(s)[t][c].type = Named(Named(s, t).fields, c).type
    <3>1. Tables(s)[t][c] = [type |-> Named(Named(s, t).fields, c).type,
                             nullable |-> Named(Named(s, t).fields, c).nullable]
      BY <2>2, <2>3, <2>4
    <3> QED BY <3>1
  <2> QED BY <2>3, <2>4
<1> QED BY <1>1, <1>2 DEF LikeSchema

\* No two statements of a migration are about the same table, or the same column of one.
LEMMA AskedOnce ==
  ASSUME NEW before, NEW after, IsSchema(before), IsSchema(after),
         NEW x, NEW y, Asked(x, before, after), Asked(y, before, after), x.table = y.table,
         x.op \notin {"create_table", "drop_table"} => ColumnOf(x) = ColumnOf(y)
  PROVE  x = y
<1> DEFINE d == Tables(before)
           e == Goal(Tables(before), after)
<1>1. PICK a : Action(a, before, after) /\ x = UpOf(a)
  BY UpAsked
<1>2. PICK b : Action(b, before, after) /\ y = UpOf(b)
  BY UpAsked
<1>3. ActionTable(a) = ActionTable(b) /\ x.op = a.type /\ y.op = b.type
  BY <1>1, <1>2, SaysWhere
<1>4. Fits(x, d, e) /\ Fits(y, d, e)
  BY AskedFits, LikeItself
<1>5. x.op = y.op
  <2> HIDE DEF d, e
  <2> QED BY <1>4 DEF Fits
<1>6. ActionColumn(a) = ActionColumn(b)
  <2>1. CASE a.type \in {"create_table", "drop_table"}
    BY <1>3, <1>5, <2>1 DEF ActionColumn
  <2>2. CASE a.type \notin {"create_table", "drop_table"}
    BY <1>1, <1>2, <1>3, <1>5, <2>2, SaysWhere
  <2> QED BY <2>1, <2>2
<1>7. a = b
  BY <1>1, <1>2, <1>3, <1>5, <1>6, OneAction
<1> QED BY <1>1, <1>2, <1>7

LEMMA AskedCovers ==
  ASSUME NEW d, NEW before, NEW after, IsSchema(before), IsSchema(after), LikeSchema(d, before),
         NEW D, \A x : x \in D <=> Asked(x, before, after)
  PROVE  Covers(D, d, Goal(d, after))
<1> DEFINE e == Goal(d, after)
<1>1. /\ \A t : t \in DOMAIN d <=> Has(before, t)
      /\ \A t : t \in DOMAIN e <=> Has(after, t)
  BY GoalAt DEF LikeSchema
<1>2. ASSUME NEW n, ~SameAt(d, e, n), n \notin DOMAIN d \cap DOMAIN e
      PROVE  Handled(D, n)
  <2> HIDE DEF e
  <2>1. CASE Has(after, n) /\ ~Has(before, n)
    <3> DEFINE t == Named(after, n)
    <3>1. t \in Range(after) /\ t.name = n
      BY <2>1, NamesFind DEF IsSchema
    <3>2. CreateTable(t) \in D
      BY <2>1, <3>1 DEF Asked
    <3>3. CreateTable(t).table = n
      BY <3>1 DEF CreateTable
    <3> QED BY <3>2, <3>3 DEF Handled
  <2>2. CASE Has(before, n) /\ ~Has(after, n)
    <3> DEFINE t == Named(before, n)
    <3>1. t \in Range(before) /\ t.name = n
      BY <2>2, NamesFind DEF IsSchema
    <3>2. DropTable(t.name) \in D
      BY <2>2, <3>1 DEF Asked
    <3>3. DropTable(t.name).table = n
      BY <3>1 DEF DropTable
    <3> QED BY <3>2, <3>3 DEF Handled
  <2> QED BY <1>1, <1>2, <2>1, <2>2 DEF SameAt
<1>3. ASSUME NEW n \in DOMAIN d \cap DOMAIN e, NEW c, ~SameAt(d[n], e[n], c)
      PROVE  Concerned(D, n, c)
  <2> DEFINE t == Named(before, n)
             u == Named(after, n)
  <2>1. /\ Has(after, n) /\ t \in Range(before) /\ t.name = n /\ u \in Range(after)
    BY <1>1, <1>3, NamesFind DEF IsSchema
  <2>2. UniqueNames(t.fields) /\ UniqueNames(u.fields)
    BY <2>1 DEF IsSchema
  <2>3. /\ c \in DOMAIN d[n] <=> Has(t.fields, c)
        /\ c \in DOMAIN e[n] <=> Has(u.fields, c)
        /\ c \in DOMAIN d[n] => d[n][c].type = Named(t.fields, c).type
    BY <1>3, <2>1, GoalAt DEF LikeSchema
  <2>4. c \in DOMAIN d[n] /\ c \in DOMAIN e[n] =>
          e[n][c] = [type |-> Named(u.fields, c).type, nullable |-> d[n][c].nullable]
    BY <1>3, <2>1, <2>3, GoalAt
  <2>5. ASSUME NEW x, ColumnAsked(x, t, u) PROVE x \in D
    BY <2>1, <2>5 DEF Asked
  <2> HIDE DEF e, t, u
  <2>6. CASE Has(u.fields, c) /\ ~Has(t.fields, c)
    <3> DEFINE f == Named(u.fields, c)
    <3>1. f \in Range(u.fields) /\ f.name = c
      BY <2>2, <2>6, NamesFind
    <3>2. AddColumn(t.name, f) \in D
      BY <2>5, <2>6, <3>1 DEF ColumnAsked
    <3>3. AddColumn(t.name, f).table = n /\ ColumnOf(AddColumn(t.name, f)) = c
      BY <2>1, <3>1 DEF AddColumn, ColumnOf
    <3> QED BY <3>2, <3>3 DEF Concerned
  <2>7. CASE Has(t.fields, c) /\ ~Has(u.fields, c)
    <3> DEFINE f == Named(t.fields, c)
    <3>1. f \in Range(t.fields) /\ f.name = c
      BY <2>2, <2>7, NamesFind
    <3>2. DropColumn(t.name, f) \in D
      BY <2>5, <2>7, <3>1 DEF ColumnAsked
    <3>3. DropColumn(t.name, f).table = n /\ ColumnOf(DropColumn(t.name, f)) = c
      BY <2>1, <3>1 DEF DropColumn, ColumnOf
    <3> QED BY <3>2, <3>3 DEF Concerned
  <2>8. CASE Has(t.fields, c) /\ Has(u.fields, c)
    <3> DEFINE f == Named(t.fields, c)
               x == AlterColumn(t.name, f.name, Named(u.fields, f.name).type)
    <3>1. f \in Range(t.fields) /\ f.name = c
      BY <2>2, <2>8, NamesFind
    <3>2. Named(u.fields, c).type # f.type
      <4>1. IsColumn(d[n][c])
        BY <1>3, <2>3, <2>8 DEF LikeSchema, IsDatabase, IsTable
      <4> QED BY <1>3, <2>3, <2>4, <2>8, <4>1 DEF SameAt, IsColumn
    <3>3. ColumnAsked(x, t, u)
      BY <2>8, <3>1, <3>2 DEF ColumnAsked
    <3>4. x.table = n /\ ColumnOf(x) = c
      BY <2>1, <3>1 DEF AlterColumn, ColumnOf
    <3> HIDE DEF x
    <3> QED BY <2>5, <3>3, <3>4 DEF Concerned
  <2>9. ~Has(t.fields, c) /\ ~Has(u.fields, c) => FALSE
    BY <1>3, <2>3 DEF SameAt
  <2> QED BY <2>6, <2>7, <2>8, <2>9
<1> QED BY <1>2, <1>3 DEF Covers

\* Run on a database that is like the schema it starts from, a list of all the statements
\* asked for, in whatever order, makes it like the schema it goes to.
THEOREM PlansReachTheirGoal ==
  ASSUME NEW d, NEW before, NEW after, IsSchema(before), IsSchema(after), LikeSchema(d, before),
         NEW p, IsSeq(p), \A x : x \in Range(p) <=> Asked(x, before, after)
  PROVE  Ran(d, p, Len(p)) = Goal(d, after) /\ LikeSchema(Goal(d, after), after)
<1> DEFINE e == Goal(d, after)
           n == Len(p)
<1>1. LikeSchema(e, after)
  BY GoalAt
<1>2. IsDatabase(d) /\ IsDatabase(e)
  BY <1>1 DEF LikeSchema
<1>3. n \in Nat /\ {p[i] : i \in 1 .. n} = Range(p)
  BY SeqFacts DEF Range
<1>4. \A i \in 1 .. n : Fits(p[i], d, e)
  BY AskedFits, SeqFacts
<1>5. Covers({p[i] : i \in 1 .. n}, d, e)
  BY <1>3, AskedCovers
<1> HIDE DEF e, n
<1>6. Ran(d, p, n) = e
  BY <1>2, <1>3, <1>4, <1>5, PlanLeads
<1> QED BY <1>1, <1>6 DEF e, n

----------------------------------------------------------------------------
(* Plans on any database.                                                  *)

\* A statement leaves tables and columns what they are.
LEMMA EffectIsDatabase ==
  ASSUME NEW d, NEW s, IsDatabase(d)
  PROVE  IsDatabase(Effect(d, s))
<1> DEFINE n == s.table
           e == Effect(d, s)
<1>1. IsMap(d) /\ IsMap(e) /\ \A t \in DOMAIN d : IsTable(d[t])
  BY EffectIsMap DEF IsDatabase
<1>2. ASSUME NEW t \in DOMAIN e, t # n PROVE IsTable(e[t])
  BY <1>1, <1>2, EffectElsewhere DEF SameAt
<1>3. ASSUME n \in DOMAIN e PROVE IsTable(e[n])
  <2>1. CASE s.op = "create_table"
    BY <1>3, <2>1, ColumnsAt DEF Effect
  <2>2. CASE s.op = "drop_table"
    BY <1>3, <2>2 DEF Effect
  <2>3. CASE s.op = "add_column"
    <3>1. n \in DOMAIN d /\ e[n] = WithColumn(d[n], s.field)
      BY <1>1, <1>3, <2>3 DEF Effect
    <3> HIDE DEF e, n
    <3>2. \A a, b : IsColumn([type |-> a, nullable |-> b])
      BY DEF IsColumn
    <3> QED BY <1>1, <3>1, <3>2 DEF WithColumn, IsTable, IsMap
  <2>4. CASE s.op = "drop_column"
    <3>1. n \in DOMAIN d /\ e[n] = [c \in DOMAIN d[n] \ {s.column} |-> d[n][c]]
      BY <1>1, <1>3, <2>4 DEF Effect
    <3> HIDE DEF e, n
    <3> QED BY <1>1, <3>1 DEF IsTable, IsMap
  <2>5. CASE s.op \notin {"create_table", "drop_table", "add_column", "drop_column"}
    <3> DEFINE k == s.column
               v == s.type
    <3>1. n \in DOMAIN d /\ e[n] = [d[n] EXCEPT ![k].type = v]
      BY <1>1, <1>3, <2>5 DEF Effect
    <3> HIDE DEF e, n, k, v
    <3>2. IsTable(d[n])
      BY <1>1, <3>1
    <3>3. CASE k \in DOMAIN d[n]
      <4>1. e[n] = [c \in DOMAIN d[n] |-> IF c = k THEN [d[n][k] EXCEPT !.type = v] ELSE d[n][c]]
        BY <3>1, <3>2, <3>3 DEF IsTable, IsMap
      <4>2. [d[n][k] EXCEPT !.type = v] = [type |-> v, nullable |-> d[n][k].nullable]
        <5>1. d[n][k] = [type |-> d[n][k].type, nullable |-> d[n][k].nullable]
          BY <3>2, <3>3 DEF IsTable, IsColumn
        <5>2. \A a, b : [[type |-> a, nullable |-> b] EXCEPT !.type = v] = [type |-> v, nullable |-> b]
          OBVIOUS
        <5> QED BY <5>1, <5>2
      <4>3. \A a, b : IsColumn([type |-> a, nullable |-> b])
        BY DEF IsColumn
      <4> QED BY <3>2, <4>1, <4>2, <4>3 DEF IsTable, IsMap
    <3>4. CASE k \notin DOMAIN d[n]
      <4>1. e[n] = d[n]
        BY <3>1, <3>2, <3>4 DEF IsTable, IsMap
      <4> QED BY <3>2, <4>1
    <3> QED BY <3>3, <3>4
  <2> QED BY <2>1, <2>2, <2>3, <2>4, <2>5
<1> HIDE DEF e
<1>4. IsDatabase(e)
  BY <1>1, <1>2, <1>3 DEF IsDatabase
<1> QED BY <1>4 DEF e

LEMMA RanIsDatabase ==
  ASSUME NEW d, NEW p, NEW n \in Nat, IsDatabase(d)
  PROVE  IsDatabase(Ran(d, p, n))
<1> DEFINE S == {m \in Nat : IsDatabase(Ran(d, p, m))}
<1>1. 0 \in S
  BY RanSteps
<1>2. ASSUME NEW m \in Nat, m \in S PROVE m + 1 \in S
  <2>1. Ran(d, p, m + 1) = Effect(Ran(d, p, m), p[m + 1])
    BY RanSteps
  <2> QED BY <1>2, <2>1, EffectIsDatabase
<1>3. n \in S
  <2> HIDE DEF S
  <2> QED BY <1>1, <1>2, EveryNumber
<1> QED BY <1>3

\* Statement s drops a table, or a column.
Drops(s, t) == s.op = "drop_table" /\ s.table = t
DropsColumn(s, t, c) == s.op = "drop_column" /\ s.table = t /\ s.column = c

\* Tables and columns are lost by being dropped.
LEMMA TableLeft ==
  ASSUME NEW d, NEW p, NEW n \in Nat, IsMap(d), NEW t \in DOMAIN d,
         \A i \in 1 .. n : ~Drops(p[i], t)
  PROVE  t \in DOMAIN Ran(d, p, n)
<1> DEFINE S == {m \in Nat : m <= n => IsMap(Ran(d, p, m)) /\ t \in DOMAIN Ran(d, p, m)}
<1>1. 0 \in S
  BY RanSteps
<1>2. ASSUME NEW m \in Nat, m \in S PROVE m + 1 \in S
  <2> DEFINE f == Ran(d, p, m)
             s == p[m + 1]
  <2>0. Ran(d, p, m + 1) = Effect(f, s)
    BY RanSteps
  <2>1. SUFFICES ASSUME m + 1 <= n PROVE IsMap(Effect(f, s)) /\ t \in DOMAIN Effect(f, s)
    BY <2>0
  <2>2. IsMap(f) /\ t \in DOMAIN f /\ ~Drops(s, t)
    BY <1>2, <2>1
  <2> HIDE DEF f, s
  <2>3. t \in DOMAIN Effect(f, s)
    BY <2>2 DEF IsMap, Effect, Drops
  <2> QED BY <2>2, <2>3, EffectIsMap
<1>3. n \in S
  <2> HIDE DEF S
  <2> QED BY <1>1, <1>2, EveryNumber
<1> QED BY <1>3

LEMMA ColumnLeft ==
  ASSUME NEW d, NEW p, NEW n \in Nat, IsDatabase(d), NEW t \in DOMAIN d, NEW c \in DOMAIN d[t],
         \A i \in 1 .. n : /\ ~Drops(p[i], t) /\ ~DropsColumn(p[i], t, c)
                           /\ ~Refused(Ran(d, p, i - 1), {}, p[i])
  PROVE  t \in DOMAIN Ran(d, p, n) /\ c \in DOMAIN Ran(d, p, n)[t]
<1> DEFINE S == {m \in Nat : m <= n => t \in DOMAIN Ran(d, p, m) /\ c \in DOMAIN Ran(d, p, m)[t]}
<1>1. 0 \in S
  BY RanSteps
<1>2. ASSUME NEW m \in Nat, m \in S PROVE m + 1 \in S
  <2> DEFINE f == Ran(d, p, m)
             s == p[m + 1]
  <2>0. Ran(d, p, m + 1) = Effect(f, s)
    BY RanSteps
  <2>1. SUFFICES ASSUME m + 1 <= n PROVE t \in DOMAIN Effect(f, s) /\ c \in DOMAIN Effect(f, s)[t]
    BY <2>0
  <2>2. t \in DOMAIN f /\ c \in DOMAIN f[t] /\ ~Drops(s, t) /\ ~DropsColumn(s, t, c)
    BY <1>2, <2>1
  <2>3. ~Refused(f, {}, s)
    <3>1. (m + 1) - 1 = m /\ m + 1 \in 1 .. n
      BY <2>1
    <3> QED BY <3>1
  <2>4. IsMap(f) /\ IsMap(f[t])
    <3>1. IsDatabase(f)
      BY RanIsDatabase
    <3> QED BY <2>2, <3>1 DEF IsDatabase, IsTable
  <2> HIDE DEF f, s
  <2>5. CASE s.table # t
    BY <2>2, <2>4, <2>5, EffectElsewhere DEF SameAt
  <2>6. CASE s.table = t
    <3>1. t \in DOMAIN Effect(f, s)
      BY <2>2, <2>4 DEF IsMap, Effect, Drops
    <3>2. s.op # "create_table" /\ s.op # "drop_table"
      BY <2>2, <2>3, <2>6 DEF Refused, Drops
    <3>3. c \in DOMAIN Effect(f, s)[t]
      BY <2>2, <2>4, <2>6, <3>2 DEF IsMap, Effect, DropsColumn, WithColumn
    <3> QED BY <3>1, <3>3
  <2> QED BY <2>5, <2>6
<1>3. n \in S
  <2> HIDE DEF S
  <2> QED BY <1>1, <1>2, EveryNumber
<1> QED BY <1>3

\* A table that is dropped and never created again is gone.
LEMMA TableGone ==
  ASSUME NEW d, NEW p, NEW n \in Nat, IsMap(d), NEW t, NEW k \in 1 .. n, Drops(p[k], t),
         \A i \in 1 .. n : ~(p[i].op = "create_table" /\ p[i].table = t)
  PROVE  t \notin DOMAIN Ran(d, p, n)
<1> DEFINE S == {m \in Nat : m <= n => IsMap(Ran(d, p, m)) /\ (k <= m => t \notin DOMAIN Ran(d, p, m))}
<1>1. 0 \in S
  BY RanSteps
<1>2. ASSUME NEW m \in Nat, m \in S PROVE m + 1 \in S
  <2> DEFINE f == Ran(d, p, m)
             s == p[m + 1]
  <2>0. Ran(d, p, m + 1) = Effect(f, s)
    BY RanSteps
  <2>1. SUFFICES ASSUME m + 1 <= n
                 PROVE  IsMap(Effect(f, s)) /\ (k <= m + 1 => t \notin DOMAIN Effect(f, s))
    BY <2>0
  <2>2. IsMap(f) /\ (k <= m => t \notin DOMAIN f) /\ ~(s.op = "create_table" /\ s.table = t)
    BY <1>2, <2>1
  <2>3. k <= m + 1 => k <= m \/ Drops(s, t)
    OBVIOUS
  <2> HIDE DEF f, s
  <2>4. IsMap(Effect(f, s))
    BY <2>2, EffectIsMap
  <2>5. ASSUME k <= m + 1 PROVE t \notin DOMAIN Effect(f, s)
    <3>1. CASE Drops(s, t)
      BY <2>2, <3>1 DEF IsMap, Effect, Drops
    <3>2. CASE t \notin DOMAIN f
      BY <2>2, <3>2 DEF IsMap, Effect
    <3> QED BY <2>2, <2>3, <2>5, <3>1, <3>2
  <2> QED BY <2>4, <2>5
<1>3. n \in S
  <2> HIDE DEF S
  <2> QED BY <1>1, <1>2, EveryNumber
<1> QED BY <1>3

\* In a plan only the statement of a drop drops, and what is dropped is not created.
LEMMA AskedDrops ==
  ASSUME NEW before, NEW after, IsSchema(before), IsSchema(after), NEW x, Asked(x, before, after), NEW t
  PROVE  /\ Drops(x, t) => x = DropTable(t) /\ Has(before, t)
         /\ \A c : DropsColumn(x, t, c) => x = DropColumn(t, [name |-> c])
         /\ x.op = "create_table" /\ x.table = t => ~Has(before, t)
<1>1. \A u \in Range(before) : Has(before, u.name)
  BY NamesFind DEF IsSchema
<1>2. CASE \E u \in Range(after) : ~Has(before, u.name) /\ x = CreateTable(u)
  BY <1>2 DEF CreateTable, Drops, DropsColumn
<1>3. CASE \E u \in Range(before) : ~Has(after, u.name) /\ x = DropTable(u.name)
  BY <1>1, <1>3 DEF DropTable, Drops, DropsColumn
<1>4. CASE \E u \in Range(before) : Has(after, u.name) /\ ColumnAsked(x, u, Named(after, u.name))
  <2>1. PICK n, f, k, v : x = AddColumn(n, f) \/ x = DropColumn(n, f) \/ x = AlterColumn(n, k, v)
    BY <1>4 DEF ColumnAsked
  <2>2. x = AddColumn(n, f) => x.op = "add_column"
    BY DEF AddColumn
  <2>3. x = DropColumn(n, f) => x.op = "drop_column" /\ x.table = n /\ x.column = f.name
    BY DEF DropColumn
  <2>4. x = AlterColumn(n, k, v) => x.op = "alter_column"
    BY DEF AlterColumn
  <2>5. DropColumn(n, f) = DropColumn(n, [name |-> f.name])
    BY DEF DropColumn
  <2> QED BY <2>1, <2>2, <2>3, <2>4, <2>5 DEF Drops, DropsColumn
<1> QED BY <1>2, <1>3, <1>4 DEF Asked

----------------------------------------------------------------------------
(* Plans.                                                                  *)

\* Postgres refuses the abstract migration what it refuses the detailed one.
LEMMA SameRefusals ==
  ASSUME NEW d, NEW s
  PROVE  Atomic!Refused(d, {}, s) <=> Refused(d, {}, s)
BY DEF Refused, Atomic!Refused, CanCast, Atomic!CanCast, Range, Atomic!Range

\* The abstract specification runs plans in the same way.
LEMMA AfterIsRan ==
  ASSUME NEW p, NEW n \in Nat
  PROVE  Atomic!After(p, n) = Ran(db, p, n)
BY DEF Atomic!After, Ran, IsRun, Atomic!Effect, Effect, Atomic!Columns, Columns,
       Atomic!WithColumn, WithColumn, Atomic!Named, Named

----------------------------------------------------------------------------
(* The invariant.                                                          *)

Jobs == [kind : {"migrate", "replay"}, from : Nat, to : Nat,
         options : {r.options : r \in Requests} \cup {NoOptions}]
Runs == [call : Call, from : Nat, to : Nat]
Rows == [run : Runs, statement : Nat, status : {"blocked", "success", "failure"}]

\* Where a call holds a connection, and where its transaction has done something.
Holding == {"begin", "run", "audit", "audit_failure", "commit", "rollback"}
Working == {"run", "audit", "commit"}

\* Where a call is between its migrations' plans, and where one is under way.
Planned == {"connect"} \cup Holding
Before == {"plan", "connect", "begin", "run", "audit", "audit_failure", "commit", "blocked"}

Stages == {"idle", "start", "next", "plan", "blocked", "connect"} \cup Holding \cup Ended

Types ==
  /\ published \in 1 .. Len(SchemaOf)
  /\ pc \in [Call -> Stages]
  /\ job \in [Call -> Jobs]
  /\ DOMAIN plan = Call /\ plan = [c \in Call |-> plan[c]]
  /\ sent \in [Call -> Nat]
  /\ conn \in [Call -> Connection \cup {NoConnection}]
  /\ DOMAIN tx = Connection /\ tx = [k \in Connection |-> tx[k]]
  /\ db = [t \in DOMAIN db |-> db[t]]
  /\ audits \cup lostAudits \subseteq Rows
  /\ committed \subseteq Runs

\* A connection is held by one call, from pool.connect() to release(), and clean
\* outside of it.
Pooled ==
  /\ \A c \in Call : pc[c] \in Holding <=> conn[c] # NoConnection
  /\ \A c, d \in Call : conn[c] = conn[d] /\ conn[c] # NoConnection => c = d
  /\ IdleConnectionsClean
  /\ \A c \in Call : pc[c] = "begin" => tx[conn[c]] = NoTx
  /\ \A c \in Call : pc[c] \in {"begin"} \cup Working => conn[c] \notin broken

\* How many statements of its plan c has executed.
Done(c) == IF pc[c] = "audit" THEN sent[c] + 1 ELSE sent[c]

\* What is under way was planned from versions that exist.
FollowsPlan(c) ==
  /\ pc[c] \in Planned => /\ {job[c].from, job[c].to} \subseteq Versions
                          /\ plan[c] = PlanOf[job[c].from][job[c].to]
  /\ pc[c] \in {"connect", "begin"} => sent[c] = 0
  /\ pc[c] = "commit" => sent[c] = Len(plan[c])

\* No two transactions have touched the same table: each lock has one holder.
Isolated ==
  \A c, d \in Call : pc[c] \in Working /\ pc[d] \in Working /\ c # d =>
    tx[conn[c]].touched \cap tx[conn[d]].touched = {}

\* Whatever has been committed since, a transaction sees what it would see if all its
\* statements ran now, and none of them would be refused.
SeesItself(c) ==
  pc[c] \in Working =>
    /\ DOMAIN tx[conn[c]].work \subseteq tx[conn[c]].touched
    /\ View(conn[c]) = Ran(db, plan[c], Done(c))
    /\ \A i \in 1 .. Done(c) :
         /\ plan[c][i].table \in tx[conn[c]].touched
         /\ ~Refused(Ran(db, plan[c], i - 1), {}, plan[c][i])

Isolation == Isolated /\ \A c \in Call : SeesItself(c)

\* The audit rows of the statements answered so far.
Recorded(c) ==
  pc[c] \in Working => \A i \in 1 .. sent[c] :
    [run |-> Run(c), statement |-> i, status |-> "success"] \in audits \cup lostAudits

\* A replay goes on by one version, and what it has committed is behind its cursor;
\* a single migration commits last.
Behind ==
  /\ \A c \in Call : pc[c] = "idle" => job[c].kind = "migrate"
  /\ \A c \in Call : pc[c] \in {"start", "next"} => job[c].kind = "replay"
  /\ \A c \in Call : pc[c] \in Before /\ job[c].kind = "replay" => job[c].to = job[c].from + 1
  /\ \A run \in committed :
       \/ pc[run.call] \in Ended \cup {"rollback"}
       \/ job[run.call].kind = "replay" /\ run.from < job[run.call].from

\* A row that is not of a success is the last a call wants to hear of.
OutOfTheRunning ==
  \A row \in audits : row.status # "success" =>
    pc[row.run.call] \in {"blocked", "rollback", "failed"}

Honest ==
  /\ \A c \in Call : Recorded(c)
  /\ Behind
  /\ OutOfTheRunning
  /\ ReportsHonest

MigrationInv ==
  /\ Types /\ Pooled
  /\ \A c \in Call : FollowsPlan(c)
  /\ Isolation
  /\ Honest

----------------------------------------------------------------------------
(* Initially.                                                              *)

LEMMA InitiallyHolds == Init => MigrationInv
<1> SUFFICES ASSUME Init PROVE MigrationInv
  OBVIOUS
<1> USE NoConnectionAssumption, VersionsAssumption, RequestsAssumption
<1>1. Types
  <2>1. 1 \in DOMAIN SchemaOf
    OBVIOUS
  <2>2. db = Tables(SchemaOf[1])
    BY <2>1 DEF Init, DatabaseAt, Versions
  <2>3. db = [t \in DOMAIN db |-> db[t]]
    BY <2>2 DEF Tables
  <2>4. [kind |-> "migrate", from |-> 0, to |-> 0, options |-> NoOptions] \in Jobs
    BY DEF Jobs
  <2> HIDE DEF Jobs
  <2> QED BY <2>3, <2>4 DEF Init, Types, Stages
<1>2. Pooled
  BY DEF Init, Pooled, IdleConnectionsClean, Idle, Holding, Working
<1>3. \A c \in Call : FollowsPlan(c)
  BY DEF Init, FollowsPlan, Planned, Holding
<1>4. Isolation
  BY DEF Init, Isolation, Isolated, SeesItself, Working
<1>5. Honest
  BY DEF Init, Honest, Recorded, Behind, OutOfTheRunning, ReportsHonest, Working, Before
<1> QED BY <1>1, <1>2, <1>3, <1>4, <1>5 DEF MigrationInv

----------------------------------------------------------------------------
(* Types, connections and plans.                                           *)

\* The two changes a replay makes to its request.
LEMMA JobChanges ==
  ASSUME NEW j \in Jobs, NEW n \in Nat
  PROVE  /\ j.from \in Nat /\ j.to \in Nat /\ j.kind \in {"migrate", "replay"}
         /\ [j EXCEPT !.to = n] \in Jobs
         /\ [j EXCEPT !.to = n].to = n
         /\ [j EXCEPT !.to = n].from = j.from /\ [j EXCEPT !.to = n].kind = j.kind
         /\ [j EXCEPT !.from = n] \in Jobs
         /\ [j EXCEPT !.from = n].from = n
         /\ [j EXCEPT !.from = n].to = j.to /\ [j EXCEPT !.from = n].kind = j.kind
BY DEF Jobs

LEMMA Continues ==
  ASSUME Types, NEW c \in Call, Continue(c)
  PROVE  /\ pc' \in [Call -> Stages] /\ job' \in [Call -> Jobs]
         /\ \A d \in Call : d # c => pc'[d] = pc[d] /\ job'[d] = job[d]
         /\ job'[c].from = job[c].to /\ job'[c].to = job[c].to /\ job'[c].kind = job[c].kind
         /\ pc'[c] = IF job[c].kind = "replay" THEN "next" ELSE "applied"
<1> DEFINE j == [job[c] EXCEPT !.from = job[c].to]
<1>1. job[c] \in Jobs /\ job[c].to \in Nat
  BY JobChanges DEF Types
<1>2. j \in Jobs /\ j.from = job[c].to /\ j.to = job[c].to /\ j.kind = job[c].kind
  BY <1>1, JobChanges
<1>3. job' = [job EXCEPT ![c] = j]
  BY DEF Continue
<1> HIDE DEF j
<1>4. job' \in [Call -> Jobs] /\ job'[c] = j /\ \A d \in Call : d # c => job'[d] = job[d]
  BY <1>2, <1>3 DEF Types
<1>5. /\ pc' \in [Call -> Stages] /\ \A d \in Call : d # c => pc'[d] = pc[d]
      /\ pc'[c] = IF job[c].kind = "replay" THEN "next" ELSE "applied"
  BY DEF Continue, Types, Stages, Ended
<1> QED BY <1>2, <1>4, <1>5

\* What comes of planning a migration.
LEMMA PlanIsMade ==
  ASSUME Types, NEW c \in Call, MakePlan(c)
  PROVE  /\ pc[c] = "plan"
         /\ UNCHANGED <<published, conn, tx, broken, db, audits, committed, lostAudits>>
         /\ pc' \in [Call -> Stages] /\ job' \in [Call -> Jobs] /\ sent' \in [Call -> Nat]
         /\ DOMAIN plan' = Call /\ plan' = [d \in Call |-> plan'[d]]
         /\ \A d \in Call : d # c => /\ pc'[d] = pc[d] /\ job'[d] = job[d]
                                     /\ sent'[d] = sent[d] /\ plan'[d] = plan[d]
         /\ sent'[c] = 0
         /\ \/ Continue(c) /\ plan'[c] = <<>>
            \/ pc'[c] \in {"blocked", "failed"} /\ job'[c] = job[c]
            \/ /\ pc'[c] = "connect" /\ job'[c] = job[c]
               /\ {job[c].from, job[c].to} \subseteq 1 .. published
               /\ plan'[c] = PlanOf[job[c].from][job[c].to]
<1> DEFINE statements == PlanOf[job[c].from][job[c].to]
           blocked == Blocked(statements, job[c].options)
<1>1. /\ pc[c] = "plan" /\ sent' = [sent EXCEPT ![c] = 0]
      /\ UNCHANGED <<published, conn, tx, broken, db, audits, committed, lostAudits>>
  BY DEF MakePlan, history
<1>2. \/ Continue(c) /\ plan' = [plan EXCEPT ![c] = <<>>]
      \/ job' = job /\ pc' = [pc EXCEPT ![c] = "blocked"] /\ plan' = [plan EXCEPT ![c] = blocked]
      \/ /\ job' = job /\ pc' = [pc EXCEPT ![c] = "connect"]
         /\ plan' = [plan EXCEPT ![c] = statements]
         /\ {job[c].from, job[c].to} \subseteq 1 .. published
      \/ job' = job /\ pc' = [pc EXCEPT ![c] = "failed"] /\ plan' = plan
  BY DEF MakePlan
<1> HIDE DEF blocked, statements
<1>3. /\ DOMAIN plan' = Call /\ plan' = [d \in Call |-> plan'[d]]
      /\ \A d \in Call : d # c => plan'[d] = plan[d]
      /\ sent' \in [Call -> Nat] /\ sent'[c] = 0
      /\ \A d \in Call : d # c => sent'[d] = sent[d]
  BY <1>1, <1>2 DEF Types
<1>4. CASE Continue(c) /\ plan' = [plan EXCEPT ![c] = <<>>]
  BY <1>1, <1>3, <1>4, Continues DEF Types
<1>5. CASE job' = job /\ pc' = [pc EXCEPT ![c] = "blocked"]
  BY <1>1, <1>3, <1>5 DEF Types, Stages
<1>6. CASE job' = job /\ pc' = [pc EXCEPT ![c] = "failed"]
  BY <1>1, <1>3, <1>6 DEF Types, Stages, Ended
<1>7. CASE /\ job' = job /\ pc' = [pc EXCEPT ![c] = "connect"]
           /\ plan' = [plan EXCEPT ![c] = statements]
           /\ {job[c].from, job[c].to} \subseteq 1 .. published
  <2>1. plan'[c] = PlanOf[job[c].from][job[c].to]
    BY <1>7 DEF Types, statements
  <2> QED BY <1>1, <1>3, <1>7, <2>1 DEF Types, Stages
<1> QED BY <1>2, <1>4, <1>5, <1>6, <1>7

LEMMA RunIsTyped ==
  ASSUME Types, NEW c \in Call
  PROVE  Run(c) \in Runs
<1>1. job[c].from \in Nat /\ job[c].to \in Nat
  BY JobChanges DEF Types
<1> QED BY <1>1 DEF Run, Runs

LEMMA RowIsTyped ==
  ASSUME Types, NEW c \in Call, NEW status \in {"blocked", "success", "failure"},
         Audit(c, status)
  PROVE  audits' \cup lostAudits' \subseteq Rows
<1>1. [run |-> Run(c), statement |-> sent[c] + 1, status |-> status] \in Rows
  BY RunIsTyped DEF Rows, Types
<1> QED BY <1>1 DEF Audit, Types

LEMMA TypesKept ==
  ASSUME MigrationInv, Next
  PROVE  Types'
<1> USE NoConnectionAssumption, VersionsAssumption, RequestsAssumption DEF Ended, Holding, Stages
<1>0. Types /\ Pooled
  BY DEF MigrationInv
<1>1. ASSUME PublishVersion PROVE Types'
  BY <1>0, <1>1 DEF PublishVersion, Types, callVars, history
<1>2. ASSUME NEW c \in Call, NEW r \in Requests, Begin(c, r) PROVE Types'
  <2>1. r \in Jobs
    BY DEF Jobs
  <2>2. job' \in [Call -> Jobs]
    BY <1>0, <1>2, <2>1 DEF Begin, Types
  <2> QED BY <1>0, <1>2, <2>2 DEF Begin, Types
<1>3. ASSUME NEW c \in Call, ReplayStart(c) PROVE Types'
  BY <1>0, <1>3 DEF ReplayStart, Types, history
<1>4. ASSUME NEW c \in Call, ReplayNext(c) PROVE Types'
  <2> DEFINE j == [job[c] EXCEPT !.to = job[c].from + 1]
  <2>1. j \in Jobs
    <3>1. job[c] \in Jobs
      BY <1>0 DEF Types
    <3>2. job[c].from + 1 \in Nat
      BY <3>1 DEF Jobs
    <3> QED BY <3>1, <3>2, JobChanges
  <2>2. job' = job \/ job' = [job EXCEPT ![c] = j]
    BY <1>4 DEF ReplayNext
  <2> HIDE DEF j
  <2>3. job' \in [Call -> Jobs]
    BY <1>0, <2>1, <2>2 DEF Types
  <2> QED BY <1>0, <1>4, <2>3 DEF ReplayNext, Types, history
<1>5. ASSUME NEW c \in Call, MakePlan(c) PROVE Types'
  BY <1>0, <1>5, PlanIsMade DEF Types
<1>6. ASSUME NEW c \in Call, AuditBlocked(c) PROVE Types'
  BY <1>0, <1>6, RowIsTyped DEF AuditBlocked, Types
<1>7. ASSUME NEW c \in Call, NothingBegun(c) PROVE Types'
  BY <1>0, <1>7 DEF NothingBegun, Types
<1>8. ASSUME NEW c \in Call, Connect(c) PROVE Types'
  BY <1>0, <1>8 DEF Connect, Idle, Types, history
<1>9. ASSUME NEW c \in Call, BeginTx(c) PROVE Types'
  <2>1. PICK v : tx' = [tx EXCEPT ![conn[c]] = v]
    BY <1>9 DEF BeginTx, LoseConnection
  <2>2. DOMAIN tx' = Connection /\ tx' = [k \in Connection |-> tx'[k]]
    BY <1>0, <2>1 DEF Types
  <2>3. /\ pc' \in [Call -> Stages]
        /\ UNCHANGED <<published, job, plan, sent, conn, db, audits, committed, lostAudits>>
    <3>1. /\ pc' = [pc EXCEPT ![c] = "run"] \/ pc' = [pc EXCEPT ![c] = "rollback"]
          /\ UNCHANGED <<published, job, plan, sent, conn, db, audits, committed, lostAudits>>
      BY <1>9 DEF BeginTx
    <3> QED BY <1>0, <3>1 DEF Types
  <2> QED BY <1>0, <2>2, <2>3 DEF Types
<1>10. ASSUME NEW c \in Call, RunStatement(c) PROVE Types'
  <2>1. PICK v : tx' = [tx EXCEPT ![conn[c]] = v]
    BY <1>10 DEF RunStatement, LoseConnection
  <2>2. DOMAIN tx' = Connection /\ tx' = [k \in Connection |-> tx'[k]]
    BY <1>0, <2>1 DEF Types
  <2> QED BY <1>0, <1>10, <2>2 DEF RunStatement, Types, history
<1>11. ASSUME NEW c \in Call, StatementFails(c) PROVE Types'
  BY <1>0, <1>11 DEF StatementFails, LoseConnection, Types
<1>12. ASSUME NEW c \in Call, AuditSuccess(c) PROVE Types'
  BY <1>0, <1>12, RowIsTyped DEF AuditSuccess, Types
<1>13. ASSUME NEW c \in Call, AuditFailure(c) PROVE Types'
  BY <1>0, <1>13, RowIsTyped DEF AuditFailure, Types
<1>14. ASSUME NEW c \in Call, CommitTx(c) PROVE db' = [t \in DOMAIN db' |-> db'[t]]
  BY <1>14 DEF CommitTx, View
<1>15. ASSUME NEW c \in Call, Commit(c) PROVE Types'
  <2>1. job' \in [Call -> Jobs] /\ pc' \in [Call -> Stages]
    BY <1>0, <1>15, Continues DEF Commit
  <2>2. committed' \subseteq Runs
    BY <1>0, <1>15, RunIsTyped DEF Commit, CommitTx, Types
  <2>3. DOMAIN tx' = Connection /\ tx' = [k \in Connection |-> tx'[k]]
    BY <1>0, <1>15 DEF Commit, CommitTx, Types
  <2> QED BY <1>0, <1>14, <1>15, <2>1, <2>2, <2>3 DEF Commit, Types
<1>16. ASSUME NEW c \in Call, CommitUnanswered(c) PROVE Types'
  <2>1. committed' \subseteq Runs
    BY <1>0, <1>16, RunIsTyped DEF CommitUnanswered, CommitTx, Types
  <2>2. DOMAIN tx' = Connection /\ tx' = [k \in Connection |-> tx'[k]]
    BY <1>0, <1>16 DEF CommitUnanswered, CommitTx, Types
  <2>3. db' = [t \in DOMAIN db' |-> db'[t]]
    BY <1>0, <1>14, <1>16 DEF CommitUnanswered, Types
  <2> QED BY <1>0, <1>16, <2>1, <2>2, <2>3 DEF CommitUnanswered, Types
<1>17. ASSUME NEW c \in Call, RollbackTx(c) PROVE Types'
  <2>1. PICK v : tx' = [tx EXCEPT ![conn[c]] = v]
    BY <1>17 DEF RollbackTx, LoseConnection
  <2>2. DOMAIN tx' = Connection /\ tx' = [k \in Connection |-> tx'[k]]
    BY <1>0, <2>1 DEF Types
  <2> QED BY <1>0, <1>17, <2>2 DEF RollbackTx, Types, history
<1> QED BY <1>1, <1>2, <1>3, <1>4, <1>5, <1>6, <1>7, <1>8, <1>9, <1>10, <1>11, <1>12, <1>13,
           <1>15, <1>16, <1>17 DEF Next, Step

\* A step of a call that keeps the connection it has, or keeps having none.
LEMMA ConnectionStays ==
  ASSUME Types, Pooled, NEW c \in Call, UNCHANGED conn,
         \A d \in Call : d # c => pc'[d] = pc[d],
         pc'[c] \in Holding <=> pc[c] \in Holding,
         \A k \in Connection : k # conn[c] => /\ tx'[k] = tx[k]
                                              /\ k \in broken' <=> k \in broken,
         pc'[c] = "begin" => tx'[conn[c]] = NoTx,
         pc'[c] \in {"begin"} \cup Working => conn[c] \notin broken'
  PROVE  Pooled'
<1> USE NoConnectionAssumption DEF Types
<1>1. ASSUME NEW k \in Connection, \A d \in Call : conn[d] # k
      PROVE  tx'[k] = NoTx /\ k \notin broken'
  BY <1>1 DEF Pooled, IdleConnectionsClean, Idle
<1>2. IdleConnectionsClean'
  BY <1>1 DEF IdleConnectionsClean, Idle
<1>3. ASSUME NEW d \in Call, d # c, pc[d] \in Holding
      PROVE  /\ conn[d] \in Connection /\ conn[d] # conn[c]
             /\ tx'[conn[d]] = tx[conn[d]] /\ (conn[d] \in broken' <=> conn[d] \in broken)
  BY <1>3 DEF Pooled
<1>4. ASSUME NEW d \in Call, pc'[d] = "begin" PROVE tx'[conn[d]] = NoTx
  <2>1. CASE d = c
    BY <1>4, <2>1
  <2>2. CASE d # c
    <3>1. pc[d] = "begin"
      BY <1>4, <2>2
    <3>2. tx[conn[d]] = NoTx
      BY <3>1 DEF Pooled
    <3> QED BY <1>3, <2>2, <3>1, <3>2 DEF Holding
  <2> QED BY <2>1, <2>2
<1>5. \A d \in Call : pc'[d] \in {"begin"} \cup Working => conn[d] \notin broken'
  BY <1>3 DEF Pooled, Holding, Working
<1> QED BY <1>2, <1>4, <1>5 DEF Pooled

\* A step that returns a connection.
LEMMA ConnectionReturned ==
  ASSUME Types, Pooled, NEW c \in Call, pc[c] \in Holding,
         conn' = [conn EXCEPT ![c] = NoConnection],
         \A d \in Call : d # c => pc'[d] = pc[d],
         pc'[c] \in Stages \ Holding,
         tx' = [tx EXCEPT ![conn[c]] = NoTx], broken' = broken \ {conn[c]}
  PROVE  Pooled'
<1> USE NoConnectionAssumption DEF Types
<1>1. conn[c] \in Connection
  BY DEF Pooled
<1>2. ASSUME NEW k \in Connection, \A d \in Call : conn'[d] # k
      PROVE  tx'[k] = NoTx /\ k \notin broken'
  BY <1>1, <1>2 DEF Pooled, IdleConnectionsClean, Idle
<1>3. IdleConnectionsClean'
  BY <1>2 DEF IdleConnectionsClean, Idle
<1>4. ASSUME NEW d \in Call, d # c, pc[d] \in Holding
      PROVE  /\ conn'[d] = conn[d] /\ conn[d] \in Connection /\ conn[d] # conn[c]
             /\ tx'[conn[d]] = tx[conn[d]] /\ (conn[d] \in broken' <=> conn[d] \in broken)
  BY <1>4 DEF Pooled
<1>5. \A d \in Call : pc'[d] \in Holding <=> conn'[d] # NoConnection
  BY DEF Pooled
<1>6. \A d, e \in Call : conn'[d] = conn'[e] /\ conn'[d] # NoConnection => d = e
  BY DEF Pooled
<1>7. ASSUME NEW d \in Call, pc'[d] = "begin" PROVE tx'[conn'[d]] = NoTx
  <2>1. d # c /\ pc[d] = "begin"
    BY <1>7 DEF Holding
  <2>2. tx[conn[d]] = NoTx
    BY <2>1 DEF Pooled
  <2> QED BY <1>4, <2>1, <2>2 DEF Holding
<1>8. \A d \in Call : pc'[d] \in {"begin"} \cup Working => conn'[d] \notin broken'
  BY <1>4 DEF Pooled, Holding, Working
<1> QED BY <1>3, <1>5, <1>6, <1>7, <1>8 DEF Pooled

LEMMA PooledKept ==
  ASSUME MigrationInv, Next
  PROVE  Pooled'
<1>0. Types /\ Pooled
  BY DEF MigrationInv
<1> USE NoConnectionAssumption DEF Holding, Working
<1>1. ASSUME PublishVersion PROVE Pooled'
  BY <1>0, <1>1 DEF PublishVersion, callVars, Pooled, IdleConnectionsClean, Idle
<1>2. ASSUME NEW c \in Call, NEW r \in Requests, Begin(c, r) PROVE Pooled'
  <2>1. /\ UNCHANGED <<conn, tx, broken>> /\ pc[c] = "idle" /\ pc'[c] \in {"start", "plan"}
        /\ \A d \in Call : d # c => pc'[d] = pc[d]
    BY <1>0, <1>2 DEF Begin, Types
  <2> QED BY <1>0, <2>1, ConnectionStays
<1>3. ASSUME NEW c \in Call, ReplayStart(c) \/ ReplayNext(c) \/ NothingBegun(c)
      PROVE  Pooled'
  <2>1. /\ UNCHANGED <<conn, tx, broken>> /\ pc[c] \in {"start", "next", "plan", "connect"}
        /\ pc'[c] \in {"next", "plan", "failed", "applied"}
        /\ \A d \in Call : d # c => pc'[d] = pc[d]
    BY <1>0, <1>3 DEF ReplayStart, ReplayNext, NothingBegun, Types
  <2> QED BY <1>0, <2>1, ConnectionStays
<1>4. ASSUME NEW c \in Call, MakePlan(c) PROVE Pooled'
  <2>1. /\ UNCHANGED <<conn, tx, broken>> /\ pc[c] = "plan"
        /\ pc'[c] \in {"next", "applied", "blocked", "failed", "connect"}
        /\ \A d \in Call : d # c => pc'[d] = pc[d]
    BY <1>0, <1>4, PlanIsMade, Continues
  <2> QED BY <1>0, <2>1, ConnectionStays
<1>5. ASSUME NEW c \in Call, AuditBlocked(c) \/ AuditSuccess(c) \/ AuditFailure(c)
      PROVE  Pooled'
  <2>1. /\ UNCHANGED <<conn, tx, broken>>
        /\ \/ pc[c] = "blocked" /\ pc'[c] \in {"blocked", "failed"}
           \/ pc[c] = "audit" /\ pc'[c] \in {"run", "commit"}
           \/ pc[c] = "audit_failure" /\ pc'[c] = "rollback"
        /\ \A d \in Call : d # c => pc'[d] = pc[d]
    BY <1>0, <1>5 DEF AuditBlocked, AuditSuccess, AuditFailure, Types
  <2>2. pc[c] = "audit" => conn[c] \notin broken
    BY <1>0 DEF Pooled
  <2> QED BY <1>0, <2>1, <2>2, ConnectionStays
<1>6. ASSUME NEW c \in Call, Connect(c) PROVE Pooled'
  <2>1. PICK k \in Idle : conn' = [conn EXCEPT ![c] = k]
    BY <1>6 DEF Connect
  <2>2. /\ UNCHANGED <<tx, broken>> /\ pc[c] = "connect" /\ pc' = [pc EXCEPT ![c] = "begin"]
        /\ k \in Connection /\ tx[k] = NoTx /\ k \notin broken
        /\ \A d \in Call : conn[d] # k
    BY <1>0, <1>6 DEF Connect, Pooled, IdleConnectionsClean, Idle
  <2>3. /\ pc'[c] = "begin" /\ conn'[c] = k
        /\ \A d \in Call : d # c => pc'[d] = pc[d] /\ conn'[d] = conn[d]
    BY <1>0, <2>1, <2>2 DEF Types
  <2>4. ASSUME NEW l \in Connection, \A d \in Call : conn'[d] # l
        PROVE  tx'[l] = NoTx /\ l \notin broken'
    <3>1. conn[c] = NoConnection
      BY <1>0, <2>2 DEF Pooled
    <3>2. \A d \in Call : conn[d] # l
      BY <2>3, <2>4, <3>1
    <3> QED BY <1>0, <2>2, <3>2 DEF Pooled, IdleConnectionsClean, Idle
  <2>5. IdleConnectionsClean'
    BY <2>4 DEF IdleConnectionsClean, Idle
  <2> QED BY <1>0, <2>2, <2>3, <2>5 DEF Pooled
<1>7. ASSUME NEW c \in Call, BeginTx(c) PROVE Pooled'
  <2>1. /\ UNCHANGED conn /\ pc[c] = "begin" /\ pc'[c] \in {"run", "rollback"}
        /\ \A d \in Call : d # c => pc'[d] = pc[d]
        /\ broken' = broken \/ broken' = broken \cup {conn[c]}
        /\ pc'[c] = "run" => broken' = broken
    BY <1>0, <1>7 DEF BeginTx, LoseConnection, Types
  <2>2. PICK v : tx' = [tx EXCEPT ![conn[c]] = v]
    BY <1>7 DEF BeginTx, LoseConnection
  <2>3. \A k \in Connection : k # conn[c] => tx'[k] = tx[k]
    BY <1>0, <2>2 DEF Types
  <2>4. conn[c] \notin broken
    BY <1>0, <2>1 DEF Pooled
  <2> QED BY <1>0, <2>1, <2>3, <2>4, ConnectionStays
<1>8. ASSUME NEW c \in Call, RunStatement(c) PROVE Pooled'
  <2>1. /\ UNCHANGED <<conn, broken>> /\ pc[c] = "run" /\ pc'[c] = "audit"
        /\ \A d \in Call : d # c => pc'[d] = pc[d]
    BY <1>0, <1>8 DEF RunStatement, Types
  <2>2. PICK v : tx' = [tx EXCEPT ![conn[c]] = v]
    BY <1>8 DEF RunStatement
  <2>3. \A k \in Connection : k # conn[c] => tx'[k] = tx[k]
    BY <1>0, <2>2 DEF Types
  <2>4. conn[c] \notin broken
    BY <1>0, <2>1 DEF Pooled
  <2> QED BY <1>0, <2>1, <2>3, <2>4, ConnectionStays
<1>9. ASSUME NEW c \in Call, StatementFails(c) PROVE Pooled'
  <2>1. /\ UNCHANGED conn /\ pc[c] = "run" /\ pc'[c] = "audit_failure"
        /\ \A d \in Call : d # c => pc'[d] = pc[d]
        /\ broken' = broken \/ broken' = broken \cup {conn[c]}
    BY <1>0, <1>9 DEF StatementFails, LoseConnection, Types
  <2>2. PICK v : tx' = [tx EXCEPT ![conn[c]] = v]
    BY <1>9 DEF StatementFails, LoseConnection
  <2>3. \A k \in Connection : k # conn[c] => tx'[k] = tx[k]
    BY <1>0, <2>2 DEF Types
  <2> QED BY <1>0, <2>1, <2>3, ConnectionStays
<1>10. ASSUME NEW c \in Call, Commit(c) PROVE Pooled'
  <2>1. /\ conn' = [conn EXCEPT ![c] = NoConnection] /\ pc[c] = "commit"
        /\ tx' = [tx EXCEPT ![conn[c]] = NoTx] /\ broken' = broken
    BY <1>10 DEF Commit, CommitTx
  <2>2. \A d \in Call : d # c => pc'[d] = pc[d]
    BY <1>0, <1>10, Continues DEF Commit
  <2>3. pc'[c] \in {"next", "applied"}
    BY <1>0, <1>10, Continues DEF Commit
  <2>4. broken' = broken \ {conn[c]}
    BY <1>0, <2>1 DEF Pooled
  <2> QED BY <1>0, <2>1, <2>2, <2>3, <2>4, ConnectionReturned DEF Stages, Ended
<1>11. ASSUME NEW c \in Call, CommitUnanswered(c) PROVE Pooled'
  <2>1. /\ UNCHANGED conn /\ pc[c] = "commit" /\ pc'[c] = "rollback"
        /\ \A d \in Call : d # c => pc'[d] = pc[d]
        /\ broken' = broken \cup {conn[c]}
    BY <1>0, <1>11 DEF CommitUnanswered, Types
  <2>2. tx' = [tx EXCEPT ![conn[c]] = NoTx]
    BY <1>11 DEF CommitUnanswered, CommitTx
  <2>3. \A k \in Connection : k # conn[c] => tx'[k] = tx[k]
    BY <1>0, <2>2 DEF Types
  <2> QED BY <1>0, <2>1, <2>3, ConnectionStays
<1>12. ASSUME NEW c \in Call, RollbackTx(c) PROVE Pooled'
  <2>1. /\ conn' = [conn EXCEPT ![c] = NoConnection] /\ pc[c] = "rollback"
        /\ tx' = [tx EXCEPT ![conn[c]] = NoTx] /\ broken' = broken \ {conn[c]}
        /\ pc'[c] = "failed" /\ \A d \in Call : d # c => pc'[d] = pc[d]
    BY <1>0, <1>12 DEF RollbackTx, Types
  <2> QED BY <1>0, <2>1, ConnectionReturned DEF Stages, Ended
<1> QED BY <1>1, <1>2, <1>3, <1>4, <1>5, <1>6, <1>7, <1>8, <1>9, <1>10, <1>11, <1>12 DEF Next, Step

\* A step of one call leaves the others where they are.
LEMMA OthersStay ==
  ASSUME Types, NEW c \in Call, Step(c) \/ \E r \in Requests : Begin(c, r),
         NEW d \in Call, d # c
  PROVE  /\ pc'[d] = pc[d] /\ job'[d] = job[d] /\ plan'[d] = plan[d] /\ sent'[d] = sent[d]
         /\ conn'[d] = conn[d]
<1>1. CASE MakePlan(c)
  BY <1>1, PlanIsMade
<1>2. CASE Commit(c)
  <2>1. pc'[d] = pc[d] /\ job'[d] = job[d] /\ UNCHANGED <<plan, sent>>
    BY <1>2, Continues DEF Commit
  <2>2. conn'[d] = conn[d]
    BY <1>2 DEF Commit, Types
  <2> QED BY <2>1, <2>2
<1>3. CASE ReplayStart(c) \/ ReplayNext(c) \/ AuditBlocked(c) \/ NothingBegun(c)
  BY <1>3 DEF ReplayStart, ReplayNext, AuditBlocked, NothingBegun, Types
<1>4. CASE Connect(c)
  <2>1. PICK k : conn' = [conn EXCEPT ![c] = k]
    BY <1>4 DEF Connect
  <2> QED BY <1>4, <2>1 DEF Connect, Types
<1>5. CASE BeginTx(c) \/ RunStatement(c) \/ StatementFails(c)
  BY <1>5 DEF BeginTx, RunStatement, StatementFails, Types
<1>6. CASE AuditSuccess(c) \/ AuditFailure(c)
  BY <1>6 DEF AuditSuccess, AuditFailure, Types
<1>7. CASE CommitUnanswered(c) \/ RollbackTx(c)
  BY <1>7 DEF CommitUnanswered, RollbackTx, Types
<1>8. CASE \E r \in Requests : Begin(c, r)
  BY <1>8 DEF Begin, Types
<1> QED BY <1>1, <1>2, <1>3, <1>4, <1>5, <1>6, <1>7, <1>8 DEF Step

LEMMA PlanStays ==
  ASSUME NEW c \in Call, FollowsPlan(c), pc'[c] = pc[c], job'[c] = job[c],
         plan'[c] = plan[c], sent'[c] = sent[c]
  PROVE  FollowsPlan(c)'
BY DEF FollowsPlan

\* A step within a migration.
LEMMA PlanGoesOn ==
  ASSUME Types, NEW c \in Call, FollowsPlan(c), pc[c] \in Planned, UNCHANGED <<job, plan>>,
         pc'[c] \in {"connect", "begin"} => sent'[c] = 0,
         pc'[c] = "commit" => sent'[c] = Len(plan[c])
  PROVE  FollowsPlan(c)'
BY DEF FollowsPlan

LEMMA PlansKept ==
  ASSUME MigrationInv, Next, NEW d \in Call
  PROVE  FollowsPlan(d)'
<1>0. Types /\ FollowsPlan(d)
  BY DEF MigrationInv
<1> USE DEF Holding, Planned
<1>1. ASSUME PublishVersion PROVE FollowsPlan(d)'
  BY <1>0, <1>1, PlanStays DEF PublishVersion, callVars
<1>2. ASSUME NEW c \in Call, c # d, Step(c) \/ \E r \in Requests : Begin(c, r)
      PROVE  FollowsPlan(d)'
  BY <1>0, <1>2, OthersStay, PlanStays
<1>3. ASSUME ReplayStart(d) \/ ReplayNext(d) \/ AuditBlocked(d) \/ NothingBegun(d) \/ RollbackTx(d)
             \/ \E r \in Requests : Begin(d, r)
      PROVE  FollowsPlan(d)'
  <2>1. pc'[d] \in {"next", "plan", "applied", "blocked", "failed", "start"}
    BY <1>0, <1>3 DEF ReplayStart, ReplayNext, AuditBlocked, NothingBegun, RollbackTx, Begin, Types
  <2> QED BY <2>1 DEF FollowsPlan
<1>4. ASSUME MakePlan(d) PROVE FollowsPlan(d)'
  <2>1. CASE pc'[d] = "connect"
    <3>1. /\ job'[d] = job[d] /\ sent'[d] = 0
          /\ {job[d].from, job[d].to} \subseteq 1 .. published
          /\ plan'[d] = PlanOf[job[d].from][job[d].to]
      BY <1>0, <1>4, <2>1, PlanIsMade, Continues
    <3>2. 1 .. published \subseteq Versions
      BY <1>0, VersionsAssumption DEF Types, Versions
    <3> QED BY <2>1, <3>1, <3>2 DEF FollowsPlan
  <2>2. CASE pc'[d] # "connect"
    <3>1. pc'[d] \in {"next", "applied", "blocked", "failed"}
      BY <1>0, <1>4, <2>2, PlanIsMade, Continues
    <3> QED BY <3>1 DEF FollowsPlan
  <2> QED BY <2>1, <2>2
<1>5. ASSUME Connect(d) PROVE FollowsPlan(d)'
  <2>1. pc[d] = "connect" /\ pc'[d] = "begin" /\ sent' = sent /\ UNCHANGED <<job, plan>>
    BY <1>0, <1>5 DEF Connect, Types
  <2>2. sent[d] = 0
    BY <1>0, <2>1 DEF FollowsPlan
  <2> QED BY <1>0, <2>1, <2>2, PlanGoesOn
<1>6. ASSUME BeginTx(d) \/ RunStatement(d) \/ StatementFails(d) \/ AuditFailure(d) \/ CommitUnanswered(d)
      PROVE  FollowsPlan(d)'
  <2>1. /\ pc[d] \in Holding /\ UNCHANGED <<job, plan>>
        /\ pc'[d] \in {"run", "audit", "audit_failure", "rollback"}
    BY <1>0, <1>6 DEF BeginTx, RunStatement, StatementFails, AuditFailure, CommitUnanswered, Types
  <2> QED BY <1>0, <2>1, PlanGoesOn
<1>7. ASSUME AuditSuccess(d) PROVE FollowsPlan(d)'
  <2>1. /\ pc[d] = "audit" /\ UNCHANGED <<job, plan>>
        /\ pc'[d] \in {"run", "commit"} /\ (pc'[d] = "commit" => sent'[d] = Len(plan[d]))
    BY <1>0, <1>7 DEF AuditSuccess, Types
  <2> QED BY <1>0, <2>1, PlanGoesOn
<1>8. ASSUME Commit(d) PROVE FollowsPlan(d)'
  <2>1. pc'[d] \in {"next", "applied"}
    BY <1>0, <1>8, Continues DEF Commit
  <2> QED BY <2>1 DEF FollowsPlan
<1> QED BY <1>1, <1>2, <1>3, <1>4, <1>5, <1>6, <1>7, <1>8 DEF Next, Step

----------------------------------------------------------------------------
(* Transactions do not get in one another's way.                           *)

\* What a transaction sees is its own work where it has touched, and the committed
\* database elsewhere.
LEMMA ViewIsPatched ==
  ASSUME NEW k, DOMAIN tx[k].work \subseteq tx[k].touched
  PROVE  /\ IsMap(View(k))
         /\ \A t : t \notin tx[k].touched => SameAt(View(k), db, t)
         /\ \A t \in tx[k].touched : /\ t \in DOMAIN View(k) <=> t \in DOMAIN tx[k].work
                                     /\ t \in DOMAIN View(k) => View(k)[t] = tx[k].work[t]
BY DEF View, IsMap, SameAt

\* A transaction that does nothing sees the same as long as nobody commits what it has
\* touched.
LEMMA SightStays ==
  ASSUME Types, Types', NEW c \in Call, SeesItself(c), pc'[c] = pc[c], sent'[c] = sent[c],
         plan'[c] = plan[c], conn'[c] = conn[c],
         pc[c] \in Working =>
           /\ tx'[conn[c]] = tx[conn[c]]
           /\ \A t \in tx[conn[c]].touched : SameAt(db, db', t)
  PROVE  SeesItself(c)'
<1> SUFFICES ASSUME pc[c] \in Working PROVE SeesItself(c)'
  BY DEF SeesItself
<1> DEFINE k == conn[c]
           T == tx[k].touched
           p == plan[c]
           n == Done(c)
<1>1. /\ DOMAIN tx[k].work \subseteq T /\ View(k) = Ran(db, p, n)
      /\ \A i \in 1 .. n : p[i].table \in T /\ ~Refused(Ran(db, p, i - 1), {}, p[i])
  BY DEF SeesItself
<1>2. n \in Nat /\ n' = n
  BY DEF Done, Types
<1>3. IsMap(db) /\ IsMap(db')
  BY DEF Types, IsMap
<1>4. \A i \in 0 .. n :
        /\ IsMap(Ran(db, p, i)) /\ IsMap(Ran(db', p, i))
        /\ \A t \in T : SameAt(Ran(db, p, i), Ran(db', p, i), t)
        /\ \A t : t \notin T => SameAt(Ran(db, p, i), db, t) /\ SameAt(Ran(db', p, i), db', t)
  <2> HIDE DEF T, n, p
  <2>1. \A t \in T : SameAt(db, db', t)
    BY DEF T
  <2>2. \A i \in 1 .. n : p[i].table \in T
    BY <1>1
  <2> QED BY <1>2, <1>3, <2>1, <2>2, RanIsLocal
<1>5. ASSUME NEW t PROVE SameAt(View(k)', Ran(db', p, n), t)
  <2>1. SameAt(View(k), Ran(db', p, n), t) \/ t \notin T
    BY <1>1, <1>2, <1>4
  <2>2. t \notin T => SameAt(Ran(db', p, n), db', t)
    BY <1>2, <1>4
  <2>3. t \in T => SameAt(View(k)', View(k), t)
    BY <1>1 DEF View, SameAt
  <2>4. t \notin T => SameAt(View(k)', db', t)
    BY <1>1 DEF View, SameAt
  <2> QED BY <2>1, <2>2, <2>3, <2>4 DEF SameAt
<1>6. View(k)' = Ran(db', p, n)
  <2>1. IsMap(View(k)')
    BY DEF View, IsMap
  <2>2. IsMap(Ran(db', p, n))
    BY <1>2, <1>4
  <2> HIDE DEF k, p, n
  <2> QED BY <1>5, <2>1, <2>2, MapsAreEqual
<1>7. ASSUME NEW i \in 1 .. n PROVE ~Refused(Ran(db', p, i - 1), {}, p[i])
  <2>1. i - 1 \in 0 .. n
    BY <1>2
  <2>2. SameAt(Ran(db, p, i - 1), Ran(db', p, i - 1), p[i].table)
    BY <1>1, <1>4, <2>1
  <2> QED BY <1>1, <2>2, RefusedIsLocal
<1>8. k' = k /\ p' = p /\ T' = T /\ tx'[k].work = tx[k].work /\ pc'[c] \in Working
  OBVIOUS
<1>9. View(conn[c])' = Ran(db', p, n)
  BY <1>6, <1>8 DEF View
<1> HIDE DEF n
<1> QED BY <1>1, <1>2, <1>7, <1>8, <1>9 DEF SeesItself, n

\* A statement that runs is the next of those the transaction has seen.
LEMMA StatementIsSeen ==
  ASSUME Types, Pooled, NEW c \in Call, SeesItself(c), RunStatement(c)
  PROVE  SeesItself(c)' /\ tx'[conn[c]].touched = tx[conn[c]].touched \cup {Statement(c).table}
<1> DEFINE k == conn[c]
           T == tx[k].touched
           p == plan[c]
           n == sent[c]
           s == Statement(c)
           view == Effect(View(k), s)
           U == T \cup {s.table}
           work == [t \in U \cap DOMAIN view |-> view[t]]
<1>1. /\ pc[c] = "run" /\ pc'[c] = "audit" /\ n \in Nat
      /\ UNCHANGED <<plan, sent, conn, db>> /\ ~Refused(View(k), {}, s)
  BY DEF RunStatement, Types, history
<1>2. k \in Connection
  BY <1>1, NoConnectionAssumption DEF Pooled, Types, Holding
<1>3. tx'[k] = [open |-> TRUE, touched |-> U, work |-> work]
  <2>1. tx' = [tx EXCEPT ![k] = [open |-> TRUE, touched |-> U, work |-> work]]
    BY DEF RunStatement
  <2> HIDE DEF k, U, work
  <2> QED BY <1>2, <2>1 DEF Types
<1>4. tx'[k].touched = U /\ tx'[k].work = work
  BY <1>3
<1>5. Done(c) = n /\ Done(c)' = n + 1 /\ s = p[n + 1]
  BY <1>1 DEF Done, Statement
<1>6. /\ DOMAIN tx[k].work \subseteq T /\ View(k) = Ran(db, p, n)
      /\ \A i \in 1 .. n : p[i].table \in T /\ ~Refused(Ran(db, p, i - 1), {}, p[i])
  BY <1>1, <1>5 DEF SeesItself, Working
<1>7. view = Ran(db, p, n + 1)
  <2>1. view = Effect(Ran(db, p, n), p[n + 1])
    BY <1>5, <1>6
  <2>2. n \in Nat
    BY <1>1
  <2>3. Ran(db, p, n + 1) = Effect(Ran(db, p, n), p[n + 1])
    BY <2>2, RanSteps
  <2> QED BY <2>1, <2>3
<1>8. IsMap(view) /\ \A t : t \notin U => SameAt(view, db, t)
  <2>1. IsMap(View(k)) /\ \A t : t \notin T => SameAt(View(k), db, t)
    BY <1>6, ViewIsPatched
  <2>2. IsMap(view)
    BY <2>1, EffectIsMap
  <2>3. ASSUME NEW t, t \notin U PROVE SameAt(view, db, t)
    <3>1. SameAt(view, View(k), t)
      BY <2>1, <2>3, EffectElsewhere
    <3>2. SameAt(View(k), db, t)
      BY <2>1, <2>3
    <3> HIDE DEF view, k
    <3> QED BY <3>1, <3>2 DEF SameAt
  <2> QED BY <2>2, <2>3
<1>9. View(k)' = view
  <2>1. View(k)' = [t \in DOMAIN work \cup (DOMAIN db \ U) |-> IF t \in U THEN work[t] ELSE db[t]]
    BY <1>1, <1>4 DEF View
  <2> HIDE DEF view, U
  <2>2. \A t : SameAt(View(k)', view, t)
    BY <1>8, <2>1 DEF SameAt
  <2>3. IsMap(View(k)')
    BY <2>1 DEF IsMap
  <2> HIDE DEF work, k
  <2> QED BY <1>8, <2>2, <2>3, MapsAreEqual
<1>10. ASSUME NEW i \in 1 .. n + 1
       PROVE  p[i].table \in U /\ ~Refused(Ran(db, p, i - 1), {}, p[i])
  <2>1. CASE i = n + 1
    BY <1>1, <1>5, <1>6, <2>1
  <2>2. CASE i \in 1 .. n
    BY <1>6, <2>2
  <2> QED BY <1>1, <2>1, <2>2
<1>11. DOMAIN work \subseteq U
  OBVIOUS
<1>12. SeesItself(c)'
  <2>1. View(conn[c])' = Ran(db, p, n + 1)
    BY <1>1, <1>7, <1>9 DEF View
  <2> HIDE DEF work, view, U, s
  <2> QED BY <1>1, <1>4, <1>5, <1>10, <1>11, <2>1 DEF SeesItself
<1> QED BY <1>4, <1>12

\* It runs on a table nobody else has touched.
LEMMA TouchIsFree ==
  ASSUME Types, Pooled, Isolated, NEW c \in Call, SeesItself(c), RunStatement(c),
         NEW d \in Call, d # c, pc[d] \in Working
  PROVE  Statement(c).table \notin tx[conn[d]].touched
<1> DEFINE n == Statement(c).table
<1>1. /\ pc[c] = "run" /\ c \notin Waiting /\ ~Refused(View(conn[c]), {}, Statement(c))
  BY DEF RunStatement
<1>2. LockHolders(c) = {}
  BY <1>1 DEF Waiting
<1>3. conn[d] \in Connection \ {conn[c]}
  BY NoConnectionAssumption DEF Pooled, Types, Holding, Working
<1>4. n \in tx[conn[d]].touched => n \notin DOMAIN db /\ Statement(c).op # "create_table"
  BY <1>2, <1>3 DEF LockHolders
<1>5. n \in tx[conn[d]].touched => n \notin tx[conn[c]].touched
  BY <1>1 DEF Isolated, Working
<1>6. Statement(c).op = "create_table" \/ n \in DOMAIN View(conn[c])
  BY <1>1, TableIsThere
<1>7. n \in DOMAIN View(conn[c]) => n \in tx[conn[c]].touched \/ n \in DOMAIN db
  BY <1>1 DEF SeesItself, Working, View
<1> QED BY <1>4, <1>5, <1>6, <1>7

\* Committing changes nothing another transaction has touched.
LEMMA CommitIsOwn ==
  ASSUME Types, Isolated, NEW c \in Call, SeesItself(c), pc[c] = "commit", CommitTx(c),
         NEW d \in Call, d # c, pc[d] \in Working, NEW t \in tx[conn[d]].touched
  PROVE  SameAt(db, db', t)
<1>1. t \notin tx[conn[c]].touched
  BY DEF Isolated, Working
<1>2. SameAt(View(conn[c]), db, t)
  BY <1>1, ViewIsPatched DEF SeesItself, Working
<1>3. db' = View(conn[c])
  BY DEF CommitTx
<1> QED BY <1>2, <1>3 DEF SameAt

\* A step of c that leaves other transactions alone, changes the database by a commit,
\* and leaves c with a transaction that sees itself and shares no table.
IsolatedStep(c) ==
  /\ \A k \in Connection : k # conn[c] => tx'[k] = tx[k]
  /\ db' = db \/ (pc[c] = "commit" /\ CommitTx(c))
  /\ pc'[c] \in Working =>
       /\ SeesItself(c)' /\ conn'[c] = conn[c] /\ pc[c] \in Holding
       /\ \A d \in Call : d # c /\ pc[d] \in Working =>
            tx'[conn[c]].touched \cap tx[conn[d]].touched = {}

LEMMA StepIsIsolated ==
  ASSUME MigrationInv, Types', NEW c \in Call, Step(c) \/ \E r \in Requests : Begin(c, r),
         IsolatedStep(c)
  PROVE  Isolation'
<1>0. /\ Types /\ Pooled /\ Isolated /\ \A d \in Call : SeesItself(d)
  BY DEF MigrationInv, Isolation
<1>1. ASSUME NEW d \in Call, d # c
      PROVE  /\ pc'[d] = pc[d] /\ plan'[d] = plan[d] /\ sent'[d] = sent[d] /\ conn'[d] = conn[d]
             /\ pc[d] \in Working => tx'[conn[d]] = tx[conn[d]]
  <2>1. pc[d] \in Working => conn[d] \in Connection /\ conn[d] # conn[c]
    BY <1>0, <1>1, NoConnectionAssumption DEF Pooled, Types, Holding, Working
  <2> QED BY <1>0, <1>1, <2>1, OthersStay DEF IsolatedStep
<1>2. ASSUME NEW d \in Call, d # c PROVE SeesItself(d)'
  <2>1. pc[d] \in Working => \A t \in tx[conn[d]].touched : SameAt(db, db', t)
    BY <1>0, <1>2, CommitIsOwn DEF SameAt, IsolatedStep
  <2> QED BY <1>0, <1>1, <1>2, <2>1, SightStays
<1>3. \A d \in Call : SeesItself(d)'
  <2>1. SeesItself(c)'
    BY DEF SeesItself, IsolatedStep
  <2> QED BY <1>2, <2>1
<1>4. Isolated'
  BY <1>0, <1>1 DEF Isolated, IsolatedStep
<1> QED BY <1>3, <1>4 DEF Isolation

LEMMA IsolationKept ==
  ASSUME MigrationInv, Next, Types'
  PROVE  Isolation'
<1>0. /\ Types /\ Pooled /\ Isolated /\ \A d \in Call : SeesItself(d)
  BY DEF MigrationInv, Isolation
<1>1. ASSUME PublishVersion PROVE Isolation'
  <2>1. UNCHANGED <<pc, plan, sent, conn, tx, db>>
    BY <1>1 DEF PublishVersion, callVars
  <2>2. \A d \in Call : SeesItself(d)'
    BY <1>0, <2>1 DEF SeesItself, View, Done
  <2>3. Isolated'
    BY <1>0, <2>1 DEF Isolated
  <2> QED BY <2>2, <2>3 DEF Isolation
<1>2. ASSUME NEW c \in Call, \E r \in Requests : Begin(c, r) PROVE Isolation'
  <2>1. UNCHANGED <<tx, db>> /\ pc'[c] \notin Working
    BY <1>0, <1>2 DEF Begin, Types, Working
  <2>2. IsolatedStep(c)
    BY <2>1 DEF IsolatedStep
  <2> QED BY <1>2, <2>2, StepIsIsolated
<1>3. ASSUME NEW c \in Call, Step(c) PROVE Isolation'
  <2>1. CASE \/ ReplayStart(c) \/ ReplayNext(c) \/ AuditBlocked(c) \/ NothingBegun(c)
             \/ Connect(c) \/ AuditFailure(c)
    <3>1. UNCHANGED <<tx, db>> /\ pc'[c] \notin Working
      BY <1>0, <2>1 DEF ReplayStart, ReplayNext, AuditBlocked, NothingBegun, Connect, AuditFailure,
                        Types, Working
    <3>2. IsolatedStep(c)
      BY <3>1 DEF IsolatedStep
    <3> QED BY <1>3, <3>2, StepIsIsolated
  <2>2. CASE MakePlan(c)
    <3>1. UNCHANGED <<tx, db>> /\ pc'[c] \notin Working
      BY <1>0, <2>2, PlanIsMade, Continues DEF Working
    <3>2. IsolatedStep(c)
      BY <3>1 DEF IsolatedStep
    <3> QED BY <1>3, <3>2, StepIsIsolated
  <2>3. CASE BeginTx(c)
    <3>1. pc[c] = "begin" /\ db' = db /\ UNCHANGED <<plan, sent, conn>>
      BY <2>3 DEF BeginTx
    <3>2. PICK v : tx' = [tx EXCEPT ![conn[c]] = v]
      BY <2>3 DEF BeginTx, LoseConnection
    <3>3. \A k \in Connection : k # conn[c] => tx'[k] = tx[k]
      BY <1>0, <3>2 DEF Types
    <3>4. ASSUME pc'[c] \in Working
          PROVE  SeesItself(c)' /\ tx'[conn[c]].touched = {}
      <4>1. pc'[c] = "run" /\ tx' = [tx EXCEPT ![conn[c]] = [NoTx EXCEPT !.open = TRUE]]
        BY <1>0, <2>3, <3>4 DEF BeginTx, Types, Working
      <4>2. conn[c] \in Connection
        BY <1>0, <3>1, NoConnectionAssumption DEF Pooled, Types, Holding
      <4>3. tx'[conn[c]] = [open |-> TRUE, touched |-> {}, work |-> << >>]
        BY <1>0, <4>1, <4>2 DEF Types, NoTx
      <4>4. sent[c] = 0 /\ Done(c)' = 0
        BY <1>0, <3>1, <4>1 DEF MigrationInv, FollowsPlan, Done
      <4>5. tx'[conn[c]].touched = {} /\ DOMAIN tx'[conn[c]].work = {}
        BY <4>3
      <4>6. View(conn[c])' = [t \in DOMAIN db |-> db[t]]
        BY <3>1, <4>5 DEF View
      <4>7. View(conn[c])' = db
        BY <1>0, <4>6 DEF Types
      <4>8. Ran(db, plan[c], 0) = db
        BY RanSteps
      <4> QED BY <3>1, <4>4, <4>5, <4>7, <4>8 DEF SeesItself
    <3>5. IsolatedStep(c)
      BY <3>1, <3>3, <3>4 DEF IsolatedStep, Holding
    <3> QED BY <1>3, <3>5, StepIsIsolated
  <2>4. CASE RunStatement(c)
    <3>1. pc[c] = "run" /\ db' = db /\ conn' = conn
      BY <2>4 DEF RunStatement
    <3>2. PICK v : tx' = [tx EXCEPT ![conn[c]] = v]
      BY <2>4 DEF RunStatement
    <3>3. \A k \in Connection : k # conn[c] => tx'[k] = tx[k]
      BY <1>0, <3>2 DEF Types
    <3>4. SeesItself(c)' /\ tx'[conn[c]].touched = tx[conn[c]].touched \cup {Statement(c).table}
      BY <1>0, <2>4, StatementIsSeen
    <3>5. ASSUME NEW d \in Call, d # c, pc[d] \in Working
          PROVE  tx'[conn[c]].touched \cap tx[conn[d]].touched = {}
      <4>1. Statement(c).table \notin tx[conn[d]].touched
        BY <1>0, <2>4, <3>5, TouchIsFree
      <4>2. tx[conn[c]].touched \cap tx[conn[d]].touched = {}
        BY <1>0, <3>1, <3>5 DEF Isolated, Working
      <4> QED BY <3>4, <4>1, <4>2
    <3>6. IsolatedStep(c)
      BY <3>1, <3>3, <3>4, <3>5 DEF IsolatedStep, Holding
    <3> QED BY <1>3, <3>6, StepIsIsolated
  <2>5. CASE StatementFails(c)
    <3>1. db' = db /\ pc'[c] \notin Working
      BY <1>0, <2>5 DEF StatementFails, Types, Working
    <3>2. PICK v : tx' = [tx EXCEPT ![conn[c]] = v]
      BY <2>5 DEF StatementFails, LoseConnection
    <3>3. \A k \in Connection : k # conn[c] => tx'[k] = tx[k]
      BY <1>0, <3>2 DEF Types
    <3>4. IsolatedStep(c)
      BY <3>1, <3>3 DEF IsolatedStep
    <3> QED BY <1>3, <3>4, StepIsIsolated
  <2>6. CASE AuditSuccess(c)
    <3>1. /\ pc[c] = "audit" /\ UNCHANGED <<tx, db, conn, plan>> /\ sent'[c] = sent[c] + 1
          /\ pc'[c] \in {"run", "commit"}
      BY <1>0, <2>6 DEF AuditSuccess, Types
    <3>2. SeesItself(c)'
      BY <1>0, <3>1 DEF SeesItself, Done, Working, View
    <3>3. \A d \in Call : d # c /\ pc[d] \in Working =>
            tx[conn[c]].touched \cap tx[conn[d]].touched = {}
      BY <1>0, <3>1 DEF Isolated, Working
    <3>4. IsolatedStep(c)
      BY <3>1, <3>2, <3>3 DEF IsolatedStep, Holding
    <3> QED BY <1>3, <3>4, StepIsIsolated
  <2>7. CASE Commit(c)
    <3>1. pc[c] = "commit" /\ CommitTx(c) /\ pc'[c] \in {"next", "applied"}
      BY <1>0, <2>7, Continues DEF Commit
    <3>2. \A k \in Connection : k # conn[c] => tx'[k] = tx[k]
      BY <1>0, <3>1 DEF CommitTx, Types
    <3>3. IsolatedStep(c)
      BY <3>1, <3>2 DEF IsolatedStep, Working
    <3> QED BY <1>3, <3>3, StepIsIsolated
  <2>8. CASE CommitUnanswered(c)
    <3>1. /\ pc[c] = "commit" /\ (CommitTx(c) \/ db' = db) /\ pc'[c] = "rollback"
          /\ tx' = [tx EXCEPT ![conn[c]] = NoTx]
      BY <1>0, <2>8 DEF CommitUnanswered, CommitTx, Types
    <3>2. \A k \in Connection : k # conn[c] => tx'[k] = tx[k]
      BY <1>0, <3>1 DEF Types
    <3>3. IsolatedStep(c)
      BY <3>1, <3>2 DEF IsolatedStep, Working
    <3> QED BY <1>3, <3>3, StepIsIsolated
  <2>9. CASE RollbackTx(c)
    <3>1. /\ db' = db /\ pc'[c] \notin Working
          /\ tx' = [tx EXCEPT ![conn[c]] = NoTx]
      BY <1>0, <2>9 DEF RollbackTx, Types, Working
    <3>2. \A k \in Connection : k # conn[c] => tx'[k] = tx[k]
      BY <1>0, <3>1 DEF Types
    <3>3. IsolatedStep(c)
      BY <3>1, <3>2 DEF IsolatedStep
    <3> QED BY <1>3, <3>3, StepIsIsolated
  <2> QED BY <1>3, <2>1, <2>2, <2>3, <2>4, <2>5, <2>6, <2>7, <2>8, <2>9 DEF Step
<1> QED BY <1>1, <1>2, <1>3 DEF Next

----------------------------------------------------------------------------
(* What is told is true.                                                   *)

\* How a call goes on within a request ...
Moves == {<<"start", "next">>, <<"start", "failed">>, <<"next", "applied">>, <<"next", "failed">>,
          <<"plan", "blocked">>, <<"plan", "failed">>, <<"plan", "connect">>,
          <<"connect", "begin">>, <<"connect", "failed">>,
          <<"blocked", "blocked">>, <<"blocked", "failed">>,
          <<"begin", "run">>, <<"begin", "rollback">>, <<"run", "audit">>, <<"run", "audit_failure">>,
          <<"audit", "run">>, <<"audit", "commit">>, <<"audit_failure", "rollback">>,
          <<"commit", "rollback">>, <<"rollback", "failed">>}

\* ... and how its request changes.
Goes(c) ==
  \/ /\ pc[c] = "idle" /\ pc'[c] \in {"start", "plan"}
     /\ job'[c].kind \in {"migrate", "replay"}
     /\ pc'[c] = "start" <=> job'[c].kind = "replay"
  \/ job'[c] = job[c] /\ <<pc[c], pc'[c]>> \in Moves
  \/ /\ pc[c] = "next" /\ pc'[c] = "plan"
     /\ job'[c].kind = job[c].kind /\ job'[c].from = job[c].from /\ job'[c].to = job[c].from + 1
  \/ /\ pc[c] \in {"plan", "commit"} /\ pc'[c] = IF job[c].kind = "replay" THEN "next" ELSE "applied"
     /\ job'[c].kind = job[c].kind /\ job'[c].from = job[c].to /\ job'[c].to = job[c].to

LEMMA CallGoes ==
  ASSUME Types, NEW c \in Call, Step(c) \/ \E r \in Requests : Begin(c, r)
  PROVE  Goes(c)
<1>1. CASE \E r \in Requests : Begin(c, r)
  <2>1. PICK r \in Requests : Begin(c, r)
    BY <1>1
  <2>2. /\ pc[c] = "idle" /\ job'[c] = r
        /\ pc'[c] = IF r.kind = "replay" THEN "start" ELSE "plan"
    BY <2>1 DEF Begin, Types
  <2>3. r.kind \in {"migrate", "replay"}
    BY RequestsAssumption
  <2> QED BY <2>2, <2>3 DEF Goes
<1>2. CASE ReplayNext(c)
  <2>1. CASE job[c].from + 1 <= published
    <3>1. pc[c] = "next" /\ pc'[c] = "plan" /\ job' = [job EXCEPT ![c].to = job[c].from + 1]
      BY <1>2, <2>1 DEF ReplayNext, Types
    <3>2. job'[c] = [job[c] EXCEPT !.to = job[c].from + 1]
      BY <3>1 DEF Types
    <3>3. job[c] \in Jobs
      BY DEF Types
    <3>4. job[c].from + 1 \in Nat
      BY <3>3 DEF Jobs
    <3>5. /\ job'[c].kind = job[c].kind /\ job'[c].from = job[c].from
          /\ job'[c].to = job[c].from + 1
      BY <3>2, <3>3, <3>4, JobChanges
    <3> QED BY <3>1, <3>5 DEF Goes
  <2>2. CASE ~(job[c].from + 1 <= published)
    BY <1>2, <2>2 DEF ReplayNext, Types, Goes, Moves
  <2> QED BY <2>1, <2>2
<1>3. CASE MakePlan(c)
  <2>1. CASE Continue(c)
    BY <1>3, <2>1, PlanIsMade, Continues DEF Goes
  <2>2. CASE ~Continue(c)
    BY <1>3, <2>2, PlanIsMade DEF Goes, Moves
  <2> QED BY <2>1, <2>2
<1>4. CASE Commit(c)
  <2>1. pc[c] = "commit" /\ Continue(c)
    BY <1>4 DEF Commit
  <2> QED BY <2>1, Continues DEF Goes
<1>5. CASE ReplayStart(c) \/ AuditBlocked(c) \/ NothingBegun(c) \/ Connect(c)
  <2>1. job' = job /\ <<pc[c], pc'[c]>> \in Moves
    BY <1>5 DEF ReplayStart, AuditBlocked, NothingBegun, Connect, Types, Moves
  <2> QED BY <2>1 DEF Goes
<1>6. CASE BeginTx(c) \/ RunStatement(c) \/ StatementFails(c)
  <2>1. job' = job /\ <<pc[c], pc'[c]>> \in Moves
    BY <1>6 DEF BeginTx, RunStatement, StatementFails, Types, Moves
  <2> QED BY <2>1 DEF Goes
<1>7. CASE AuditSuccess(c) \/ AuditFailure(c) \/ CommitUnanswered(c) \/ RollbackTx(c)
  <2>1. job' = job /\ <<pc[c], pc'[c]>> \in Moves
    BY <1>7 DEF AuditSuccess, AuditFailure, CommitUnanswered, RollbackTx, Types, Moves
  <2> QED BY <2>1 DEF Goes
<1> QED BY <1>1, <1>2, <1>3, <1>4, <1>5, <1>6, <1>7 DEF Step

\* Rows are added by the call they are about, and commits by the call that made them.
Adds(c) ==
  /\ audits \subseteq audits' /\ lostAudits \subseteq lostAudits' /\ committed \subseteq committed'
  /\ \A row \in audits' \ audits : row.status # "success" =>
       /\ row.run = Run(c) /\ pc[c] \in {"blocked", "audit_failure"}
       /\ pc'[c] \in {"blocked", "failed", "rollback"}
  /\ \A run \in committed' \ committed : run = Run(c) /\ pc[c] = "commit"

LEMMA CallAdds ==
  ASSUME Types, NEW c \in Call, Step(c) \/ \E r \in Requests : Begin(c, r)
  PROVE  Adds(c)
<1>1. ASSUME NEW status, Audit(c, status)
      PROVE  /\ audits \subseteq audits' /\ lostAudits \subseteq lostAudits'
             /\ \A row \in audits' \ audits : row.run = Run(c) /\ row.status = status
  BY <1>1 DEF Audit
<1>2. CASE AuditBlocked(c)
  <2>1. Audit(c, "blocked") /\ committed' = committed
    BY <1>2 DEF AuditBlocked
  <2>2. pc[c] = "blocked" /\ pc'[c] \in {"blocked", "failed"}
    BY <1>2 DEF AuditBlocked, Types
  <2> QED BY <1>1, <2>1, <2>2 DEF Adds
<1>3. CASE AuditFailure(c)
  <2>1. Audit(c, "failure") /\ committed' = committed
    BY <1>3 DEF AuditFailure
  <2>2. pc[c] = "audit_failure" /\ pc'[c] = "rollback"
    BY <1>3 DEF AuditFailure, Types
  <2> QED BY <1>1, <2>1, <2>2 DEF Adds
<1>4. CASE AuditSuccess(c)
  <2>1. Audit(c, "success") /\ committed' = committed
    BY <1>4 DEF AuditSuccess
  <2> QED BY <1>1, <2>1 DEF Adds
<1>5. CASE Commit(c) \/ CommitUnanswered(c)
  BY <1>5 DEF Commit, CommitUnanswered, CommitTx, Adds
<1>6. CASE MakePlan(c)
  BY <1>6, PlanIsMade DEF Adds
<1>7. CASE ReplayStart(c) \/ ReplayNext(c) \/ NothingBegun(c) \/ Connect(c) \/ BeginTx(c)
  BY <1>7 DEF ReplayStart, ReplayNext, NothingBegun, Connect, BeginTx, Adds, history
<1>8. CASE RunStatement(c) \/ StatementFails(c) \/ RollbackTx(c) \/ \E r \in Requests : Begin(c, r)
  BY <1>8 DEF RunStatement, StatementFails, RollbackTx, Begin, Adds, history
<1> QED BY <1>2, <1>3, <1>4, <1>5, <1>6, <1>7, <1>8 DEF Step

LEMMA RecordedKept ==
  ASSUME MigrationInv, NEW c \in Call, Step(c) \/ \E r \in Requests : Begin(c, r), NEW d \in Call
  PROVE  Recorded(d)'
<1>0. Types /\ Recorded(d) /\ FollowsPlan(d) /\ Adds(c)
  BY CallAdds DEF MigrationInv, Honest
<1> DEFINE Row(i) == [run |-> Run(d), statement |-> i, status |-> "success"]
<1>1. \A i : Row(i) \in audits \cup lostAudits => Row(i) \in audits' \cup lostAudits'
  BY <1>0 DEF Adds
<1>2. CASE pc'[d] \notin Working
  BY <1>2 DEF Recorded
<1>3. ASSUME pc[d] \in Working, pc'[d] \in Working, job'[d] = job[d], sent'[d] = sent[d]
      PROVE  Recorded(d)'
  BY <1>0, <1>1, <1>3 DEF Recorded, Run
<1>4. CASE d # c /\ pc'[d] \in Working
  BY <1>0, <1>3, <1>4, OthersStay
<1>5. CASE d = c /\ pc'[d] \in Working
  <2>1. CASE BeginTx(c)
    <3>1. sent'[d] = 0
      BY <1>0, <1>5, <2>1 DEF BeginTx, FollowsPlan
    <3> QED BY <3>1 DEF Recorded
  <2>2. CASE RunStatement(c)
    <3>1. pc[d] \in Working /\ UNCHANGED <<job, sent>>
      BY <1>5, <2>2 DEF RunStatement, Working
    <3> QED BY <1>3, <1>5, <3>1
  <2>3. CASE AuditSuccess(c)
    <3>1. /\ pc[d] \in Working /\ job' = job /\ sent'[d] = sent[d] + 1 /\ sent[d] \in Nat
          /\ Audit(d, "success")
      BY <1>0, <1>5, <2>3 DEF AuditSuccess, Types, Working
    <3>2. Row(sent[d] + 1) \in audits' \cup lostAudits'
      BY <3>1 DEF Audit
    <3>3. ASSUME NEW i \in 1 .. sent'[d] PROVE Row(i) \in audits' \cup lostAudits'
      <4>1. CASE i = sent[d] + 1
        BY <3>2, <4>1
      <4>2. CASE i \in 1 .. sent[d]
        BY <1>0, <1>1, <3>1, <4>2 DEF Recorded
      <4> QED BY <3>1, <4>1, <4>2
    <3>4. Run(d)' = Run(d)
      BY <3>1 DEF Run
    <3> QED BY <3>3, <3>4 DEF Recorded
  <2>4. CASE ~BeginTx(c) /\ ~RunStatement(c) /\ ~AuditSuccess(c)
    <3>1. CASE MakePlan(c) \/ Commit(c)
      BY <1>0, <1>5, <3>1, PlanIsMade, Continues DEF Commit, Working
    <3>2. CASE \/ ReplayStart(c) \/ ReplayNext(c) \/ AuditBlocked(c) \/ NothingBegun(c) \/ Connect(c)
      BY <1>0, <1>5, <3>2 DEF ReplayStart, ReplayNext, AuditBlocked, NothingBegun, Connect, Working, Types
    <3>3. CASE \/ StatementFails(c) \/ AuditFailure(c) \/ CommitUnanswered(c) \/ RollbackTx(c)
               \/ \E r \in Requests : Begin(c, r)
      BY <1>0, <1>5, <3>3 DEF StatementFails, AuditFailure, CommitUnanswered, RollbackTx, Begin,
                              Working, Types
    <3> QED BY <2>4, <3>1, <3>2, <3>3 DEF Step
  <2> QED BY <2>1, <2>2, <2>3, <2>4
<1> QED BY <1>2, <1>4, <1>5

LEMMA BehindKept ==
  ASSUME MigrationInv, NEW c \in Call, Step(c) \/ \E r \in Requests : Begin(c, r)
  PROVE  Behind'
<1>0. Types /\ Behind /\ Goes(c) /\ Adds(c)
  BY CallAdds, CallGoes DEF MigrationInv, Honest
<1>1. \A d \in Call : d # c => pc'[d] = pc[d] /\ job'[d] = job[d]
  BY <1>0, OthersStay
<1>2. job[c].from \in Nat /\ job[c].to \in Nat /\ job[c].kind \in {"migrate", "replay"}
  BY <1>0, JobChanges DEF Types
<1>3. ASSUME NEW d \in Call
      PROVE  /\ pc'[d] = "idle" => job'[d].kind = "migrate"
             /\ pc'[d] \in {"start", "next"} => job'[d].kind = "replay"
             /\ pc'[d] \in Before /\ job'[d].kind = "replay" => job'[d].to = job'[d].from + 1
  <2>1. CASE d # c
    BY <1>0, <1>1, <2>1 DEF Behind
  <2>2. CASE d = c
    BY <1>0, <1>2, <2>2 DEF Behind, Goes, Moves, Before
  <2> QED BY <2>1, <2>2
<1>4. ASSUME NEW run \in committed'
      PROVE  \/ pc'[run.call] \in Ended \cup {"rollback"}
             \/ job'[run.call].kind = "replay" /\ run.from < job'[run.call].from
  <2>1. CASE run \in committed
    <3>1. /\ run.call \in Call /\ run.from \in Nat
          /\ \/ pc[run.call] \in Ended \cup {"rollback"}
             \/ job[run.call].kind = "replay" /\ run.from < job[run.call].from
      BY <1>0, <2>1 DEF Types, Runs, Behind
    <3>2. CASE run.call # c
      BY <1>1, <3>1, <3>2
    <3>3. CASE run.call = c
      <4>1. CASE pc[c] \in Ended \cup {"rollback"}
        BY <1>0, <4>1, <3>3 DEF Goes, Moves, Ended
      <4>2. CASE job[c].kind = "replay" /\ run.from < job[c].from
        <5>1. pc[c] # "idle"
          BY <1>0, <4>2 DEF Behind
        <5>2. pc[c] \in {"plan", "commit"} => job[c].to = job[c].from + 1
          BY <1>0, <4>2 DEF Behind, Before
        <5>3. job'[c].kind = "replay" /\ (job'[c].from = job[c].from \/ job'[c].from = job[c].from + 1)
          BY <1>0, <4>2, <5>1, <5>2 DEF Goes
        <5> QED BY <1>2, <3>1, <3>3, <4>2, <5>3
      <4> QED BY <3>1, <3>3, <4>1, <4>2
    <3> QED BY <3>2, <3>3
  <2>2. CASE run \notin committed
    <3>1. run.call = c /\ run.from = job[c].from /\ pc[c] = "commit"
      BY <1>0, <2>2 DEF Adds, Run
    <3>2. CASE job[c].kind = "replay"
      BY <1>0, <1>2, <3>1, <3>2 DEF Behind, Before, Goes, Moves
    <3>3. CASE job[c].kind # "replay"
      BY <1>0, <3>1, <3>3 DEF Goes, Moves, Ended
    <3> QED BY <3>2, <3>3
  <2> QED BY <2>1, <2>2
<1> QED BY <1>3, <1>4 DEF Behind

LEMMA RowsKept ==
  ASSUME MigrationInv, NEW c \in Call, Step(c) \/ \E r \in Requests : Begin(c, r)
  PROVE  OutOfTheRunning'
<1>0. Types /\ OutOfTheRunning /\ Goes(c) /\ Adds(c)
  BY CallAdds, CallGoes DEF MigrationInv, Honest
<1>1. \A d \in Call : d # c => pc'[d] = pc[d]
  BY <1>0, OthersStay
<1>2. ASSUME NEW row \in audits', row.status # "success"
      PROVE  pc'[row.run.call] \in {"blocked", "rollback", "failed"}
  <2>1. CASE row \in audits
    <3>1. row.run.call \in Call /\ pc[row.run.call] \in {"blocked", "rollback", "failed"}
      BY <1>0, <1>2, <2>1 DEF OutOfTheRunning, Types, Rows, Runs
    <3>2. pc[c] \in {"blocked", "rollback", "failed"} =>
            pc'[c] \in {"blocked", "rollback", "failed"}
      BY <1>0 DEF Goes, Moves
    <3> QED BY <1>1, <3>1, <3>2
  <2>2. CASE row \notin audits
    BY <1>0, <1>2, <2>2 DEF Adds, Run
  <2> QED BY <2>1, <2>2
<1> QED BY <1>2 DEF OutOfTheRunning

LEMMA ReportsKept ==
  ASSUME MigrationInv, NEW c \in Call, Step(c) \/ \E r \in Requests : Begin(c, r)
  PROVE  ReportsHonest'
<1>0. /\ Types /\ ReportsHonest /\ Behind /\ OutOfTheRunning /\ Goes(c) /\ Adds(c)
      /\ Recorded(c) /\ FollowsPlan(c)
  BY CallAdds, CallGoes DEF MigrationInv, Honest
<1>1. ASSUME NEW d \in Call, pc'[d] = "applied", job'[d].kind = "migrate", plan'[d] # << >>
      PROVE  \E run \in committed' : run.call = d /\ run.to = job'[d].to
  <2>1. CASE d # c
    <3>1. pc[d] = "applied" /\ job[d].kind = "migrate" /\ plan[d] # << >> /\ job'[d] = job[d]
      BY <1>0, <1>1, <2>1, OthersStay
    <3>2. PICK run \in committed : run.call = d /\ run.to = job[d].to
      BY <1>0, <3>1 DEF ReportsHonest
    <3> QED BY <1>0, <3>1, <3>2 DEF Adds
  <2>2. CASE d = c
    <3>1. pc[c] = "next" \/ pc[c] \in {"plan", "commit"}
      BY <1>0, <1>1, <2>2 DEF Goes, Moves
    <3>2. pc[c] # "next"
      BY <1>0, <1>1, <2>2 DEF Goes, Behind, Moves
    <3>3. CASE MakePlan(c)
      BY <1>0, <1>1, <2>2, <3>3, PlanIsMade
    <3>4. CASE Commit(c)
      <4>1. Run(c) \in committed' /\ job'[c].to = job[c].to
        BY <1>0, <3>4, Continues DEF Commit, CommitTx
      <4> QED BY <2>2, <4>1 DEF Run
    <3>5. CASE CommitUnanswered(c) \/ NothingBegun(c)
      BY <1>0, <1>1, <2>2, <3>5 DEF CommitUnanswered, NothingBegun, Types
    <3> QED BY <3>1, <3>2, <3>3, <3>4, <3>5 DEF Step, ReplayStart, ReplayNext, AuditBlocked, Connect,
              BeginTx, RunStatement, StatementFails, AuditSuccess, AuditFailure, RollbackTx, Begin
  <2> QED BY <2>1, <2>2
<1>2. ASSUME NEW run \in committed', NEW i \in 1 .. Len(PlanOf[run.from][run.to])
      PROVE  [run |-> run, statement |-> i, status |-> "success"] \in audits' \cup lostAudits'
  <2>1. CASE run \in committed
    BY <1>0, <1>2, <2>1 DEF ReportsHonest, Adds
  <2>2. CASE run \notin committed
    <3>1. run = Run(c) /\ pc[c] = "commit"
      BY <1>0, <2>2 DEF Adds
    <3>2. sent[c] = Len(PlanOf[run.from][run.to])
      BY <1>0, <3>1 DEF FollowsPlan, Planned, Holding, Run
    <3> QED BY <1>0, <3>1, <3>2 DEF Recorded, Working, Adds
  <2> QED BY <2>1, <2>2
<1>3. ASSUME NEW row \in audits', row.status # "success" PROVE row.run \notin committed'
  <2>1. CASE row \in audits
    <3>1. row.run \notin committed /\ pc[row.run.call] # "commit"
      BY <1>0, <1>3, <2>1 DEF ReportsHonest, OutOfTheRunning
    <3> QED BY <1>0, <3>1 DEF Adds, Run
  <2>2. CASE row \notin audits
    <3>1. row.run = Run(c) /\ pc[c] \in {"blocked", "audit_failure"}
      BY <1>0, <1>3, <2>2 DEF Adds
    <3>2. committed' = committed
      BY <1>0, <3>1 DEF Adds
    <3>3. row.run \notin committed
      <4>1. row.run.call = c /\ row.run.from = job[c].from
        BY <3>1 DEF Run
      <4>2. job[c] \in Jobs
        BY <1>0 DEF Types
      <4>3. job[c].from \in Nat
        BY <4>2 DEF Jobs
      <4> QED BY <1>0, <3>1, <4>1, <4>3 DEF Behind, Ended
    <3> QED BY <3>2, <3>3
  <2> QED BY <2>1, <2>2
<1> QED BY <1>1, <1>2, <1>3 DEF ReportsHonest

----------------------------------------------------------------------------
(* Theorems.                                                               *)

LEMMA StepsKeep == MigrationInv /\ [Next]_vars => MigrationInv'
<1> SUFFICES ASSUME MigrationInv, [Next]_vars PROVE MigrationInv'
  OBVIOUS
<1>1. CASE Next
  <2>1. Types' /\ Pooled' /\ \A c \in Call : FollowsPlan(c)'
    BY <1>1, TypesKept, PooledKept, PlansKept
  <2>2. Isolation'
    BY <1>1, <2>1, IsolationKept
  <2>3. Honest'
    <3>1. ASSUME PublishVersion PROVE Honest'
      <4>1. UNCHANGED <<pc, job, plan, sent, audits, lostAudits, committed>>
        BY <3>1 DEF PublishVersion, callVars, history
      <4> QED BY <4>1 DEF MigrationInv, Honest, Recorded, Behind, OutOfTheRunning, ReportsHonest, Run
    <3>2. ASSUME NEW c \in Call, Step(c) \/ \E r \in Requests : Begin(c, r) PROVE Honest'
      <4>1. \A d \in Call : Recorded(d)'
        BY <3>2, RecordedKept
      <4>2. Behind' /\ OutOfTheRunning' /\ ReportsHonest'
        BY <3>2, BehindKept, RowsKept, ReportsKept
      <4> QED BY <4>1, <4>2 DEF Honest
    <3> QED BY <1>1, <3>1, <3>2 DEF Next
  <2> QED BY <2>1, <2>2, <2>3 DEF MigrationInv
<1>2. CASE UNCHANGED vars
  <2>1. UNCHANGED <<published, pc, job, plan, sent, conn, tx, broken, db, audits, committed, lostAudits>>
    BY <1>2 DEF vars, callVars, history
  <2>2. Types' /\ Pooled'
    BY <2>1 DEF MigrationInv, Types, Pooled, IdleConnectionsClean, Idle
  <2>3. \A c \in Call : FollowsPlan(c)'
    BY <2>1, PlanStays DEF MigrationInv
  <2>4. Isolation'
    BY <2>1 DEF MigrationInv, Isolation, Isolated, SeesItself, View, Done
  <2>5. Honest'
    BY <2>1 DEF MigrationInv, Honest, Recorded, Behind, OutOfTheRunning, ReportsHonest, Run
  <2> QED BY <2>2, <2>3, <2>4, <2>5 DEF MigrationInv
<1> QED BY <1>1, <1>2

\* The invariant holds in every reachable state, for every number of calls and
\* connections, every history of schemas and every failure.
THEOREM MigrationInvariant == Spec => []MigrationInv
<1>1. Init => MigrationInv
  BY InitiallyHolds
<1>2. MigrationInv /\ [Next]_vars => MigrationInv'
  BY StepsKeep
<1> QED BY <1>1, <1>2, PTL DEF Spec

\* A connection that executeMigration has released, after whatever failure, has no
\* transaction open and is not a broken one.
THEOREM ConnectionsComeBackClean == Spec => []IdleConnectionsClean
<1>1. MigrationInv => IdleConnectionsClean
  BY DEF MigrationInv, Pooled
<1> QED BY <1>1, MigrationInvariant, PTL

\* What migrateToVersion answers and what the audit table says agree with what was
\* committed: COMMIT unanswered, audit rows lost and replays included.
THEOREM ReportsAreHonest == Spec => []ReportsHonest
<1>1. MigrationInv => ReportsHonest
  BY DEF MigrationInv, Honest
<1> QED BY <1>1, MigrationInvariant, PTL

\* The database changes by commits, and a call commits once.
LEMMA DatabaseChangesByCommit ==
  ASSUME Types, Next, db' # db
  PROVE  \E c \in Call : pc[c] = "commit" /\ CommitTx(c) /\ pc'[c] # "commit"
<1>1. ~PublishVersion
  BY DEF PublishVersion
<1>2. PICK c \in Call : Step(c) \/ \E r \in Requests : Begin(c, r)
  BY <1>1 DEF Next
<1>3. Commit(c) \/ CommitUnanswered(c)
  BY <1>2 DEF Step, ReplayStart, ReplayNext, MakePlan, AuditBlocked, NothingBegun, Connect,
        BeginTx, RunStatement, StatementFails, AuditSuccess, AuditFailure, RollbackTx, Begin
<1>4. CASE Commit(c)
  <2>1. pc[c] = "commit" /\ CommitTx(c) /\ Continue(c)
    BY <1>4 DEF Commit
  <2> QED BY <2>1, Continues
<1>5. CASE CommitUnanswered(c)
  <2>1. pc[c] = "commit" /\ pc'[c] = "rollback"
    BY <1>5 DEF CommitUnanswered, Types
  <2>2. CommitTx(c)
    BY <1>5 DEF CommitUnanswered
  <2> QED BY <2>1, <2>2
<1> QED BY <1>3, <1>4, <1>5

\* The COMMIT of a call is one step of the abstract migration.
LEMMA CommitIsMigration ==
  ASSUME MigrationInv, NEW c \in Call, pc[c] = "commit", CommitTx(c)
  PROVE  Atomic!Next
<1> DEFINE p == plan[c]
           n == sent[c]
<1>1. Types /\ FollowsPlan(c) /\ SeesItself(c)
  BY DEF MigrationInv, Isolation
<1>2. n = Len(p) /\ n \in Nat /\ p \in Plans
  BY <1>1 DEF FollowsPlan, Planned, Holding, Types, Plans
<1>3. /\ View(conn[c]) = Ran(db, p, n)
      /\ \A i \in 1 .. n : ~Refused(Ran(db, p, i - 1), {}, p[i])
  BY <1>1 DEF SeesItself, Working, Done
<1>4. db' = Atomic!After(p, Len(p))
  BY <1>2, <1>3, AfterIsRan DEF CommitTx
<1>5. ASSUME NEW i \in 1 .. Len(p) PROVE ~Atomic!Refused(Atomic!After(p, i - 1), {}, p[i])
  <2>1. i - 1 \in Nat /\ i \in 1 .. n
    BY <1>2
  <2>2. Atomic!After(p, i - 1) = Ran(db, p, i - 1)
    BY <2>1, AfterIsRan
  <2>3. ~Refused(Ran(db, p, i - 1), {}, p[i])
    BY <1>3, <2>1
  <2> QED BY <2>2, <2>3, SameRefusals
<1>6. Atomic!Migrate(p)
  <2> HIDE DEF p
  <2> QED BY <1>4, <1>5 DEF Atomic!Migrate
<1> QED BY <1>2, <1>6 DEF Atomic!Next

\* executeMigration is atomic: with any number of calls whose transactions interleave
\* and any failure at any statement, the database goes from state to state by whole
\* plans, each run in its order on the database it finds.
THEOREM MigrationsAreAtomic == Spec => ImplementsAtomicMigration
<1>1. Init => Atomic!Init
  BY DEF Init, Atomic!Init
<1>2. MigrationInv /\ [Next]_vars => [Atomic!Next]_db
  <2> SUFFICES ASSUME MigrationInv, [Next]_vars PROVE [Atomic!Next]_db
    OBVIOUS
  <2>1. CASE db' = db
    BY <2>1
  <2>2. CASE db' # db
    <3>1. Next
      BY <2>2 DEF vars
    <3>2. \E c \in Call : pc[c] = "commit" /\ CommitTx(c)
      BY <2>2, <3>1, DatabaseChangesByCommit DEF MigrationInv
    <3> QED BY <3>2, CommitIsMigration
  <2> QED BY <2>1, <2>2
<1> QED BY <1>1, <1>2, MigrationInvariant, PTL DEF Spec, ImplementsAtomicMigration, Atomic!Spec

----------------------------------------------------------------------------
(* Where the database is.                                                  *)

\* Having the shape of a version is being like its schema.
LEMMA AtIsLike ==
  ASSUME NEW d, IsDatabase(d), NEW v \in Versions
  PROVE  IsAt(d, v) <=> LikeSchema(d, SchemaOf[v])
<1> DEFINE s == SchemaOf[v]
           e == Tables(s)
<1>1. DatabaseAt[v] = e
  BY DEF DatabaseAt
<1>2. /\ IsDatabase(e) /\ \A t : t \in DOMAIN e <=> Has(s, t)
      /\ \A t \in DOMAIN e : \A c :
           /\ c \in DOMAIN e[t] <=> Has(Named(s, t).fields, c)
           /\ c \in DOMAIN e[t] => e[t][c].type = Named(Named(s, t).fields, c).type
  <2>1. /\ IsDatabase(e) /\ \A t : t \in DOMAIN e <=> Has(s, t)
        /\ \A t \in DOMAIN e : e[t] = Columns(Named(s, t).fields)
    BY TablesAt
  <2> HIDE DEF e, s
  <2>2. ASSUME NEW t \in DOMAIN e, NEW c
        PROVE  /\ c \in DOMAIN e[t] <=> Has(Named(s, t).fields, c)
               /\ c \in DOMAIN e[t] => e[t][c].type = Named(Named(s, t).fields, c).type
    <3> DEFINE fs == Named(s, t).fields
               u == Columns(fs)
    <3>1. /\ c \in DOMAIN u <=> Has(fs, c)
          /\ Has(fs, c) => u[c] = [type |-> Named(fs, c).type, nullable |-> Named(fs, c).nullable]
      BY ColumnsAt
    <3>2. e[t] = u
      BY <2>1
    <3> HIDE DEF u, fs
    <3>3. c \in DOMAIN u => u[c].type = Named(fs, c).type
      BY <3>1
    <3> QED BY <3>1, <3>2, <3>3 DEF fs
  <2> QED BY <2>1, <2>2
<1> HIDE DEF e, s
<1>3. Shape(d) = Shape(e) <=>
        /\ DOMAIN d = DOMAIN e
        /\ \A t \in DOMAIN d : /\ DOMAIN d[t] = DOMAIN e[t]
                               /\ \A c \in DOMAIN d[t] : d[t][c].type = e[t][c].type
  <2>1. ASSUME Shape(d) = Shape(e)
        PROVE  /\ DOMAIN d = DOMAIN e
               /\ \A t \in DOMAIN d : /\ DOMAIN d[t] = DOMAIN e[t]
                                      /\ \A c \in DOMAIN d[t] : d[t][c].type = e[t][c].type
    <3>1. DOMAIN Shape(d) = DOMAIN d /\ DOMAIN Shape(e) = DOMAIN e
      BY DEF Shape
    <3>2. DOMAIN d = DOMAIN e
      BY <2>1, <3>1
    <3>3. ASSUME NEW t \in DOMAIN d
          PROVE  /\ DOMAIN d[t] = DOMAIN e[t]
                 /\ \A c \in DOMAIN d[t] : d[t][c].type = e[t][c].type
      <4>1. /\ Shape(d)[t] = [c \in DOMAIN d[t] |-> d[t][c].type]
            /\ Shape(e)[t] = [c \in DOMAIN e[t] |-> e[t][c].type]
        BY <3>2 DEF Shape
      <4>2. [c \in DOMAIN d[t] |-> d[t][c].type] = [c \in DOMAIN e[t] |-> e[t][c].type]
        BY <2>1, <4>1
      <4> QED BY <4>2
    <3> QED BY <3>2, <3>3
  <2>2. ASSUME DOMAIN d = DOMAIN e,
               \A t \in DOMAIN d : /\ DOMAIN d[t] = DOMAIN e[t]
                                   /\ \A c \in DOMAIN d[t] : d[t][c].type = e[t][c].type
        PROVE  Shape(d) = Shape(e)
    <3>1. \A t \in DOMAIN d :
            [c \in DOMAIN d[t] |-> d[t][c].type] = [c \in DOMAIN e[t] |-> e[t][c].type]
      BY <2>2
    <3> QED BY <2>2, <3>1 DEF Shape
  <2> QED BY <2>1, <2>2
<1>4. ASSUME LikeSchema(d, s) PROVE Shape(d) = Shape(e)
  <2>1. DOMAIN d = DOMAIN e
    BY <1>2, <1>4 DEF LikeSchema
  <2>2. \A t \in DOMAIN d : \A c : c \in DOMAIN d[t] <=> c \in DOMAIN e[t]
    BY <1>2, <1>4, <2>1 DEF LikeSchema
  <2>3. \A t \in DOMAIN d : DOMAIN d[t] = DOMAIN e[t]
    BY <2>2
  <2>4. \A t \in DOMAIN d : \A c \in DOMAIN d[t] : d[t][c].type = e[t][c].type
    BY <1>2, <1>4, <2>1, <2>3 DEF LikeSchema
  <2> QED BY <1>3, <2>1, <2>3, <2>4
<1>5. ASSUME Shape(d) = Shape(e) PROVE LikeSchema(d, s)
  BY <1>2, <1>3, <1>5 DEF LikeSchema
<1> QED BY <1>1, <1>4, <1>5 DEF IsAt, s

\* A plan that is run as a whole takes the database from its version to the other one.
LEMMA PlanMoves ==
  ASSUME NEW d, IsDatabase(d), NEW v \in Versions, NEW w \in Versions, IsAt(d, v)
  PROVE  IsAt(Ran(d, PlanOf[v][w], Len(PlanOf[v][w])), w)
<1> DEFINE p == PlanOf[v][w]
<1>1. IsSchema(SchemaOf[v]) /\ IsSchema(SchemaOf[w])
  BY SchemasAssumption DEF Versions
<1>2. p = GenerateMigrationSql(DiffSchemas(SchemaOf[v], SchemaOf[w]))
  BY DEF PlanOf
<1>3. IsSeq(p) /\ \A x : x \in Range(p) <=> Asked(x, SchemaOf[v], SchemaOf[w])
  BY <1>1, <1>2, PlanIsAsked
<1>4. LikeSchema(d, SchemaOf[v])
  BY AtIsLike
<1> HIDE DEF p
<1>5. /\ Ran(d, p, Len(p)) = Goal(d, SchemaOf[w])
      /\ LikeSchema(Goal(d, SchemaOf[w]), SchemaOf[w])
  BY <1>1, <1>3, <1>4, PlansReachTheirGoal
<1>6. IsAt(Ran(d, p, Len(p)), w)
  BY <1>5, AtIsLike DEF LikeSchema
<1> QED BY <1>6 DEF p

LEMMA EmptyPlanMoves ==
  ASSUME NEW d, IsDatabase(d), NEW v \in Versions, NEW w \in Versions, IsAt(d, v),
         PlanOf[v][w] = <<>>
  PROVE  IsAt(d, w)
<1>1. IsAt(Ran(d, <<>>, 0), w)
  BY PlanMoves
<1> QED BY <1>1, RanSteps

\* A migration without statements is done when it is planned.
LEMMA PlanGoesByItself ==
  ASSUME Types, NEW c \in Call, MakePlan(c), Continue(c)
  PROVE  /\ {job[c].from, job[c].to} \subseteq 1 .. published
         /\ PlanOf[job[c].from][job[c].to] = <<>>
<1> DEFINE statements == PlanOf[job[c].from][job[c].to]
           blocked == Blocked(statements, job[c].options)
<1>1. pc'[c] \in {"next", "applied"}
  BY Continues
<1>2. \/ pc' = [pc EXCEPT ![c] = "blocked"] \/ pc' = [pc EXCEPT ![c] = "connect"]
      \/ pc' = [pc EXCEPT ![c] = "failed"]
      \/ {job[c].from, job[c].to} \subseteq 1 .. published /\ statements = <<>>
  BY DEF MakePlan
<1> HIDE DEF statements
<1>3. {job[c].from, job[c].to} \subseteq 1 .. published /\ statements = <<>>
  BY <1>1, <1>2 DEF Types
<1> QED BY <1>3 DEF statements

CursorInv == IsDatabase(db) /\ DOMAIN trusted = Call /\ CursorIsWhereDatabaseIs

\* What CursorIsWhereDatabaseIs says of one call.
Located(c) ==
  trusted[c] =>
    \/ IsAt(db, job[c].from)
    \/ /\ pc[c] \in {"rollback", "failed"}
       /\ Run(c) \in committed
       /\ IsAt(db, job[c].to)

\* A commit.
LEMMA CommitMoves ==
  ASSUME MigrationInv, CursorInv, NEW c \in Call, pc[c] = "commit", CommitTx(c)
  PROVE  /\ IsDatabase(db') /\ DOMAIN trusted' = Call
         /\ trusted'[c] => IsAt(db', job[c].to)
         /\ \A d \in Call : d # c /\ trusted'[d] => trusted[d] /\ db' = db
<1> DEFINE v == job[c].from
           w == job[c].to
<1>1. Types /\ FollowsPlan(c) /\ SeesItself(c) /\ IsDatabase(db) /\ Located(c)
  BY DEF MigrationInv, Isolation, CursorInv, CursorIsWhereDatabaseIs, Located
<1>2. v \in Versions /\ w \in Versions /\ plan[c] = PlanOf[v][w] /\ sent[c] = Len(plan[c])
  BY <1>1 DEF FollowsPlan, Planned, Holding
<1>3. sent[c] \in Nat
  BY <1>1 DEF Types
<1>4. db' = Ran(db, PlanOf[v][w], Len(PlanOf[v][w]))
  BY <1>1, <1>2 DEF CommitTx, SeesItself, Working, Done
<1>5. IsDatabase(db')
  BY <1>1, <1>2, <1>3, <1>4, RanIsDatabase
<1>6. trusted' = [d \in Call |-> trusted[d] /\ (d = c \/ db' = db)]
  BY DEF CommitTx
<1>7. ASSUME trusted'[c] PROVE IsAt(db', w)
  <2>1. IsAt(db, v)
    BY <1>1, <1>6, <1>7 DEF Located
  <2> HIDE DEF v, w
  <2> QED BY <1>1, <1>2, <1>4, <2>1, PlanMoves
<1> QED BY <1>5, <1>6, <1>7

LEMMA LocatedKept ==
  ASSUME MigrationInv, CursorInv, Next
  PROVE  CursorInv'
<1>0. /\ Types /\ IsDatabase(db) /\ DOMAIN trusted = Call
      /\ \A c \in Call : Located(c) /\ FollowsPlan(c)
      /\ Types'
  BY TypesKept DEF MigrationInv, CursorInv, CursorIsWhereDatabaseIs, Located
<1>1. ASSUME PublishVersion PROVE CursorInv'
  <2>1. UNCHANGED <<pc, job, db, trusted, committed>>
    BY <1>1 DEF PublishVersion, callVars, history
  <2> QED BY <2>1 DEF CursorInv, CursorIsWhereDatabaseIs, IsAt, Run
<1>2. ASSUME NEW c \in Call, Step(c) \/ \E r \in Requests : Begin(c, r)
      PROVE  CursorInv'
  <2>1. \A d \in Call : d # c => pc'[d] = pc[d] /\ job'[d] = job[d]
    BY <1>0, <1>2, OthersStay
  <2>2. committed \subseteq committed'
    BY <1>0, <1>2, CallAdds DEF Adds
  <2>3. SUFFICES /\ IsDatabase(db') /\ DOMAIN trusted' = Call
                 /\ \A d \in Call : d # c /\ trusted'[d] => trusted[d] /\ db' = db
                 /\ trusted'[c] => \/ IsAt(db', job'[c].from)
                                   \/ /\ pc'[c] \in {"rollback", "failed"}
                                      /\ Run(c)' \in committed'
                                      /\ IsAt(db', job'[c].to)
    <3>1. ASSUME NEW d \in Call, d # c, trusted'[d]
          PROVE  Located(d)'
      <4>1. Located(d) /\ trusted[d] /\ db' = db /\ pc'[d] = pc[d] /\ job'[d] = job[d]
        BY <1>0, <2>1, <2>3, <3>1
      <4> QED BY <2>2, <4>1 DEF Located, IsAt, Run
    <3>2. Located(c)'
      BY <2>3 DEF Located, IsAt
    <3>3. \A d \in Call : Located(d)'
      BY <3>1, <3>2 DEF Located
    <3> QED BY <2>3, <3>3 DEF CursorInv, CursorIsWhereDatabaseIs, Located
  <2>4. CASE \E r \in Requests : Begin(c, r)
    <3>1. PICK r \in Requests : Begin(c, r)
      BY <2>4
    <3> DEFINE at == IsAt(db, r.from)
    <3>2. db' = db /\ job'[c] = r /\ trusted' = [trusted EXCEPT ![c] = at]
      BY <1>0, <3>1 DEF Begin, Types
    <3> HIDE DEF at
    <3>3. trusted'[c] = at /\ DOMAIN trusted' = Call
      BY <1>0, <3>2
    <3>4. \A d \in Call : d # c => trusted'[d] = trusted[d]
      BY <3>2
    <3> USE DEF at
    <3> QED BY <1>0, <3>2, <3>3, <3>4
  <2>5. CASE Commit(c)
    <3>1. pc[c] = "commit" /\ CommitTx(c) /\ Continue(c)
      BY <2>5 DEF Commit
    <3>2. job'[c].from = job[c].to
      BY <1>0, <3>1, Continues
    <3> QED BY <3>1, <3>2, CommitMoves
  <2>6. CASE CommitUnanswered(c)
    <3>1. pc[c] = "commit" /\ job' = job /\ pc'[c] = "rollback"
      BY <1>0, <2>6 DEF CommitUnanswered, Types
    <3>2. CASE CommitTx(c)
      <4>1. Run(c)' \in committed'
        BY <3>1, <3>2 DEF CommitTx, Run
      <4> QED BY <3>1, <3>2, <4>1, CommitMoves
    <3>3. CASE UNCHANGED <<db, committed, trusted>>
      BY <1>0, <3>1, <3>3 DEF Located
    <3> QED BY <2>6, <3>2, <3>3 DEF CommitUnanswered
  <2>7. CASE MakePlan(c)
    <3>1. /\ UNCHANGED <<db, committed, trusted>> /\ pc[c] = "plan"
      BY <2>7 DEF MakePlan, history
    <3>2. CASE Continue(c) /\ plan'[c] = <<>>
      <4>1. /\ {job[c].from, job[c].to} \subseteq 1 .. published
            /\ PlanOf[job[c].from][job[c].to] = <<>>
        BY <1>0, <2>7, <3>2, PlanGoesByItself
      <4>2. {job[c].from, job[c].to} \subseteq Versions
        BY <1>0, <4>1, VersionsAssumption DEF Types, Versions
      <4>3. job'[c].from = job[c].to
        BY <1>0, <3>2, Continues
      <4>4. trusted[c] => IsAt(db, job[c].to)
        BY <1>0, <3>1, <4>1, <4>2, EmptyPlanMoves DEF Located
      <4> QED BY <1>0, <3>1, <4>3, <4>4
    <3>3. CASE job'[c] = job[c]
      BY <1>0, <3>1, <3>3 DEF Located
    <3> QED BY <1>0, <2>7, <3>2, <3>3, PlanIsMade
  <2>8. CASE ReplayNext(c)
    <3>1. UNCHANGED <<db, committed, trusted>> /\ pc[c] = "next"
      BY <2>8 DEF ReplayNext, history
    <3>2. job'[c].from = job[c].from
      <4>1. Goes(c)
        BY <1>0, <1>2, CallGoes
      <4> QED BY <3>1, <4>1 DEF Goes
    <3> QED BY <1>0, <3>1, <3>2 DEF Located
  <2>9. CASE RollbackTx(c)
    <3>1. UNCHANGED <<db, committed, trusted, job>> /\ pc[c] = "rollback" /\ pc'[c] = "failed"
      BY <1>0, <2>9 DEF RollbackTx, history, Types
    <3>2. Run(c)' = Run(c)
      BY <3>1 DEF Run
    <3> QED BY <1>0, <3>1, <3>2 DEF Located
  <2>10. CASE \/ ReplayStart(c) \/ AuditBlocked(c) \/ NothingBegun(c) \/ Connect(c) \/ BeginTx(c)
              \/ RunStatement(c) \/ StatementFails(c) \/ AuditSuccess(c) \/ AuditFailure(c)
    <3>1. UNCHANGED <<db, committed, trusted, job>> /\ pc[c] \notin {"rollback", "failed"}
      BY <2>10 DEF ReplayStart, AuditBlocked, NothingBegun, Connect, BeginTx, RunStatement,
                   StatementFails, AuditSuccess, AuditFailure, history
    <3> QED BY <1>0, <3>1 DEF Located
  <2> QED BY <1>2, <2>4, <2>5, <2>6, <2>7, <2>8, <2>9, <2>10 DEF Step
<1> QED BY <1>1, <1>2 DEF Next

LEMMA CursorInvariant == Spec => []CursorInv
<1>1. Init => CursorInv
  <2> SUFFICES ASSUME Init PROVE CursorInv
    OBVIOUS
  <2>1. db = Tables(SchemaOf[1])
    BY VersionsAssumption DEF Init, DatabaseAt, Versions
  <2>2. DOMAIN trusted = Call /\ \A c \in Call : ~trusted[c]
    <3>1. trusted = [c \in Call |-> FALSE]
      BY DEF Init
    <3> QED BY <3>1
  <2> QED BY <2>1, <2>2, TablesAt DEF CursorInv, CursorIsWhereDatabaseIs
<1>2. MigrationInv /\ CursorInv /\ [Next]_vars => CursorInv'
  <2> SUFFICES ASSUME MigrationInv, CursorInv, [Next]_vars PROVE CursorInv'
    OBVIOUS
  <2>1. CASE UNCHANGED vars
    <3>1. UNCHANGED <<pc, job, db, trusted, committed>>
      BY <2>1 DEF vars, callVars, history
    <3> QED BY <3>1 DEF CursorInv, CursorIsWhereDatabaseIs, IsAt, Run
  <2> QED BY <2>1, LocatedKept
<1> QED BY <1>1, <1>2, MigrationInvariant, PTL DEF Spec

\* A call that found the database at the version it migrates from, and that nobody
\* interfered with, has it at its cursor: every plan, whatever the two schemas, whatever
\* was locked or had failed before, moves it exactly to the version it names, and a COMMIT that
\* is not answered leaves it on one of the two.
THEOREM CursorsAreTrue == Spec => []CursorIsWhereDatabaseIs
<1>1. CursorInv => CursorIsWhereDatabaseIs
  BY DEF CursorInv
<1> QED BY <1>1, CursorInvariant, PTL

----------------------------------------------------------------------------
(* What is lost was let through.                                           *)

\* The guard does not stop statement s.
Passes(s, options) ==
  options.allowDestructive \/ \E x \in options.allowlist : Normalize(x) = Normalize(s)

\* Whatever is under way, its destructive statements are ones the options of the call let
\* through.
Permitted(c) ==
  pc[c] \in Planned =>
    \A i \in 1 .. Len(plan[c]) : Destructive(plan[c][i]) => Passes(plan[c][i], job[c].options)

\* What passes as the drop of a table, or of a column, is on the allowlist as the drop of
\* one whose name is the same in upper case.
LEMMA PassesAsTable ==
  ASSUME NEW c \in Call, NEW t, Passes(DropTable(t), job[c].options)
  PROVE  Allows(c, "drop_table", <<t>>)
<1>1. CASE job[c].options.allowDestructive
  BY <1>1 DEF Allows
<1>2. ASSUME NEW x \in job[c].options.allowlist, Normalize(x) = Normalize(DropTable(t))
      PROVE  Allows(c, "drop_table", <<t>>)
  <2>1. Normalize(DropTable(t)) = [op |-> "drop_table", table |-> Upper(t)]
    BY DEF Normalize, DropTable
  <2>2. DOMAIN Normalize(x) = {"op", "table"} /\ Normalize(x).op = "drop_table"
        /\ Normalize(x).table = Upper(t)
    BY <1>2, <2>1
  <2>3. DOMAIN x = {"op", "table"} /\ x.op = "drop_table" /\ Upper(x.table) = Upper(t)
    BY <2>2 DEF Normalize
  <2> QED BY <2>3 DEF Allows
<1> QED BY <1>1, <1>2 DEF Passes

LEMMA PassesAsColumn ==
  ASSUME NEW c \in Call, NEW t, NEW col,
         Passes(DropColumn(t, [name |-> col]), job[c].options)
  PROVE  Allows(c, "drop_column", <<t, col>>)
<1> DEFINE s == DropColumn(t, [name |-> col])
<1>1. CASE job[c].options.allowDestructive
  BY <1>1 DEF Allows
<1>2. ASSUME NEW x \in job[c].options.allowlist, Normalize(x) = Normalize(s)
      PROVE  Allows(c, "drop_column", <<t, col>>)
  <2>1. Normalize(s) = [op |-> "drop_column", table |-> Upper(t), column |-> Upper(col)]
    BY DEF Normalize, DropColumn
  <2>2. DOMAIN Normalize(x) = {"op", "table", "column"} /\ Normalize(x).op = "drop_column"
        /\ Normalize(x).table = Upper(t) /\ Normalize(x).column = Upper(col)
    BY <1>2, <2>1
  <2>3. DOMAIN x = {"op", "table", "column"} /\ x.op = "drop_column"
    BY <2>2 DEF Normalize
  <2>4. Upper(x.table) = Upper(t) /\ Upper(x.column) = Upper(col)
    BY <2>2, <2>3 DEF Normalize
  <2> QED BY <2>3, <2>4 DEF Allows
<1> QED BY <1>1, <1>2 DEF Passes

LEMMA PlanIsPermitted ==
  ASSUME Types, NEW c \in Call, MakePlan(c), pc'[c] = "connect"
  PROVE  Permitted(c)'
<1> DEFINE v == job[c].from
           w == job[c].to
           statements == PlanOf[v][w]
           blocked == Blocked(statements, job[c].options)
<1>1. /\ {v, w} \subseteq 1 .. published /\ blocked = <<>>
      /\ plan' = [plan EXCEPT ![c] = statements] /\ job' = job
  <2>1. ~Continue(c)
    BY Continues
  <2>2. /\ {v, w} \subseteq 1 .. published
        /\ \/ Continue(c)
           \/ pc' = [pc EXCEPT ![c] = "blocked"]
           \/ /\ blocked = <<>> /\ plan' = [plan EXCEPT ![c] = statements] /\ job' = job
      \/ pc' = [pc EXCEPT ![c] = "failed"]
    BY DEF MakePlan
  <2> HIDE DEF blocked, statements
  <2> QED BY <2>1, <2>2 DEF Types
<1>2. v \in Versions /\ w \in Versions
  BY <1>1, VersionsAssumption DEF Types, Versions
<1>3. IsSeq(statements)
  <2>1. IsSchema(SchemaOf[v]) /\ IsSchema(SchemaOf[w])
    BY <1>2, SchemasAssumption DEF Versions
  <2>2. statements = GenerateMigrationSql(DiffSchemas(SchemaOf[v], SchemaOf[w]))
    BY <1>2 DEF PlanOf
  <2> QED BY <2>1, <2>2, PlanIsAsked
<1>4. plan'[c] = statements
  BY <1>1 DEF Types
<1> DEFINE bad == {s \in Range(statements) : /\ Destructive(s)
                                             /\ ~job[c].options.allowDestructive
                                             /\ Normalize(s) \notin
                                                  {Normalize(x) : x \in job[c].options.allowlist}}
<1>5. Range(statements) \cap bad = {}
  <2>1. blocked = Keep(statements, bad)
    BY DEF Blocked
  <2>2. Range(<<>>) = {}
    BY DEF Range
  <2> HIDE DEF blocked, bad, statements
  <2> QED BY <1>1, <1>3, <2>1, <2>2, KeptRange
<1>6. ASSUME NEW i \in 1 .. Len(statements), Destructive(statements[i])
      PROVE  Passes(statements[i], job[c].options)
  <2>1. statements[i] \in Range(statements)
    BY <1>3, SeqFacts
  <2> HIDE DEF statements
  <2> QED BY <1>5, <1>6, <2>1 DEF Passes
<1> HIDE DEF statements
<1> QED BY <1>1, <1>4, <1>6 DEF Permitted

LEMMA PermittedKept ==
  ASSUME MigrationInv, \A d \in Call : Permitted(d), Next, NEW c \in Call
  PROVE  Permitted(c)'
<1>0. Types
  BY DEF MigrationInv
<1>1. ASSUME PublishVersion PROVE Permitted(c)'
  BY <1>1 DEF PublishVersion, callVars, Permitted
<1>2. ASSUME NEW d \in Call, d # c, Step(d) \/ \E r \in Requests : Begin(d, r) PROVE Permitted(c)'
  <2>1. pc'[c] = pc[c] /\ job'[c] = job[c] /\ plan'[c] = plan[c]
    BY <1>0, <1>2, OthersStay
  <2> QED BY <2>1 DEF Permitted
<1>3. ASSUME Step(c) \/ \E r \in Requests : Begin(c, r) PROVE Permitted(c)'
  <2>1. CASE MakePlan(c)
    <3>1. CASE pc'[c] = "connect"
      BY <1>0, <2>1, <3>1, PlanIsPermitted
    <3>2. CASE pc'[c] # "connect"
      <4>1. pc'[c] \in {"next", "applied", "blocked", "failed"}
        BY <1>0, <2>1, <3>2, PlanIsMade, Continues
      <4> QED BY <4>1 DEF Permitted, Planned, Holding
    <3> QED BY <3>1, <3>2
  <2>2. CASE Commit(c)
    <3>1. pc'[c] \in {"next", "applied"}
      BY <1>0, <2>2, Continues DEF Commit
    <3> QED BY <3>1 DEF Permitted, Planned, Holding
  <2>3. CASE \E r \in Requests : Begin(c, r)
    <3>1. pc'[c] \in {"start", "plan"}
      BY <1>0, <2>3 DEF Begin, Types
    <3> QED BY <3>1 DEF Permitted, Planned, Holding
  <2>4. CASE ReplayStart(c) \/ ReplayNext(c) \/ AuditBlocked(c) \/ NothingBegun(c)
    <3>1. pc'[c] \in {"next", "failed", "plan", "applied", "blocked"}
      BY <1>0, <2>4 DEF ReplayStart, ReplayNext, AuditBlocked, NothingBegun, Types
    <3> QED BY <3>1 DEF Permitted, Planned, Holding
  <2>5. CASE \/ Connect(c) \/ BeginTx(c) \/ RunStatement(c) \/ StatementFails(c) \/ AuditSuccess(c)
             \/ AuditFailure(c) \/ CommitUnanswered(c) \/ RollbackTx(c)
    <3>1. pc[c] \in Planned /\ UNCHANGED <<job, plan>>
      BY <2>5 DEF Connect, BeginTx, RunStatement, StatementFails, AuditSuccess, AuditFailure,
                  CommitUnanswered, RollbackTx, Planned, Holding
    <3> QED BY <3>1 DEF Permitted
  <2> QED BY <1>3, <2>1, <2>2, <2>3, <2>4, <2>5 DEF Step
<1> QED BY <1>1, <1>2, <1>3 DEF Next

\* What a commit loses.
LEMMA CommitLosesWhatIsPermitted ==
  ASSUME MigrationInv, IsDatabase(db), NEW c \in Call, Permitted(c),
         pc[c] = "commit", CommitTx(c), NEW t \in DOMAIN db
  PROVE  IF t \notin DOMAIN db' THEN Allows(c, "drop_table", <<t>>)
         ELSE \A col \in DOMAIN db[t] \ DOMAIN db'[t] : Allows(c, "drop_column", <<t, col>>)
<1> DEFINE v == job[c].from
           w == job[c].to
           p == plan[c]
           n == Len(p)
           before == SchemaOf[v]
           after == SchemaOf[w]
<1>1. Types /\ FollowsPlan(c) /\ SeesItself(c)
  BY DEF MigrationInv, Isolation
<1>2. v \in Versions /\ w \in Versions /\ p = PlanOf[v][w] /\ sent[c] = n
  BY <1>1 DEF FollowsPlan, Planned, Holding
<1>3. n \in Nat
  BY <1>1, <1>2 DEF Types
<1>4. db' = Ran(db, p, n) /\ \A i \in 1 .. n : ~Refused(Ran(db, p, i - 1), {}, p[i])
  BY <1>1, <1>2 DEF CommitTx, SeesItself, Working, Done
<1>5. IsSchema(before) /\ IsSchema(after)
  BY <1>2, SchemasAssumption DEF Versions
<1>6. p = GenerateMigrationSql(DiffSchemas(before, after))
  BY <1>2 DEF PlanOf
<1>7. ASSUME NEW i \in 1 .. n
      PROVE  /\ Asked(p[i], before, after)
             /\ Destructive(p[i]) => Passes(p[i], job[c].options)
  <2>1. IsSeq(p) /\ \A x : x \in Range(p) <=> Asked(x, before, after)
    BY <1>5, <1>6, PlanIsAsked
  <2> HIDE DEF before, after
  <2>2. Asked(p[i], before, after)
    BY <2>1, SeqFacts
  <2> QED BY <2>2 DEF Permitted, Planned, Holding
<1>8. IsMap(db)
  BY DEF IsDatabase
<1> HIDE DEF v, w, p, n, before, after
<1>9. CASE t \notin DOMAIN db'
  <2>1. PICK i \in 1 .. n : Drops(p[i], t)
    BY <1>3, <1>4, <1>8, <1>9, TableLeft
  <2>2. p[i] = DropTable(t)
    BY <1>5, <1>7, <2>1, AskedDrops
  <2>3. Destructive(p[i])
    BY <2>1 DEF Drops, Destructive
  <2>4. Passes(DropTable(t), job[c].options)
    BY <1>7, <2>2, <2>3
  <2> QED BY <1>9, <2>4, PassesAsTable
<1>10. ASSUME t \in DOMAIN db', NEW col \in DOMAIN db[t] \ DOMAIN db'[t]
       PROVE  Allows(c, "drop_column", <<t, col>>)
  <2>1. \A i \in 1 .. n : ~Drops(p[i], t)
    <3> SUFFICES ASSUME NEW k \in 1 .. n, Drops(p[k], t) PROVE FALSE
      OBVIOUS
    <3>1. Has(before, t)
      BY <1>5, <1>7, AskedDrops
    <3>2. \A i \in 1 .. n : ~(p[i].op = "create_table" /\ p[i].table = t)
      <4> SUFFICES ASSUME NEW i \in 1 .. n, p[i].op = "create_table", p[i].table = t PROVE FALSE
        OBVIOUS
      <4> QED BY <1>5, <1>7, <3>1, AskedDrops
    <3> QED BY <1>3, <1>4, <1>8, <1>10, <3>2, TableGone
  <2>2. PICK i \in 1 .. n : DropsColumn(p[i], t, col)
    BY <1>3, <1>4, <1>10, <2>1, ColumnLeft
  <2>3. p[i] = DropColumn(t, [name |-> col])
    BY <1>5, <1>7, <2>2, AskedDrops
  <2>4. Destructive(p[i])
    BY <2>2 DEF DropsColumn, Destructive
  <2>5. Passes(DropColumn(t, [name |-> col]), job[c].options)
    BY <1>7, <2>3, <2>4
  <2> QED BY <2>5, PassesAsColumn
<1> QED BY <1>9, <1>10

\* A table or a column disappears only by the commit of a call whose options let that loss
\* through, up to the case of the letters of its names: createMigrationSafetyReport looks at the whole plan before the first
\* statement, no statement that is not on the plan is ever committed, and none of a call
\* that failed or of another transaction is.
THEOREM NothingIsLostUnasked == Spec => NoLossUnlessAllowed
<1> DEFINE All == \A c \in Call : Permitted(c)
           lost(op, names) ==
             \E c \in Call : pc[c] = "commit" /\ pc'[c] # "commit" /\ Allows(c, op, names)
           A == \A t \in DOMAIN db :
                  IF t \notin DOMAIN db' THEN lost("drop_table", <<t>>)
                  ELSE \A col \in DOMAIN db[t] \ DOMAIN db'[t] : lost("drop_column", <<t, col>>)
<1>1. Init => All
  BY DEF Init, Permitted, Planned, Holding
<1>2. MigrationInv /\ All /\ [Next]_vars => All'
  <2> SUFFICES ASSUME MigrationInv, \A c \in Call : Permitted(c), [Next]_vars
               PROVE  \A c \in Call : Permitted(c)'
    OBVIOUS
  <2>1. CASE UNCHANGED vars
    BY <2>1 DEF vars, callVars, Permitted
  <2> QED BY <2>1, PermittedKept
<1>3. MigrationInv /\ CursorInv /\ All /\ [Next]_vars => [A]_vars
  <2> SUFFICES ASSUME MigrationInv, CursorInv, \A c \in Call : Permitted(c), Next
               PROVE  A \/ UNCHANGED vars
    OBVIOUS
  <2>1. CASE db' = db
    BY <2>1
  <2>2. CASE db' # db
    <3>1. PICK c \in Call : pc[c] = "commit" /\ CommitTx(c) /\ pc'[c] # "commit"
      BY <2>2, DatabaseChangesByCommit DEF MigrationInv
    <3>2. IsDatabase(db)
      BY DEF CursorInv
    <3> QED BY <3>1, <3>2, CommitLosesWhatIsPermitted
  <2> QED BY <2>1, <2>2
<1>4. Spec => [](MigrationInv /\ CursorInv /\ All)
  <2> HIDE DEF All
  <2> QED BY <1>1, <1>2, MigrationInvariant, CursorInvariant, PTL DEF Spec
<1>5. Spec => [][A]_vars
  <2> HIDE DEF All, A
  <2> QED BY <1>3, <1>4, PTL DEF Spec
<1> QED BY <1>5 DEF NoLossUnlessAllowed

----------------------------------------------------------------------------
(* One generated migration.  What it does, for every pair of schemas and    *)
(* every document: where its statements lead, why one is refused, and which *)
(* documents are compiled at all.                                           *)

IsObject(s) == s.op \in {"create_index", "add_relation"}

\* The statements on tables among the first n.
RunOnTables(n) == {script[i] : i \in {j \in 1 .. n : ~IsObject(script[j])}}
RunOnObjects(n) == {script[i] : i \in {j \in 1 .. n : IsObject(script[j])}}

\* The indexes and relations of the beginning that nothing dropped so far was part of.
StillThere == {x \in found : OnColumnsOf(x, database)}

\* The script on the way up, and what it has done so far.
UpAndRunning ==
  /\ script = IF route = "schema" THEN CompileSchemaSql(doc) ELSE UpScript(route, from, to)
  /\ Between(database, Tables(from), Target, RunOnTables(pos))
  /\ objects = IF route = "schema" THEN RunOnObjects(pos) ELSE StillThere

DownAndRunning ==
  /\ route = "dsl"
  /\ script = DownScript(from, to)
  /\ Between(database, Target, Tables(from), RunOnTables(pos))
  /\ objects \subseteq StillThere

Accepted == ValidateSchema(doc) /\ Quoted(doc) \subseteq Quotable

ScriptInv ==
  /\ pos \in Nat
  /\ \/ /\ route \in {"diff", "dsl"}
        /\ doc = Nothing /\ from \in Schemas /\ to \in Schemas
        /\ Buildable(from) /\ found \in Holdings /\ Standing(Tables(from), found)
     \/ /\ route = "schema"
        /\ doc \in Documents /\ from = <<>> /\ to = doc.tables
        /\ phase \notin {"compile", "rejected"} => Accepted
  /\ phase = "compile" => /\ route = "schema" /\ script = <<>> /\ pos = 0
                          /\ database = Tables(from) /\ objects = {}
  /\ phase = "rejected" => route = "schema" /\ ~Accepted
  /\ phase = "up" => UpAndRunning /\ pos <= Len(script)
  /\ phase = "down" => DownAndRunning /\ pos <= Len(script)
  /\ phase = "refused" => UpAndRunning /\ pos < Len(script) /\ (Stumbles \/ RowsMayRefuse)
  /\ phase = "stuck" => DownAndRunning /\ pos < Len(script) /\ (Stumbles \/ RowsMayRefuse)
  /\ phase = "done" => /\ pos = Len(script)
                       /\ DownAndRunning \/ route # "dsl"

----------------------------------------------------------------------------
(* A compiled document.                                                    *)

LEMMA NoTables == IsSchema(<<>>) /\ Tables(<<>>) = <<>> /\ \A n : ~Has(<<>>, n)
<1>1. Range(<<>>) = {} /\ DOMAIN <<>> = {} /\ <<>> \in Seq({})
  BY DEF Range
<1>2. UniqueNames(<<>>)
  BY <1>1 DEF UniqueNames, IsSeq
<1>3. \A n : ~Has(<<>>, n)
  BY <1>1 DEF Has
<1> QED BY <1>1, <1>2, <1>3 DEF IsSchema, Tables

LEMMA ValidDocument ==
  ASSUME NEW d \in Documents, ValidateSchema(d)
  PROVE  IsSchema(d.tables) /\ \A t \in Range(d.tables) : UniqueNames(t.indexes)
<1>1. IsSeq(d.tables) /\ \A t \in Range(d.tables) : IsSeq(t.fields) /\ IsSeq(t.indexes)
  BY DocumentsAssumption
<1>2. ASSUME NEW s, IsInjective(Names(s)) PROVE \A i, j \in DOMAIN s : s[i].name = s[j].name => i = j
  BY <1>2 DEF IsInjective, Names
<1>3. ASSUME NEW t \in Range(d.tables) PROVE IsInjective(Names(t.fields)) /\ IsInjective(Names(t.indexes))
  <2>1. PICK i \in DOMAIN d.tables : d.tables[i] = t
    BY DEF Range
  <2> QED BY <2>1 DEF ValidateSchema, ValidFields, ValidIndexes, Distinct
<1>4. IsInjective(Names(d.tables))
  BY DEF ValidateSchema, Distinct
<1>5. UniqueNames(d.tables)
  BY <1>1, <1>2, <1>4 DEF UniqueNames
<1>6. \A t \in Range(d.tables) : UniqueNames(t.fields) /\ UniqueNames(t.indexes)
  BY <1>1, <1>2, <1>3 DEF UniqueNames
<1> QED BY <1>5, <1>6 DEF IsSchema

TableStatements(d) == Each(d.tables, CreateTable)
IndexStatements(d) ==
  FlattenSeq(Each(d.tables, LAMBDA t : Each(t.indexes, LAMBDA x : CreateIndex(t, x))))
RelationStatements(d) == Each(d.relations, CreateRelation)

\* Its statements are for every table, every index and every relation, in this order; no table
\* or index is asked for twice.
LEMMA TablesListed ==
  ASSUME NEW d \in Documents, ValidateSchema(d)
  PROVE  /\ IsSeq(TableStatements(d)) /\ IsInjective(TableStatements(d))
         /\ \A x : x \in Range(TableStatements(d)) <=> \E t \in Range(d.tables) : x = CreateTable(t)
<1> DEFINE g == [t \in Range(d.tables) |-> CreateTable(t)]
<1>1. UniqueNames(d.tables) /\ IsSeq(d.tables)
  BY ValidDocument DEF IsSchema, UniqueNames
<1>2. IsInjective(d.tables)
  BY <1>1 DEF UniqueNames, IsInjective
<1>3. \A t, u \in Range(d.tables) : t.name = u.name => t = u
  BY <1>1 DEF UniqueNames, Range
<1>4. \A t, u \in Range(d.tables) : g[t] = g[u] => t = u
  BY <1>3 DEF CreateTable
<1>5. TableStatements(d) = [i \in DOMAIN d.tables |-> g[d.tables[i]]]
  BY DEF TableStatements, Each, Range
<1>6. \A t \in Range(d.tables) : g[t] = CreateTable(t)
  OBVIOUS
<1> HIDE DEF g
<1> QED BY <1>1, <1>2, <1>4, <1>5, <1>6, Mapped

LEMMA IndexesOfTable ==
  ASSUME NEW t, UniqueNames(t.indexes)
  PROVE  LET s == Each(t.indexes, LAMBDA x : CreateIndex(t, x)) IN
         /\ IsSeq(s) /\ IsInjective(s)
         /\ \A y : y \in Range(s) <=> \E x \in Range(t.indexes) : y = CreateIndex(t, x)
<1> DEFINE g == [x \in Range(t.indexes) |-> CreateIndex(t, x)]
           s == Each(t.indexes, LAMBDA x : CreateIndex(t, x))
<1>1. IsSeq(t.indexes) /\ IsInjective(t.indexes)
  BY DEF UniqueNames, IsInjective
<1>2. \A x, y \in Range(t.indexes) : x.name = y.name => x = y
  BY DEF UniqueNames, Range
<1>3. \A x, y \in Range(t.indexes) : g[x] = g[y] => x = y
  BY <1>2 DEF CreateIndex
<1>4. s = [i \in DOMAIN t.indexes |-> g[t.indexes[i]]]
  BY DEF Each, Range
<1>5. \A x \in Range(t.indexes) : g[x] = CreateIndex(t, x)
  OBVIOUS
<1> HIDE DEF g, s
<1>6. IsSeq(s) /\ IsInjective(s) /\ \A y : y \in Range(s) <=> \E x \in Range(t.indexes) : y = g[x]
  BY <1>1, <1>3, <1>4, Mapped
<1>7. IsSeq(s) /\ IsInjective(s)
      /\ \A y : y \in Range(s) <=> \E x \in Range(t.indexes) : y = CreateIndex(t, x)
  BY <1>5, <1>6
<1> QED BY <1>7 DEF s

LEMMA IndexesListed ==
  ASSUME NEW d \in Documents, ValidateSchema(d)
  PROVE  /\ IsSeq(IndexStatements(d)) /\ IsInjective(IndexStatements(d))
         /\ \A y : y \in Range(IndexStatements(d)) <=>
              \E t \in Range(d.tables) : \E x \in Range(t.indexes) : y = CreateIndex(t, x)
<1> DEFINE f(t) == Each(t.indexes, LAMBDA x : CreateIndex(t, x))
           g == [t \in Range(d.tables) |-> f(t)]
           ss == [i \in DOMAIN d.tables |-> g[d.tables[i]]]
<1>1. /\ IsSeq(d.tables)
      /\ \A i, j \in DOMAIN d.tables : d.tables[i].name = d.tables[j].name => i = j
      /\ \A t \in Range(d.tables) : UniqueNames(t.indexes)
  BY ValidDocument DEF IsSchema, UniqueNames
<1>2. \A t \in Range(d.tables) :
        /\ IsSeq(f(t)) /\ IsInjective(f(t))
        /\ \A y : y \in Range(f(t)) <=> \E x \in Range(t.indexes) : y = CreateIndex(t, x)
  BY <1>1, IndexesOfTable
<1>3. IndexStatements(d) = FlattenSeq(ss)
  <2>1. Each(d.tables, LAMBDA t : Each(t.indexes, LAMBDA x : CreateIndex(t, x))) = ss
    BY DEF Each, Range
  <2> QED BY <2>1 DEF IndexStatements
<1>4. \A t \in Range(d.tables) : g[t] = f(t)
  OBVIOUS
<1> HIDE DEF f, g
<1>5. IsSeq(ss) /\ \A x : x \in Range(ss) <=> \E t \in Range(d.tables) : x = g[t]
  BY <1>1, MappedRange
<1>6. \A x \in Range(ss) : IsSeq(x) /\ IsInjective(x)
  BY <1>2, <1>4, <1>5
<1>7. ASSUME NEW i \in DOMAIN ss, NEW j \in DOMAIN ss, i # j
      PROVE  Range(ss[i]) \cap Range(ss[j]) = {}
  <2>1. /\ i \in DOMAIN d.tables /\ j \in DOMAIN d.tables
        /\ ss[i] = g[d.tables[i]] /\ ss[j] = g[d.tables[j]]
        /\ d.tables[i] \in Range(d.tables) /\ d.tables[j] \in Range(d.tables)
    BY DEF Range
  <2>2. d.tables[i].name # d.tables[j].name
    BY <1>1, <1>7, <2>1
  <2>3. ASSUME NEW y, y \in Range(ss[i]), y \in Range(ss[j]) PROVE FALSE
    <3>1. \E x : y = CreateIndex(d.tables[i], x)
      BY <1>2, <1>4, <2>1, <2>3
    <3>2. \E x : y = CreateIndex(d.tables[j], x)
      BY <1>2, <1>4, <2>1, <2>3
    <3> QED BY <2>2, <3>1, <3>2 DEF CreateIndex
  <2> QED BY <2>3
<1> HIDE DEF ss
<1>8. IsSeq(FlattenSeq(ss)) /\ Range(FlattenSeq(ss)) = UNION {Range(x) : x \in Range(ss)}
  BY <1>5, <1>6, FlattenedRange
<1>9. IsInjective(FlattenSeq(ss))
  BY <1>5, <1>6, <1>7, FlattenedOnce
<1>10. ASSUME NEW y
       PROVE  y \in Range(FlattenSeq(ss)) <=>
                \E t \in Range(d.tables) : \E x \in Range(t.indexes) : y = CreateIndex(t, x)
  BY <1>2, <1>4, <1>5, <1>8
<1> QED BY <1>3, <1>8, <1>9, <1>10

LEMMA RelationsListed ==
  ASSUME NEW d \in Documents
  PROVE  /\ IsSeq(RelationStatements(d)) /\ Len(RelationStatements(d)) = Len(d.relations)
         /\ \A i \in 1 .. Len(d.relations) : RelationStatements(d)[i] = CreateRelation(d.relations[i])
         /\ \A y : y \in Range(RelationStatements(d)) <=>
              \E r \in Range(d.relations) : y = CreateRelation(r)
<1> DEFINE g == [r \in Range(d.relations) |-> CreateRelation(r)]
<1>1. IsSeq(d.relations)
  BY DocumentsAssumption
<1>2. RelationStatements(d) = [i \in DOMAIN d.relations |-> g[d.relations[i]]]
  BY DEF RelationStatements, Each, Range
<1>3. \A r \in Range(d.relations) : g[r] = CreateRelation(r)
  OBVIOUS
<1>4. /\ DOMAIN d.relations = 1 .. Len(d.relations)
      /\ \A i \in 1 .. Len(d.relations) : d.relations[i] \in Range(d.relations)
  BY <1>1, SeqFacts
<1> HIDE DEF g
<1>5. \A i \in 1 .. Len(d.relations) : RelationStatements(d)[i] = CreateRelation(d.relations[i])
  BY <1>2, <1>3, <1>4
<1>6. /\ IsSeq(RelationStatements(d)) /\ Len(RelationStatements(d)) = Len(d.relations)
      /\ \A y : y \in Range(RelationStatements(d)) <=> \E r \in Range(d.relations) : y = g[r]
  <2> DEFINE m == RelationStatements(d)
             rs == d.relations
  <2>1. IsSeq(rs) /\ m = [i \in DOMAIN rs |-> g[rs[i]]]
    BY <1>1, <1>2
  <2> HIDE DEF m, rs
  <2>2. IsSeq(m) /\ Len(m) = Len(rs) /\ \A y : y \in Range(m) <=> \E r \in Range(rs) : y = g[r]
    BY <2>1, MappedRange
  <2> QED BY <2>2 DEF m, rs
<1>7. \A y : y \in Range(RelationStatements(d)) <=> \E r \in Range(d.relations) : y = CreateRelation(r)
  BY <1>3, <1>6
<1> QED BY <1>5, <1>6, <1>7

\* The statements of a compiled document, a part at a time.
LEMMA CompiledParts ==
  ASSUME NEW d \in Documents, ValidateSchema(d)
  PROVE  LET A == TableStatements(d)
             B == IndexStatements(d)
             C == RelationStatements(d)
             s == CompileSchemaSql(d)
         IN
         /\ IsSeq(s) /\ Len(s) = Len(A) + Len(B) + Len(C)
         /\ Range(s) = Range(A) \cup Range(B) \cup Range(C)
         /\ Len(A) \in Nat /\ Len(B) \in Nat /\ Len(C) \in Nat
         /\ \A i \in 1 .. Len(A) : s[i] = A[i] /\ s[i] \in Range(A)
         /\ \A i \in 1 .. Len(B) : s[Len(A) + i] = B[i] /\ s[Len(A) + i] \in Range(B)
         /\ \A i \in 1 .. Len(C) : s[Len(A) + Len(B) + i] = C[i]
                                   /\ s[Len(A) + Len(B) + i] \in Range(C)
<1> DEFINE A == TableStatements(d)
           B == IndexStatements(d)
           C == RelationStatements(d)
           s == CompileSchemaSql(d)
<1>1. s = A \o B \o C
  BY DEF CompileSchemaSql, TableStatements, IndexStatements, RelationStatements
<1>2. IsSeq(A) /\ IsSeq(B) /\ IsSeq(C)
  BY TablesListed, IndexesListed, RelationsListed
<1> HIDE DEF A, B, C, s
<1>3. IsSeq(A \o B) /\ Range(A \o B) = Range(A) \cup Range(B)
  BY <1>2, JoinedRange
<1>4. IsSeq(s) /\ Range(s) = Range(A) \cup Range(B) \cup Range(C)
  BY <1>1, <1>2, <1>3, JoinedRange
<1>5. /\ Len(A) \in Nat /\ Len(B) \in Nat /\ Len(C) \in Nat
      /\ DOMAIN A = 1 .. Len(A) /\ DOMAIN B = 1 .. Len(B) /\ DOMAIN C = 1 .. Len(C)
      /\ \A i \in 1 .. Len(A) : A[i] \in Range(A)
      /\ \A i \in 1 .. Len(B) : B[i] \in Range(B)
      /\ \A i \in 1 .. Len(C) : C[i] \in Range(C)
  BY <1>2, SeqFacts
<1>6. /\ Len(s) = Len(A) + Len(B) + Len(C)
      /\ \A i \in 1 .. Len(A) : s[i] = A[i]
      /\ \A i \in 1 .. Len(B) : s[Len(A) + i] = B[i]
      /\ \A i \in 1 .. Len(C) : s[Len(A) + Len(B) + i] = C[i]
  BY <1>1, <1>2, <1>5 DEF IsSeq
<1> QED BY <1>4, <1>5, <1>6 DEF A, B, C, s

----------------------------------------------------------------------------
(* What scripts ask for.                                                   *)

LEMMA AskedIsOfTables ==
  ASSUME NEW a, NEW b, NEW x, Asked(x, a, b)
  PROVE  ~IsObject(x)
  BY DEF Asked, ColumnAsked, CreateTable, DropTable, AddColumn, DropColumn, AlterColumn, IsObject

\* Statements on tables are those that make one schema the other, whichever route
\* has written the script.
LEMMA UpScriptAsks ==
  ASSUME NEW a \in Schemas, NEW b \in Schemas, NEW r
  PROVE  LET p == UpScript(r, a, b) IN
         /\ IsSeq(p) /\ IsInjective(p)
         /\ \A x : x \in Range(p) <=> Asked(x, a, b)
<1>1. IsSchema(a) /\ IsSchema(b)
  BY ValidatedAssumption
<1> QED BY <1>1, PlanIsAsked, UpIsAsked DEF UpScript

LEMMA CompiledAsks ==
  ASSUME NEW d \in Documents, ValidateSchema(d)
  PROVE  LET p == CompileSchemaSql(d) IN
         /\ IsSeq(p)
         /\ \A x : x \in Range(p) /\ ~IsObject(x) <=> Asked(x, <<>>, d.tables)
         /\ \A x : x \in Range(p) /\ IsObject(x) <=> x \in Wanted(d)
<1>1. Range(<<>>) = {}
  BY DEF Range
<1>2. \A x : Asked(x, <<>>, d.tables) <=> \E t \in Range(d.tables) : x = CreateTable(t)
  BY <1>1, NoTables DEF Asked
<1>3. \A x : x \in Wanted(d) <=>
        \/ \E t \in Range(d.tables) : \E y \in Range(t.indexes) : x = CreateIndex(t, y)
        \/ \E r \in Range(d.relations) : x = CreateRelation(r)
  <2> DEFINE W(t) == {CreateIndex(t, y) : y \in Range(t.indexes)}
             I == UNION {W(t) : t \in Range(d.tables)}
             R == {CreateRelation(r) : r \in Range(d.relations)}
  <2>1. Wanted(d) = I \cup R
    BY DEF Wanted
  <2>2. \A x, t : x \in W(t) <=> \E y \in Range(t.indexes) : x = CreateIndex(t, y)
    OBVIOUS
  <2>3. \A x : x \in R <=> \E r \in Range(d.relations) : x = CreateRelation(r)
    OBVIOUS
  <2>4. \A x : x \in I <=> \E t \in Range(d.tables) : x \in W(t)
    <3> HIDE DEF W
    <3> QED OBVIOUS
  <2> HIDE DEF W, I, R
  <2> QED BY <2>1, <2>2, <2>3, <2>4
<1>4. ASSUME NEW x
      PROVE  /\ x \in Range(TableStatements(d)) <=> Asked(x, <<>>, d.tables)
             /\ x \in Range(IndexStatements(d)) \/ x \in Range(RelationStatements(d)) <=> x \in Wanted(d)
  BY <1>2, <1>3, TablesListed, IndexesListed, RelationsListed
<1>5. \A x \in Wanted(d) : IsObject(x)
  BY <1>3 DEF CreateIndex, CreateRelation, IsObject
<1>6. IsSeq(CompileSchemaSql(d))
      /\ \A x : x \in Range(CompileSchemaSql(d)) <=> Asked(x, <<>>, d.tables) \/ x \in Wanted(d)
  BY <1>4, CompiledParts
<1> QED BY <1>5, <1>6, AskedIsOfTables

----------------------------------------------------------------------------
(* Where they lead.                                                        *)

LEMMA TargetIsGoal == Target = Goal(Tables(from), to)
  BY DEF Target, Goal

\* Migrating there and back changes nothing, nullability included.
LEMMA ThereAndBack ==
  ASSUME NEW a, NEW b
  PROVE  Goal(Goal(Tables(a), b), a) = Tables(a)
<1> DEFINE d == Tables(a)
           e == Goal(d, b)
           f == Goal(e, a)
<1>1. IsDatabase(d) /\ DOMAIN f = DOMAIN d /\ IsMap(f)
  BY TablesAt DEF Goal, IsMap
<1>2. LikeSchema(e, b) /\ \A t : Has(b, t) => \A c :
        Has(Named(b, t).fields, c) /\ t \in DOMAIN d /\ c \in DOMAIN d[t] => e[t][c].nullable = d[t][c].nullable
  <2>1. LikeSchema(e, b)
    BY GoalAt
  <2>2. ASSUME NEW t, Has(b, t), NEW c, Has(Named(b, t).fields, c), t \in DOMAIN d, c \in DOMAIN d[t]
        PROVE  e[t][c].nullable = d[t][c].nullable
    <3>1. e[t][c] = [type |-> Named(Named(b, t).fields, c).type, nullable |-> d[t][c].nullable]
      BY <2>2, GoalAt
    <3> QED BY <3>1
  <2> QED BY <2>1, <2>2
<1>3. ASSUME NEW t \in DOMAIN d, NEW c \in DOMAIN d[t]
      PROVE  f[t][c] = d[t][c]
  <2>1. d[t][c] = [type |-> d[t][c].type, nullable |-> d[t][c].nullable]
    BY <1>1 DEF IsDatabase, IsTable, IsColumn
  <2>2. f[t][c] = IF t \in DOMAIN e /\ c \in DOMAIN e[t]
                    THEN [d[t][c] EXCEPT !.nullable = e[t][c].nullable] ELSE d[t][c]
    <3> HIDE DEF e
    <3> QED BY DEF Goal
  <2>3. CASE t \in DOMAIN e /\ c \in DOMAIN e[t]
    <3>1. e[t][c].nullable = d[t][c].nullable
      <4>1. Has(b, t) /\ Has(Named(b, t).fields, c)
        <5> HIDE DEF e
        <5> QED BY <1>2, <2>3 DEF LikeSchema
      <4> QED BY <1>2, <4>1
    <3> HIDE DEF d, e, f
    <3>2. [d[t][c] EXCEPT !.nullable = d[t][c].nullable] = d[t][c]
      <4> DEFINE x == d[t][c].type
                 y == d[t][c].nullable
      <4>1. d[t][c] = [type |-> x, nullable |-> y]
        BY <2>1
      <4> HIDE DEF x, y
      <4> QED BY <4>1
    <3> QED BY <2>2, <2>3, <3>1, <3>2
  <2> HIDE DEF d, e, f
  <2> QED BY <2>2, <2>3
<1>4. ASSUME NEW t \in DOMAIN d
      PROVE  f[t] = d[t]
  <2>1. IsMap(d[t])
    BY <1>1 DEF IsDatabase, IsTable
  <2>2. DOMAIN f[t] = DOMAIN d[t] /\ IsMap(f[t])
    <3> HIDE DEF d, e
    <3>0. DOMAIN Tables(a) = DOMAIN d /\ Tables(a)[t] = d[t]
      BY DEF d
    <3> QED BY <3>0 DEF Goal, IsMap
  <2>3. \A c \in DOMAIN d[t] : f[t][c] = d[t][c]
    BY <1>3
  <2> HIDE DEF d, e, f
  <2> QED BY <2>1, <2>2, <2>3 DEF IsMap
<1>5. IsMap(d)
  BY <1>1 DEF IsDatabase
<1> HIDE DEF d, e, f
<1>6. f = d
  BY <1>1, <1>4, <1>5 DEF IsMap
<1> QED BY <1>6 DEF d, e, f

\* A script of what is asked, run to its end, is at its goal; on the way, each of
\* its statements takes it further.
LEMMA ScriptLeads ==
  ASSUME NEW a, NEW b, IsSchema(a), IsSchema(b), NEW d, LikeSchema(d, a), IsSeq(script),
         \A x : x \in Range(script) /\ ~IsObject(x) <=> Asked(x, a, b)
  PROVE  LET e == Goal(d, b) IN
         /\ IsDatabase(d) /\ IsDatabase(e)
         /\ \A n \in 0 .. Len(script) : \A x \in RunOnTables(n) : Fits(x, d, e)
         /\ \A i \in 1 .. Len(script) : ~IsObject(script[i]) => Fits(script[i], d, e)
         /\ Covers(RunOnTables(Len(script)), d, e)
<1> DEFINE e == Goal(d, b)
           n == Len(script)
<1>1. IsDatabase(d) /\ IsDatabase(e)
  BY GoalAt DEF LikeSchema
<1>2. \A x : Asked(x, a, b) => Fits(x, d, e)
  BY AskedFits
<1>3. /\ n \in Nat /\ DOMAIN script = 1 .. n
      /\ \A i \in 1 .. n : script[i] \in Range(script)
      /\ \A x \in Range(script) : \E i \in 1 .. n : script[i] = x
  BY SeqFacts
<1> HIDE DEF e, n
<1>4. \A i \in 1 .. n : ~IsObject(script[i]) => Fits(script[i], d, e)
  BY <1>2, <1>3
<1>5. ASSUME NEW m \in 0 .. n, NEW x \in RunOnTables(m) PROVE Fits(x, d, e)
  <2>1. PICK i \in 1 .. m : ~IsObject(script[i]) /\ x = script[i]
    BY DEF RunOnTables
  <2>2. i \in 1 .. n
    BY <1>3
  <2> QED BY <1>4, <2>1, <2>2
<1>6. \A x : x \in RunOnTables(n) <=> Asked(x, a, b)
  BY <1>3 DEF RunOnTables
<1>7. Covers(RunOnTables(n), d, e)
  <2> HIDE DEF RunOnTables
  <2> QED BY <1>6, AskedCovers DEF e
<1> QED BY <1>1, <1>4, <1>5, <1>7 DEF e, n

\* On every route a script is written for what makes one schema the other.
LEMMA UpWay ==
  ASSUME ScriptInv, UpAndRunning, phase \notin {"compile", "rejected"}
  PROVE  /\ IsSchema(from) /\ IsSchema(to) /\ LikeSchema(Tables(from), from)
         /\ IsSeq(script)
         /\ \A x : x \in Range(script) /\ ~IsObject(x) <=> Asked(x, from, to)
         /\ \A x : x \in Range(script) /\ IsObject(x) <=> x \in Wanted(doc)
         /\ route = "schema" => doc \in Documents /\ ValidateSchema(doc)
         /\ route # "schema" => IsInjective(script) /\ \A x \in Range(script) : ~IsObject(x)
<1>1. LikeSchema(Tables(from), from)
  BY LikeItself
<1>2. CASE route = "schema"
  <2>1. doc \in Documents /\ from = <<>> /\ to = doc.tables /\ ValidateSchema(doc)
    BY <1>2 DEF ScriptInv, Accepted
  <2>2. IsSchema(from) /\ IsSchema(to)
    BY <2>1, NoTables, ValidDocument
  <2>3. script = CompileSchemaSql(doc)
    BY <1>2 DEF UpAndRunning
  <2>4. /\ IsSeq(script)
        /\ \A x : x \in Range(script) /\ ~IsObject(x) <=> Asked(x, <<>>, doc.tables)
        /\ \A x : x \in Range(script) /\ IsObject(x) <=> x \in Wanted(doc)
    BY <2>1, <2>3, CompiledAsks
  <2> QED BY <1>1, <1>2, <2>1, <2>2, <2>4
<1>3. CASE route # "schema"
  <2>1. doc = Nothing /\ from \in Schemas /\ to \in Schemas
    BY <1>3 DEF ScriptInv
  <2>2. IsSchema(from) /\ IsSchema(to)
    BY <2>1, ValidatedAssumption
  <2>3. script = UpScript(route, from, to)
    BY <1>3 DEF UpAndRunning
  <2>4. IsSeq(script) /\ IsInjective(script) /\ \A x : x \in Range(script) <=> Asked(x, from, to)
    BY <2>1, <2>3, UpScriptAsks
  <2>5. Wanted(doc) = {}
    <3>1. Nothing.tables = <<>> /\ Nothing.relations = <<>> /\ Range(<<>>) = {}
      BY DEF Nothing, Range
    <3> QED BY <2>1, <3>1 DEF Wanted
  <2>6. \A x \in Range(script) : ~IsObject(x)
    BY <2>4, AskedIsOfTables
  <2> QED BY <1>1, <1>3, <2>2, <2>4, <2>5, <2>6
<1> QED BY <1>2, <1>3

LEMMA WayBack ==
  ASSUME ScriptInv, route = "dsl"
  PROVE  LET p == DownScript(from, to) IN
         /\ IsSchema(from) /\ IsSchema(to) /\ LikeSchema(Target, to)
         /\ Goal(Target, from) = Tables(from)
         /\ IsSeq(p) /\ IsInjective(p)
         /\ \A x : x \in Range(p) <=> Asked(x, to, from)
<1>1. IsSchema(from) /\ IsSchema(to)
  BY ValidatedAssumption DEF ScriptInv
<1>2. LikeSchema(Target, to) /\ Goal(Target, from) = Tables(from)
  BY TargetIsGoal, GoalAt, ThereAndBack
<1> QED BY <1>1, <1>2, DownIsAsked DEF DownScript

\* The statements that have been run, one more each time.
LEMMA OneMore ==
  ASSUME pos \in Nat
  PROVE  /\ RunOnTables(0) = {} /\ RunOnObjects(0) = {}
         /\ IsObject(NextStatement) => /\ RunOnTables(pos + 1) = RunOnTables(pos)
                                       /\ RunOnObjects(pos + 1) = RunOnObjects(pos) \cup {NextStatement}
         /\ ~IsObject(NextStatement) => /\ RunOnTables(pos + 1) = RunOnTables(pos) \cup {NextStatement}
                                        /\ RunOnObjects(pos + 1) = RunOnObjects(pos)
<1>1. 1 .. 0 = {} /\ 1 .. (pos + 1) = (1 .. pos) \cup {pos + 1}
  OBVIOUS
<1>2. RunOnTables(0) = {} /\ RunOnObjects(0) = {}
  BY <1>1 DEF RunOnTables, RunOnObjects
<1>3. \A n, x : /\ x \in RunOnTables(n) <=> \E i \in 1 .. n : x = script[i] /\ ~IsObject(script[i])
                /\ x \in RunOnObjects(n) <=> \E i \in 1 .. n : x = script[i] /\ IsObject(script[i])
  BY DEF RunOnTables, RunOnObjects
<1>4. \A x : /\ x \in RunOnTables(pos + 1) <=>
                  x \in RunOnTables(pos) \/ (x = NextStatement /\ ~IsObject(NextStatement))
             /\ x \in RunOnObjects(pos + 1) <=>
                  x \in RunOnObjects(pos) \/ (x = NextStatement /\ IsObject(NextStatement))
  <2> HIDE DEF RunOnTables, RunOnObjects
  <2> QED BY <1>1, <1>3 DEF NextStatement
<1> HIDE DEF RunOnTables, RunOnObjects, IsObject, NextStatement
<1> QED BY <1>2, <1>4

LEMMA NotStarted ==
  ASSUME NEW d, NEW e, IsDatabase(d)
  PROVE  Between(d, d, e, {})
  BY DEF Between, Handled, Concerned, SameAt

\* What a database holds is made of what it has.
LEMMA StandsOnColumns ==
  ASSUME NEW h \in Holdings, NEW d, Standing(d, h), NEW x \in h
  PROVE  /\ OnColumnsOf(x, d)
         /\ x.op = "create_index" => x.name \notin DOMAIN d
         /\ x.op = "add_relation" => x.toTable \in DOMAIN d /\ x.toField \in DOMAIN d[x.toTable]
<1>1. x.op \in {"create_index", "add_relation"}
  BY HoldingsAssumption
<1>2. ~RefusedObject(d, h \ {x}, x)
  BY DEF Standing
<1> QED BY <1>1, <1>2 DEF RefusedObject, OnColumnsOf, OwnColumns

\* What a statement does not take along stays on the columns it is made of ...
LEMMA ReleasedStays ==
  ASSUME NEW d, IsDatabase(d), NEW p, NEW s, ~Refused(d, p, s), NEW X, NEW x \in Released(X, s),
         OnColumnsOf(x, d)
  PROVE  x \in X /\ OnColumnsOf(x, Effect(d, s))
<1>1. IsMap(d) /\ IsMap(Effect(d, s)) /\ x.table \in DOMAIN d /\ OwnColumns(x) \subseteq DOMAIN d[x.table]
  BY EffectIsMap DEF IsDatabase, OnColumnsOf
<1>2. x \in X
  BY DEF Released
<1>3. CASE x.table # s.table
  <2>1. SameAt(Effect(d, s), d, x.table)
    BY <1>1, <1>3, EffectElsewhere
  <2> QED BY <1>1, <1>2, <2>1 DEF SameAt, OnColumnsOf
<1>4. CASE x.table = s.table
  <2>1. s.op # "create_table" /\ s.op # "drop_table"
    BY <1>1, <1>4 DEF Refused, Released
  <2>2. CASE s.op = "add_column"
    <3>1. x.table \in DOMAIN Effect(d, s) /\ Effect(d, s)[x.table] = WithColumn(d[x.table], s.field)
      BY <1>1, <1>4, <2>2 DEF Effect
    <3>2. DOMAIN d[x.table] \subseteq DOMAIN Effect(d, s)[x.table]
      BY <3>1 DEF WithColumn
    <3> QED BY <1>1, <1>2, <3>1, <3>2 DEF OnColumnsOf
  <2>3. CASE s.op = "drop_column"
    <3>1. /\ x.table \in DOMAIN Effect(d, s)
          /\ Effect(d, s)[x.table] = [c \in DOMAIN d[x.table] \ {s.column} |-> d[x.table][c]]
      BY <1>1, <1>4, <2>3 DEF Effect
    <3>2. s.column \notin OwnColumns(x)
      BY <1>4, <2>3 DEF Released
    <3> QED BY <1>1, <1>2, <3>1, <3>2 DEF OnColumnsOf
  <2>4. CASE s.op \notin {"add_column", "drop_column"}
    <3>1. x.table \in DOMAIN Effect(d, s) /\ DOMAIN Effect(d, s)[x.table] = DOMAIN d[x.table]
      BY <1>1, <1>4, <2>1, <2>4 DEF Effect
    <3> QED BY <1>1, <1>2, <3>1 DEF OnColumnsOf
  <2> QED BY <2>2, <2>3, <2>4
<1> QED BY <1>3, <1>4

\* ... and what it takes along was made of what it drops.
LEMMA TakenAlong ==
  ASSUME NEW d, IsDatabase(d), NEW s, NEW X, NEW x \in X, OnColumnsOf(x, Effect(d, s))
  PROVE  x \in Released(X, s)
<1>1. x.table \in DOMAIN Effect(d, s) /\ OwnColumns(x) \subseteq DOMAIN Effect(d, s)[x.table] /\ IsMap(d)
  BY DEF OnColumnsOf, IsDatabase
<1>2. CASE s.op = "drop_table"
  <2>1. x.table # s.table
    BY <1>1, <1>2 DEF Effect
  <2> QED BY <1>2, <2>1 DEF Released
<1>3. CASE s.op = "drop_column"
  <2>1. x.table = s.table => s.column \notin OwnColumns(x)
    BY <1>1, <1>3 DEF Effect, IsMap
  <2> QED BY <1>3, <2>1 DEF Released
<1>4. CASE s.op \notin {"drop_table", "drop_column"}
  BY <1>4 DEF Released
<1> QED BY <1>2, <1>3, <1>4

\* A statement on the way from d adds no column that something on d is made of.
LEMMA NothingNewIsOld ==
  ASSUME NEW d, NEW e, NEW f, IsDatabase(f), NEW s, Fits(s, d, e), NEW x, OnColumnsOf(x, d),
         OnColumnsOf(x, Effect(f, s))
  PROVE  OnColumnsOf(x, f)
<1>1. IsMap(f) /\ IsMap(Effect(f, s))
  BY EffectIsMap DEF IsDatabase
<1>2. CASE x.table # s.table
  <2>1. SameAt(Effect(f, s), f, x.table)
    BY <1>1, <1>2, EffectElsewhere
  <2> QED BY <2>1 DEF SameAt, OnColumnsOf
<1>3. CASE x.table = s.table
  <2>1. s.op \notin {"create_table", "drop_table"}
    BY <1>1, <1>3 DEF Fits, OnColumnsOf, Effect
  <2>2. x.table \in DOMAIN f
    BY <1>1, <2>1 DEF Effect, OnColumnsOf
  <2>3. CASE s.op = "add_column"
    <3>1. Effect(f, s)[x.table] = WithColumn(f[x.table], s.field)
      BY <1>1, <1>3, <2>2, <2>3 DEF Effect
    <3>2. s.field.name \notin OwnColumns(x)
      BY <1>3, <2>3 DEF Fits, ColumnOf, OnColumnsOf
    <3> QED BY <2>2, <3>1, <3>2 DEF OnColumnsOf, WithColumn
  <2>4. CASE s.op # "add_column"
    <3>1. DOMAIN Effect(f, s)[x.table] \subseteq DOMAIN f[x.table]
      BY <1>1, <1>3, <2>1, <2>2, <2>4 DEF Effect
    <3> QED BY <2>2, <3>1 DEF OnColumnsOf
  <2> QED BY <2>3, <2>4
<1> QED BY <1>2, <1>3

----------------------------------------------------------------------------
(* The invariant.                                                          *)

LEMMA InitiallyScript == ScriptInit => ScriptInv
<1> SUFFICES ASSUME ScriptInit PROVE ScriptInv
  OBVIOUS
<1>1. pos = 0 /\ database = Tables(from) /\ objects = found
  BY DEF ScriptInit
<1>2. RunOnTables(0) = {} /\ RunOnObjects(0) = {} /\ IsDatabase(Tables(from))
  BY TablesAt DEF RunOnTables, RunOnObjects
<1>3. Between(database, Tables(from), Target, RunOnTables(pos))
  BY <1>1, <1>2, NotStarted
<1>4. CASE route = "schema"
  BY <1>1, <1>4 DEF ScriptInit, ScriptInv
<1>5. CASE route # "schema"
  <2>1. /\ route \in {"diff", "dsl"} /\ doc = Nothing /\ from \in Schemas /\ to \in Schemas
        /\ script = UpScript(route, from, to) /\ phase = "up"
        /\ Buildable(from) /\ found \in Holdings /\ Standing(Tables(from), found)
    BY <1>5 DEF ScriptInit
  <2>2. Len(script) \in Nat
    BY <2>1, UpScriptAsks, SeqFacts
  <2>3. objects = StillThere
    BY <1>1, <2>1, StandsOnColumns DEF StillThere
  <2>4. UpAndRunning
    BY <1>3, <1>5, <2>1, <2>3 DEF UpAndRunning
  <2> QED BY <1>1, <2>1, <2>2, <2>4 DEF ScriptInv
<1> QED BY <1>4, <1>5

\* What does not change when the script goes on.
LEMMA ScriptStays ==
  ASSUME script' = script
  PROVE  RunOnTables(pos)' = RunOnTables(pos') /\ RunOnObjects(pos)' = RunOnObjects(pos')
  BY DEF RunOnTables, RunOnObjects

LEMMA TargetStays ==
  ASSUME from' = from, to' = to
  PROVE  Target' = Target
  BY DEF Target

LEMMA CompileKeeps ==
  ASSUME ScriptInv, Compile
  PROVE  ScriptInv'
<1>1. /\ phase = "compile" /\ route = "schema" /\ pos = 0 /\ database = Tables(from) /\ objects = {}
      /\ doc \in Documents /\ from = <<>> /\ to = doc.tables
  BY DEF Compile, ScriptInv
<1>2. UNCHANGED <<route, doc, objects, found, from, to, populated, database, pos>>
  BY DEF Compile
<1>3. CASE Accepted
  <2>1. phase' = "up" /\ script' = CompileSchemaSql(doc)
    BY <1>3 DEF Compile, Accepted
  <2>2. Len(script') \in Nat
    BY <1>1, <1>3, <2>1, CompiledAsks, SeqFacts DEF Accepted
  <2>3. RunOnTables(0)' = {} /\ RunOnObjects(0)' = {}
    BY DEF RunOnTables, RunOnObjects
  <2>4. Between(database, Tables(from), Target, {})
    BY <1>1, TablesAt, NotStarted
  <2>5. UpAndRunning'
    <3>1. Between(database, Tables(from), Target, {})'
      BY <1>2, <2>4, TargetStays
    <3> QED BY <1>1, <1>2, <2>1, <2>3, <3>1 DEF UpAndRunning
  <2>6. Accepted'
    BY <1>2, <1>3 DEF Accepted
  <2> QED BY <1>1, <1>2, <2>1, <2>2, <2>5, <2>6 DEF ScriptInv
<1>4. CASE ~Accepted
  <2>1. phase' = "rejected"
    BY <1>4 DEF Compile, Accepted
  <2>2. ~Accepted'
    BY <1>2, <1>4 DEF Accepted
  <2> QED BY <1>1, <1>2, <2>1, <2>2 DEF ScriptInv
<1> QED BY <1>3, <1>4

\* A statement that is not refused takes the database one step of the way.
LEMMA ExecuteLeads ==
  ASSUME pos \in Nat, pos < Len(script), Execute, NEW d, NEW e,
         IsDatabase(d), IsDatabase(e), Between(database, d, e, RunOnTables(pos)),
         \A n \in 0 .. Len(script) : \A x \in RunOnTables(n) : Fits(x, d, e)
  PROVE  /\ Between(database', d, e, RunOnTables(pos + 1))
         /\ objects = RunOnObjects(pos) /\ (OfObject \/ NextStatement.op = "create_table") =>
              objects' = RunOnObjects(pos + 1)
<1>1. OfObject <=> IsObject(NextStatement)
  BY DEF OfObject, IsObject
<1>2. CASE OfObject
  BY <1>1, <1>2, OneMore DEF Execute
<1>3. CASE ~OfObject
  <2>1. /\ database' = Effect(database, NextStatement)
        /\ NextStatement.op = "create_table" => objects' = objects
    BY <1>3 DEF Execute, Released
  <2>2. RunOnTables(pos + 1) = RunOnTables(pos) \cup {NextStatement} /\ RunOnObjects(pos + 1) = RunOnObjects(pos)
    BY <1>1, <1>3, OneMore
  <2>3. \A x \in RunOnTables(pos) : Fits(x, d, e)
    OBVIOUS
  <2>4. Fits(NextStatement, d, e)
    BY <2>2
  <2>5. Between(Effect(database, NextStatement), d, e, RunOnTables(pos) \cup {NextStatement})
    <3> HIDE DEF NextStatement
    <3> QED BY <2>3, <2>4, FittingEffect
  <2> QED BY <1>3, <2>1, <2>2, <2>5
<1> QED BY <1>2, <1>3

\* On the way up a migration keeps exactly what is made of columns that are left, and a
\* compiled document loses nothing.
LEMMA ExecuteTakes ==
  ASSUME ScriptInv, phase = "up", Execute
  PROVE  /\ route = "schema" => OfObject \/ NextStatement.op = "create_table"
         /\ route # "schema" => objects' = {x \in found : OnColumnsOf(x, database')}
<1>1. UpAndRunning /\ pos \in Nat /\ pos < Len(script)
  BY DEF ScriptInv, Execute, Running
<1>2. /\ IsSchema(from) /\ IsSchema(to) /\ LikeSchema(Tables(from), from) /\ IsSeq(script)
      /\ \A x : x \in Range(script) /\ ~IsObject(x) <=> Asked(x, from, to)
      /\ route # "schema" => \A x \in Range(script) : ~IsObject(x)
  BY <1>1, UpWay
<1>3. pos + 1 \in 1 .. Len(script)
  BY <1>1, <1>2, SeqFacts
<1>4. NextStatement \in Range(script)
  BY <1>2, <1>3, SeqFacts DEF NextStatement
<1>5. CASE route = "schema"
  <2>1. SUFFICES ASSUME ~OfObject PROVE NextStatement.op = "create_table"
    BY <1>5
  <2>2. Asked(NextStatement, from, to) /\ from = <<>>
    BY <1>2, <1>4, <1>5, <2>1 DEF OfObject, IsObject, ScriptInv
  <2>3. Range(<<>>) = {}
    BY DEF Range
  <2> HIDE DEF NextStatement
  <2> QED BY <2>2, <2>3 DEF Asked, CreateTable
<1>6. CASE route # "schema"
  <2>1. ~OfObject /\ objects = StillThere
    BY <1>1, <1>2, <1>4, <1>6 DEF OfObject, IsObject, UpAndRunning
  <2>2. /\ objects' = Released(objects, NextStatement) /\ database' = Effect(database, NextStatement)
        /\ ~Refused(database, populated, NextStatement)
    BY <2>1 DEF Execute, Stumbles
  <2>3. IsDatabase(database)
    BY <1>1 DEF UpAndRunning, Between
  <2>4. Fits(NextStatement, Tables(from), Target)
    BY <1>2, <1>3, <2>1, ScriptLeads, TargetIsGoal DEF NextStatement, OfObject, IsObject
  <2>5. \A x \in found : OnColumnsOf(x, Tables(from))
    BY <1>6, StandsOnColumns DEF ScriptInv
  <2> HIDE DEF NextStatement, Target
  <2>6. ASSUME NEW x \in objects' PROVE x \in found /\ OnColumnsOf(x, database')
    <3>1. x \in objects
      BY <2>2, <2>6 DEF Released
    <3> QED BY <2>1, <2>2, <2>3, <2>6, <3>1, ReleasedStays DEF StillThere
  <2>7. ASSUME NEW x \in found, OnColumnsOf(x, database') PROVE x \in objects'
    <3>1. OnColumnsOf(x, database)
      BY <2>2, <2>3, <2>4, <2>5, <2>7, NothingNewIsOld
    <3>2. x \in objects
      BY <2>1, <2>7, <3>1 DEF StillThere
    <3> QED BY <2>2, <2>3, <2>7, <3>2, TakenAlong
  <2> QED BY <1>6, <2>6, <2>7
<1> QED BY <1>5, <1>6

LEMMA ExecuteKeeps ==
  ASSUME ScriptInv, Execute
  PROVE  ScriptInv'
<1>1. /\ phase \in {"up", "down"} /\ pos < Len(script) /\ pos \in Nat
      /\ pos' = pos + 1
      /\ UNCHANGED <<route, doc, found, from, to, script, phase>>
  BY DEF Execute, Running, ScriptInv
<1>2. RunOnTables(pos)' = RunOnTables(pos') /\ RunOnObjects(pos)' = RunOnObjects(pos')
  BY <1>1, ScriptStays
<1>3. Target' = Target
  BY <1>1, TargetStays
<1>4. CASE phase = "up"
  <2>1. UpAndRunning
    BY <1>4 DEF ScriptInv
  <2>2. /\ IsDatabase(Tables(from)) /\ IsDatabase(Target)
        /\ \A n \in 0 .. Len(script) : \A x \in RunOnTables(n) : Fits(x, Tables(from), Target)
    BY <1>4, <2>1, UpWay, ScriptLeads, TargetIsGoal
  <2>3. Between(database', Tables(from), Target, RunOnTables(pos + 1))
        /\ objects' = IF route = "schema" THEN RunOnObjects(pos + 1)
                                          ELSE {x \in found : OnColumnsOf(x, database')}
    BY <1>1, <1>4, <2>1, <2>2, ExecuteLeads, ExecuteTakes DEF UpAndRunning
  <2>4. UpAndRunning'
    <3>1. Between(database', Tables(from'), Target', RunOnTables(pos)')
          /\ objects' = IF route' = "schema" THEN RunOnObjects(pos)' ELSE StillThere'
      BY <1>1, <1>2, <1>3, <2>3 DEF StillThere
    <3>2. script' = IF route' = "schema" THEN CompileSchemaSql(doc') ELSE UpScript(route', from', to')
      BY <1>1, <2>1 DEF UpAndRunning
    <3> QED BY <3>1, <3>2 DEF UpAndRunning
  <2>5. Len(script) \in Nat
    BY <1>4, <2>1, UpWay, SeqFacts
  <2>6. Accepted' <=> Accepted
    BY <1>1 DEF Accepted
  <2> QED BY <1>1, <1>4, <2>4, <2>5, <2>6 DEF ScriptInv
<1>5. CASE phase = "down"
  <2>1. DownAndRunning /\ route = "dsl"
    BY <1>5 DEF ScriptInv, DownAndRunning
  <2>2. /\ IsDatabase(Target) /\ IsDatabase(Tables(from)) /\ IsSeq(script)
        /\ \A n \in 0 .. Len(script) : \A x \in RunOnTables(n) : Fits(x, Target, Tables(from))
    <3>1. /\ IsSchema(from) /\ IsSchema(to) /\ LikeSchema(Target, to)
          /\ Goal(Target, from) = Tables(from) /\ IsSeq(script)
          /\ \A x : x \in Range(script) <=> Asked(x, to, from)
      BY <2>1, WayBack DEF DownAndRunning
    <3>2. \A x : x \in Range(script) /\ ~IsObject(x) <=> Asked(x, to, from)
      BY <3>1, AskedIsOfTables
    <3> HIDE DEF Target
    <3>3. /\ IsDatabase(Target) /\ IsDatabase(Goal(Target, from))
          /\ \A n \in 0 .. Len(script) : \A x \in RunOnTables(n) : Fits(x, Target, Goal(Target, from))
      BY <3>1, <3>2, ScriptLeads
    <3> QED BY <3>1, <3>3
  <2>3. Between(database', Target, Tables(from), RunOnTables(pos + 1))
    BY <1>1, <2>1, <2>2, ExecuteLeads DEF DownAndRunning
  <2>4. DownAndRunning'
    <3>1. Between(database', Target', Tables(from'), RunOnTables(pos)')
      BY <1>1, <1>2, <1>3, <2>3
    <3>2. objects \subseteq StillThere /\ IsDatabase(database)
      BY <2>1 DEF DownAndRunning, Between
    <3>3. ~OfObject
      <4>1. pos + 1 \in 1 .. Len(script)
        BY <1>1, <2>2, SeqFacts
      <4>2. NextStatement \in Range(script)
        BY <2>2, <4>1, SeqFacts DEF NextStatement
      <4> QED BY <2>1, <4>2, WayBack, AskedIsOfTables DEF DownAndRunning, OfObject, IsObject
    <3>4. /\ objects' = Released(objects, NextStatement) /\ database' = Effect(database, NextStatement)
          /\ ~Refused(database, populated, NextStatement)
      BY <3>3 DEF Execute, Stumbles
    <3>5. objects' \subseteq StillThere'
      <4> SUFFICES ASSUME NEW x \in objects' PROVE x \in StillThere'
        OBVIOUS
      <4>1. x \in objects
        BY <3>4 DEF Released
      <4>2. x \in found /\ OnColumnsOf(x, database)
        BY <3>2, <4>1 DEF StillThere
      <4>3. OnColumnsOf(x, database')
        <5> HIDE DEF NextStatement
        <5> QED BY <3>2, <3>4, <4>2, ReleasedStays
      <4> QED BY <1>1, <4>2, <4>3 DEF StillThere
    <3> QED BY <1>1, <2>1, <3>1, <3>5 DEF DownAndRunning
  <2>5. Len(script) \in Nat
    BY <2>2, SeqFacts
  <2> QED BY <1>1, <1>5, <2>1, <2>4, <2>5 DEF ScriptInv
<1> QED BY <1>1, <1>4, <1>5

LEMMA RefuseKeeps ==
  ASSUME ScriptInv, Refuse
  PROVE  ScriptInv'
<1>1. /\ phase \in {"up", "down"} /\ pos < Len(script) /\ (Stumbles \/ RowsMayRefuse)
      /\ phase' = IF phase = "up" THEN "refused" ELSE "stuck"
      /\ UNCHANGED <<route, doc, objects, found, from, to, populated, database, script, pos>>
  BY DEF Refuse, Running
<1>2. (phase = "up" => UpAndRunning) /\ (phase = "down" => DownAndRunning)
  BY DEF ScriptInv
<1>3. RunOnTables(pos)' = RunOnTables(pos') /\ RunOnObjects(pos)' = RunOnObjects(pos')
  BY <1>1, ScriptStays
<1>4. Target' = Target
  BY <1>1, TargetStays
<1>5. (phase = "up" => UpAndRunning') /\ (phase = "down" => DownAndRunning')
  <2>1. StillThere' = StillThere
    BY <1>1 DEF StillThere
  <2> QED BY <1>1, <1>2, <1>3, <1>4, <2>1 DEF UpAndRunning, DownAndRunning
<1>6. (Stumbles \/ RowsMayRefuse)'
  BY <1>1 DEF Stumbles, RowsMayRefuse, OfObject, NextStatement
<1>7. Accepted' <=> Accepted
  BY <1>1 DEF Accepted
<1> QED BY <1>1, <1>5, <1>6, <1>7 DEF ScriptInv

\* A script that is run to its end has left nothing out.
LEMMA EndOfUp ==
  ASSUME ScriptInv, phase = "up", pos = Len(script)
  PROVE  /\ database = Target
         /\ objects = IF route = "schema" THEN Wanted(doc) ELSE {x \in found : OnColumnsOf(x, Target)}
         /\ Covers(RunOnTables(Len(script)), Tables(from), Target)
         /\ \A x \in Range(script) : ~IsObject(x) => Fits(x, Tables(from), Target)
<1>1. UpAndRunning
  BY DEF ScriptInv
<1>2. /\ IsSeq(script)
      /\ \A x : x \in Range(script) /\ IsObject(x) <=> x \in Wanted(doc)
  BY <1>1, UpWay
<1>3. /\ IsDatabase(Target) /\ Covers(RunOnTables(Len(script)), Tables(from), Target)
      /\ \A i \in 1 .. Len(script) : ~IsObject(script[i]) => Fits(script[i], Tables(from), Target)
  BY <1>1, UpWay, ScriptLeads, TargetIsGoal
<1>4. database = Target
  BY <1>1, <1>3, NothingLeft DEF UpAndRunning
<1>5. /\ \A i \in 1 .. Len(script) : script[i] \in Range(script)
      /\ \A x \in Range(script) : \E i \in 1 .. Len(script) : script[i] = x
  BY <1>2, SeqFacts
<1>6. CASE route # "schema"
  BY <1>1, <1>3, <1>4, <1>5, <1>6 DEF UpAndRunning, StillThere
<1>7. ASSUME route = "schema" PROVE objects = Wanted(doc)
  <2>1. \A x : x \in RunOnObjects(Len(script)) <=> \E i \in 1 .. Len(script) : x = script[i] /\ IsObject(script[i])
    BY DEF RunOnObjects
  <2>2. \A x : x \in objects <=> x \in Wanted(doc)
    <3> HIDE DEF IsObject, RunOnObjects
    <3> QED BY <1>1, <1>2, <1>5, <1>7, <2>1 DEF UpAndRunning
  <2>3. objects = RunOnObjects(Len(script))
    BY <1>1, <1>7 DEF UpAndRunning
  <2> QED BY <2>2, <2>3 DEF Wanted, RunOnObjects
<1> QED BY <1>3, <1>4, <1>5, <1>6, <1>7

LEMMA EndOfDown ==
  ASSUME ScriptInv, DownAndRunning, pos = Len(script)
  PROVE  database = Tables(from)
<1>1. /\ IsSchema(from) /\ IsSchema(to) /\ LikeSchema(Target, to)
      /\ Goal(Target, from) = Tables(from) /\ IsSeq(script)
      /\ \A x : x \in Range(script) <=> Asked(x, to, from)
  BY WayBack DEF DownAndRunning
<1>2. \A x : x \in Range(script) /\ ~IsObject(x) <=> Asked(x, to, from)
  BY <1>1, AskedIsOfTables
<1>3. IsDatabase(Goal(Target, from)) /\ Covers(RunOnTables(Len(script)), Target, Goal(Target, from))
  <2> HIDE DEF Target
  <2> QED BY <1>1, <1>2, ScriptLeads
<1> QED BY <1>1, <1>3, NothingLeft DEF DownAndRunning

LEMMA TurnBackKeeps ==
  ASSUME ScriptInv, TurnBack
  PROVE  ScriptInv'
<1>1. /\ phase = "up" /\ pos = Len(script) /\ route = "dsl"
      /\ phase' = "down" /\ script' = DownScript(from, to) /\ pos' = 0
      /\ UNCHANGED <<route, doc, objects, found, from, to, populated, database>>
  BY DEF TurnBack
<1>2. database = Target /\ objects = StillThere
  <2>1. objects = {x \in found : OnColumnsOf(x, Target)} /\ database = Target
    BY <1>1, EndOfUp
  <2> QED BY <2>1 DEF StillThere
<1>3. IsDatabase(Target) /\ Len(script') \in Nat
  BY <1>1, WayBack, SeqFacts DEF LikeSchema
<1>4. Between(database, Target, Tables(from), {})
  BY <1>2, <1>3, NotStarted
<1>5. Between(database', Target', Tables(from'), RunOnTables(pos)')
  <2>1. RunOnTables(pos)' = {}
    BY <1>1 DEF RunOnTables
  <2> QED BY <1>1, <1>4, <2>1, TargetStays
<1>6. DownAndRunning'
  <2>1. objects' \subseteq StillThere'
    BY <1>1, <1>2 DEF StillThere
  <2> QED BY <1>1, <1>5, <2>1 DEF DownAndRunning
<1> QED BY <1>1, <1>3, <1>6 DEF ScriptInv

LEMMA FinishKeeps ==
  ASSUME ScriptInv, Finish
  PROVE  ScriptInv'
<1>1. /\ pos = Len(script) /\ phase \in {"down", "up"} /\ phase' = "done"
      /\ UNCHANGED <<route, doc, objects, found, from, to, populated, database, script, pos>>
      /\ phase = "down" \/ route # "dsl"
  BY DEF Finish
<1>2. DownAndRunning \/ route # "dsl"
  BY <1>1 DEF ScriptInv
<1>3. DownAndRunning' \/ route' # "dsl"
  BY <1>1, <1>2, ScriptStays, TargetStays DEF DownAndRunning, StillThere
<1>4. Accepted' <=> Accepted
  BY <1>1 DEF Accepted
<1> QED BY <1>1, <1>3, <1>4 DEF ScriptInv

LEMMA StutterKeeps ==
  ASSUME ScriptInv, UNCHANGED scriptVars
  PROVE  ScriptInv'
<1>1. UNCHANGED <<route, doc, objects, found, from, to, populated, database, script, pos, phase>>
  BY DEF scriptVars
<1>2. RunOnTables(pos)' = RunOnTables(pos) /\ RunOnObjects(pos)' = RunOnObjects(pos) /\ Target' = Target
  BY <1>1, ScriptStays, TargetStays
<1>3. (UpAndRunning' <=> UpAndRunning) /\ (DownAndRunning' <=> DownAndRunning)
  BY <1>1, <1>2 DEF UpAndRunning, DownAndRunning, StillThere
<1>4. (Stumbles' <=> Stumbles) /\ (RowsMayRefuse' <=> RowsMayRefuse) /\ (Accepted' <=> Accepted)
  BY <1>1 DEF Stumbles, RowsMayRefuse, OfObject, NextStatement, Accepted
<1> QED BY <1>1, <1>3, <1>4 DEF ScriptInv

\* The invariant of one generated migration: its statements are those that are asked for, and
\* the database is where those that have been run have taken it.
THEOREM ScriptInvariant == ScriptSpec => []ScriptInv
<1>1. ScriptInit => ScriptInv
  BY InitiallyScript
<1>2. ScriptInv /\ [ScriptNext]_scriptVars => ScriptInv'
  BY CompileKeeps, ExecuteKeeps, RefuseKeeps, TurnBackKeeps, FinishKeeps, StutterKeeps DEF ScriptNext
<1> QED BY <1>1, <1>2, PTL DEF ScriptSpec

\* A script that is run to its end leaves the database at the target schema, with the
\* indexes and relations that were asked for, or those it found on what is left.
THEOREM UpReaches == ScriptSpec => []UpReachesTarget
<1>1. ScriptInv => UpReachesTarget
  BY EndOfUp DEF UpReachesTarget
<1> QED BY <1>1, ScriptInvariant, PTL

\* Up and down again, every table, column, type and nullability is what it was.
THEOREM DownUndoes == ScriptSpec => []DownRestores
<1>1. ScriptInv => DownRestores
  BY EndOfDown DEF DownRestores, ScriptInv
<1> QED BY <1>1, ScriptInvariant, PTL

\* A statement that fits drops what is lost, and all that is lost is dropped.
LEMMA DropsAreLosses ==
  ASSUME NEW d, NEW e, NEW D, \A s \in D : Fits(s, d, e), Covers(D, d, e)
  PROVE  (\E s \in D : Destructive(s)) <=>
           \E t \in DOMAIN d : t \notin DOMAIN e \/ ~(DOMAIN d[t] \subseteq DOMAIN e[t])
<1>1. ASSUME NEW s \in D, Destructive(s)
      PROVE  \E t \in DOMAIN d : t \notin DOMAIN e \/ ~(DOMAIN d[t] \subseteq DOMAIN e[t])
  <2>1. Fits(s, d, e) /\ s.op \in {"drop_table", "drop_column"}
    BY <1>1 DEF Destructive
  <2>2. CASE s.op = "drop_table"
    BY <2>1, <2>2 DEF Fits
  <2>3. CASE s.op = "drop_column"
    <3>1. s.table \in DOMAIN d /\ ColumnOf(s) \in DOMAIN d[s.table] \ DOMAIN e[s.table]
      BY <2>1, <2>3 DEF Fits
    <3> QED BY <3>1
  <2> QED BY <2>1, <2>2, <2>3
<1>2. ASSUME NEW t \in DOMAIN d, t \notin DOMAIN e
      PROVE  \E s \in D : Destructive(s)
  <2>1. PICK s \in D : s.table = t
    BY <1>2 DEF Covers, Handled, SameAt
  <2>2. s.op = "drop_table"
    BY <1>2, <2>1 DEF Fits
  <2> QED BY <2>2 DEF Destructive
<1>3. ASSUME NEW t \in DOMAIN d, t \in DOMAIN e, NEW c \in DOMAIN d[t], c \notin DOMAIN e[t]
      PROVE  \E s \in D : Destructive(s)
  <2>1. PICK s \in D : s.table = t /\ ColumnOf(s) = c
    BY <1>3 DEF Covers, Concerned, SameAt
  <2>2. s.op = "drop_column"
    BY <1>3, <2>1 DEF Fits
  <2> QED BY <2>2 DEF Destructive
<1> QED BY <1>1, <1>2, <1>3

\* The guard blocks a migration if and only if running it loses a table or a column.
THEOREM GuardBlocksLosses == ScriptSpec => []GuardIsExact
<1>1. ASSUME ScriptInv, phase = "up", pos = Len(script) PROVE GuardIsExact
  <2> DEFINE d == Tables(from)
             plain == [allowDestructive |-> FALSE, allowlist |-> {}]
             hit == {s \in Range(script) : /\ Destructive(s) /\ ~plain.allowDestructive
                                           /\ Normalize(s) \notin
                                                {Normalize(x) : x \in plain.allowlist}}
             D == RunOnTables(Len(script))
  <2>1. database = Target /\ Covers(D, d, Target) /\ \A x \in Range(script) : ~IsObject(x) => Fits(x, d, Target)
    BY <1>1, EndOfUp
  <2>2. IsSeq(script)
    BY <1>1, UpWay DEF ScriptInv
  <2>3. \A x : x \in D <=> x \in Range(script) /\ ~IsObject(x)
    <3>1. /\ \A i \in 1 .. Len(script) : script[i] \in Range(script)
          /\ \A x \in Range(script) : \E i \in 1 .. Len(script) : script[i] = x
      BY <2>2, SeqFacts
    <3> QED BY <3>1 DEF RunOnTables
  <2>4. Blocked(script, plain) # <<>> <=> Range(script) \cap hit # {}
    <3>1. Blocked(script, plain) = Keep(script, hit)
      BY DEF Blocked
    <3> HIDE DEF hit
    <3> QED BY <2>2, <3>1, KeptRange, SeqFacts
  <2>5. Range(script) \cap hit # {} <=> \E x \in Range(script) : Destructive(x)
    OBVIOUS
  <2>6. \A x : Destructive(x) => ~IsObject(x)
    BY DEF Destructive, IsObject
  <2> HIDE DEF D
  <2>7. (\E x \in Range(script) : Destructive(x)) <=> \E x \in D : Destructive(x)
    BY <2>3, <2>6
  <2>8. (\E x \in D : Destructive(x)) <=>
           \E t \in DOMAIN d : t \notin DOMAIN Target \/ ~(DOMAIN d[t] \subseteq DOMAIN Target[t])
    <3> HIDE DEF d, Target
    <3> QED BY <2>1, <2>3, DropsAreLosses
  <2> HIDE DEF hit
  <2> QED BY <2>1, <2>4, <2>5, <2>7, <2>8 DEF GuardIsExact
<1>2. ScriptInv => GuardIsExact
  BY <1>1 DEF GuardIsExact
<1> QED BY <1>2, ScriptInvariant, PTL

----------------------------------------------------------------------------
(* What the generators accept.                                             *)

\* A field is a key if and only if the validator finds its values distinct.
LEMMA KeysAreDistinct ==
  ASSUME NEW s, NEW f, IsSeq(s), NEW names, names = [i \in DOMAIN s |-> s[i][f]]
  PROVE  Key(s, f) <=> Distinct(names)
<1> DEFINE n == Len(s)
           T == {s[i][f] : i \in DOMAIN s}
<1>1. n \in Nat /\ DOMAIN s = 1 .. n
  BY SeqFacts
<1>2. Range(names) = T
  BY DEF Range
<1>3. names \in Surjection(1 .. n, T)
  BY <1>1 DEF Surjection
<1>4. IsFiniteSet(1 .. n) /\ Cardinality(1 .. n) = n
  <2> HIDE DEF n
  <2>1. IsFiniteSet(1 .. n) /\ Cardinality(1 .. n) = IF 1 > n THEN 0 ELSE n - 1 + 1
    BY <1>1, FS_Interval
  <2> QED BY <1>1, <2>1
<1>5. Cardinality(T) = n <=> names \in Injection(1 .. n, T)
  <2> HIDE DEF n, T
  <2> QED BY <1>3, <1>4, FS_Surjection
<1>6. names \in Injection(1 .. n, T) <=> IsInjective(names)
  <2>1. names \in [1 .. n -> T] /\ DOMAIN names = 1 .. n
    BY <1>1
  <2> HIDE DEF n, T
  <2> QED BY <2>1 DEF Injection, IsInjective
<1> QED BY <1>2, <1>5, <1>6 DEF Key, Distinct

LEMMA NamesAreKeys ==
  ASSUME NEW s, IsSeq(s)
  PROVE  /\ Key(s, "name") <=> Distinct(Names(s))
         /\ Key(s, "id") <=> Distinct(Ids(s))
         /\ \A n : Has(s, n) <=> n \in Range(Names(s))
         /\ {y.id : y \in Range(s)} = Range(Ids(s))
<1>1. Key(s, "name") <=> Distinct(Names(s))
  BY KeysAreDistinct DEF Names
<1>2. Key(s, "id") <=> Distinct(Ids(s))
  BY KeysAreDistinct DEF Ids
<1>3. \A n : Has(s, n) <=> n \in Range(Names(s))
  BY DEF Has, Names, Range
<1>4. {y.id : y \in Range(s)} = Range(Ids(s))
  BY DEF Ids, Range
<1> QED BY <1>1, <1>2, <1>3, <1>4

\* A name of a table and one of its fields are found if and only if there are such things.
Column(tables, t, f) == \E u \in Range(tables) : u.name = t /\ \E g \in Range(u.fields) : g.name = f

LEMMA ColumnIsFound ==
  ASSUME NEW tables, UniqueNames(tables), NEW t, NEW f
  PROVE  Column(tables, t, f) <=> Has(tables, t) /\ Has(Named(tables, t).fields, f)
<1>1. /\ \A x \in Range(tables) : Has(tables, x.name) /\ Named(tables, x.name) = x
      /\ \A n : Has(tables, n) => Named(tables, n) \in Range(tables) /\ Named(tables, n).name = n
  BY NamesFind
<1>2. \A s : Has(s, f) <=> \E g \in Range(s) : g.name = f
  BY DEF Has, Range
<1>3. Column(tables, t, f) <=> \E u \in Range(tables) : u.name = t /\ Has(u.fields, f)
  BY <1>2 DEF Column
<1> QED BY <1>1, <1>3

\* Of a table whose name is its own.
TableIsValid(t) == ValidFields(t) /\ ValidIndexes(t)
TableIsWellFormed(tables, t) ==
  /\ Key(t.fields, "name") /\ Key(t.indexes, "name")
  /\ \A x \in Range(t.indexes) : x.fields # <<>> /\ \A f \in Range(x.fields) : Column(tables, t.name, f)

LEMMA TablesAreExact ==
  ASSUME NEW d \in Documents, Distinct(Names(d.tables)), NEW t \in Range(d.tables)
  PROVE  TableIsWellFormed(d.tables, t) <=> TableIsValid(t)
<1>1. IsSeq(d.tables) /\ IsSeq(t.fields) /\ IsSeq(t.indexes)
  BY DocumentsAssumption
<1>2. UniqueNames(d.tables)
  BY <1>1 DEF UniqueNames, Distinct, IsInjective, Names
<1>3. (Key(t.fields, "name") <=> ValidFields(t)) /\ (Key(t.indexes, "name") <=> Distinct(Names(t.indexes)))
  BY <1>1, NamesAreKeys DEF ValidFields
<1>4. \A f : Column(d.tables, t.name, f) <=> f \in Range(Names(t.fields))
  BY <1>1, <1>2, ColumnIsFound, NamesFind, NamesAreKeys
<1>5. (\A x \in Range(t.indexes) : x.fields # <<>> /\ \A f \in Range(x.fields) : Column(d.tables, t.name, f))
      <=> \A i \in DOMAIN t.indexes : /\ t.indexes[i].fields # <<>>
                                      /\ Range(t.indexes[i].fields) \subseteq Range(Names(t.fields))
  <2>1. \A x \in Range(t.indexes) : \E i \in DOMAIN t.indexes : x = t.indexes[i]
    BY DEF Range
  <2>2. \A i \in DOMAIN t.indexes : t.indexes[i] \in Range(t.indexes)
    BY DEF Range
  <2> QED BY <1>4, <2>1, <2>2
<1> QED BY <1>3, <1>5 DEF TableIsWellFormed, TableIsValid, ValidIndexes

RelationIsWellFormed(tables, r) == Column(tables, r.fromTable, r.fromField) /\ Column(tables, r.toTable, r.toField)

LEMMA RelationsAreExact ==
  ASSUME NEW d \in Documents, Distinct(Names(d.tables)), \A t \in Range(d.tables) : ValidFields(t), NEW r
  PROVE  RelationIsWellFormed(d.tables, r) <=> ValidRelation(d.tables, r)
<1>1. IsSeq(d.tables)
  BY DocumentsAssumption
<1>2. UniqueNames(d.tables)
  BY <1>1 DEF UniqueNames, Distinct, IsInjective, Names
<1>3. ASSUME NEW t, NEW f, Has(d.tables, t), Has(Named(d.tables, t).fields, f) PROVE t # Empty /\ f # Empty
  <2>1. t # Empty
    BY <1>1, <1>3, NamesAreKeys DEF Distinct
  <2>2. Named(d.tables, t) \in Range(d.tables)
    BY <1>2, <1>3, NamesFind
  <2>3. IsSeq(Named(d.tables, t).fields)
    BY <2>2, DocumentsAssumption
  <2>4. Distinct(Names(Named(d.tables, t).fields))
    BY <2>2 DEF ValidFields
  <2>5. f \in Range(Names(Named(d.tables, t).fields))
    BY <1>3, <2>3, NamesAreKeys
  <2> QED BY <2>1, <2>4, <2>5 DEF Distinct
<1>4. \A t, f : Column(d.tables, t, f) <=> Has(d.tables, t) /\ Has(Named(d.tables, t).fields, f)
  BY <1>2, ColumnIsFound
<1> QED BY <1>3, <1>4 DEF RelationIsWellFormed, ValidRelation

LEMMA OthersAreExact ==
  ASSUME NEW d \in Documents
  PROVE  /\ Key(d.tenants, "id") /\ Filled(d.tenants, "name") <=> ValidTenants(d.tenants)
         /\ Key(d.tenants, "id") =>
              (/\ Key(d.apps, "id") /\ Filled(d.apps, "name") /\ Resolves(d.apps, "tenantId", d.tenants)
               <=> ValidApps(d.apps, d.tenants))
         /\ Key(d.apps, "id") =>
              (/\ Key(d.rules, "id") /\ Filled(d.rules, "trigger") /\ Resolves(d.rules, "appId", d.apps)
               <=> ValidRules(d.rules, d.apps))
<1>1. IsSeq(d.tenants) /\ IsSeq(d.apps) /\ IsSeq(d.rules)
  BY DocumentsAssumption
<1>2. /\ Key(d.tenants, "id") <=> Distinct(Ids(d.tenants))
      /\ Key(d.apps, "id") <=> Distinct(Ids(d.apps))
      /\ Key(d.rules, "id") <=> Distinct(Ids(d.rules))
      /\ {y.id : y \in Range(d.tenants)} = Range(Ids(d.tenants))
      /\ {y.id : y \in Range(d.apps)} = Range(Ids(d.apps))
  BY <1>1, NamesAreKeys
<1>3. Filled(d.tenants, "name") <=> \A i \in DOMAIN d.tenants : d.tenants[i].name # Empty
  BY DEF Filled, Range
<1>4. Filled(d.apps, "name") <=> \A i \in DOMAIN d.apps : d.apps[i].name # Empty
  BY DEF Filled, Range
<1>5. Filled(d.rules, "trigger") <=> \A i \in DOMAIN d.rules : d.rules[i].trigger # Empty
  BY DEF Filled, Range
<1>6. Resolves(d.apps, "tenantId", d.tenants) <=>
        \A i \in DOMAIN d.apps : d.apps[i].tenantId \in Range(Ids(d.tenants))
  BY <1>2 DEF Resolves, Range
<1>7. Resolves(d.rules, "appId", d.apps) <=>
        \A i \in DOMAIN d.rules : d.rules[i].appId \in Range(Ids(d.apps))
  BY <1>2 DEF Resolves, Range
<1>8. Key(d.tenants, "id") /\ Filled(d.tenants, "name") <=> ValidTenants(d.tenants)
  BY <1>2, <1>3 DEF ValidTenants
<1>9. ASSUME Key(d.tenants, "id")
      PROVE  /\ Key(d.apps, "id") /\ Filled(d.apps, "name") /\ Resolves(d.apps, "tenantId", d.tenants)
             <=> ValidApps(d.apps, d.tenants)
  <2>1. Empty \notin Range(Ids(d.tenants))
    BY <1>2, <1>9 DEF Distinct
  <2> QED BY <1>2, <1>4, <1>6, <2>1 DEF ValidApps
<1>10. ASSUME Key(d.apps, "id")
       PROVE  /\ Key(d.rules, "id") /\ Filled(d.rules, "trigger") /\ Resolves(d.rules, "appId", d.apps)
              <=> ValidRules(d.rules, d.apps)
  <2>1. Empty \notin Range(Ids(d.apps))
    BY <1>2, <1>10 DEF Distinct
  <2> QED BY <1>2, <1>5, <1>7, <2>1 DEF ValidRules
<1> QED BY <1>8, <1>9, <1>10

LEMMA PermissionsAreExact ==
  ASSUME NEW p
  PROVE  ValidPermission(p) <=>
           /\ p.resource # Empty /\ p.action # Empty
           /\ p.roles # <<>> /\ Empty \notin Range(p.roles) /\ IsInjective(p.roles)
  BY DEF ValidPermission, Distinct

LEMMA FilledPermissions ==
  ASSUME NEW s
  PROVE  /\ Filled(s, "resource") <=> \A p \in Range(s) : p.resource # Empty
         /\ Filled(s, "action") <=> \A p \in Range(s) : p.action # Empty
  BY DEF Filled

\* The validator accepts the documents that are well formed, and no other.
LEMMA ValidIsWellFormed ==
  ASSUME NEW d \in Documents
  PROVE  ValidateSchema(d) <=> WellFormed(d)
<1>1. IsSeq(d.tables)
  BY DocumentsAssumption
<1>2. \A t, f : Column(d.tables, t, f) <=> \E u \in Range(d.tables) : u.name = t /\ \E g \in Range(u.fields) : g.name = f
  BY DEF Column
<1>3. Key(d.tables, "name") <=> Distinct(Names(d.tables))
  BY <1>1, NamesAreKeys
<1> DEFINE P == \A p \in Range(d.permissions) :
                  /\ p.resource # Empty /\ p.action # Empty
                  /\ p.roles # <<>> /\ Empty \notin Range(p.roles) /\ IsInjective(p.roles)
           T == \A t \in Range(d.tables) : TableIsWellFormed(d.tables, t)
           R == \A r \in Range(d.relations) : RelationIsWellFormed(d.tables, r)
           V == \A t \in Range(d.tables) : TableIsValid(t)
           W == \A r \in Range(d.relations) : ValidRelation(d.tables, r)
           O == /\ Key(d.tenants, "id") /\ Filled(d.tenants, "name")
                /\ Key(d.apps, "id") /\ Filled(d.apps, "name") /\ Resolves(d.apps, "tenantId", d.tenants)
                /\ Key(d.rules, "id") /\ Filled(d.rules, "trigger") /\ Resolves(d.rules, "appId", d.apps)
           Q == ValidTenants(d.tenants) /\ ValidApps(d.apps, d.tenants) /\ ValidRules(d.rules, d.apps)
<1>4. WellFormed(d) <=> Key(d.tables, "name") /\ T /\ R /\ O /\ P
  <2>1. T <=> \A t \in Range(d.tables) :
                /\ Key(t.fields, "name") /\ Key(t.indexes, "name")
                /\ \A x \in Range(t.indexes) : x.fields # <<>> /\ \A f \in Range(x.fields) :
                     \E u \in Range(d.tables) : u.name = t.name /\ \E g \in Range(u.fields) : g.name = f
    BY DEF TableIsWellFormed, Column
  <2>2. R <=> \A r \in Range(d.relations) :
                /\ \E u \in Range(d.tables) : u.name = r.fromTable /\ \E g \in Range(u.fields) : g.name = r.fromField
                /\ \E u \in Range(d.tables) : u.name = r.toTable /\ \E g \in Range(u.fields) : g.name = r.toField
    BY DEF RelationIsWellFormed, Column
  <2>3. P <=> /\ Filled(d.permissions, "resource") /\ Filled(d.permissions, "action")
              /\ \A p \in Range(d.permissions) :
                   p.roles # <<>> /\ Empty \notin Range(p.roles) /\ IsInjective(p.roles)
    BY FilledPermissions
  <2> HIDE DEF T, R, P
  <2> QED BY <2>1, <2>2, <2>3 DEF WellFormed
<1>5. ValidateSchema(d) <=> Distinct(Names(d.tables)) /\ V /\ W /\ Q /\ P
  <2>1. V <=> \A i \in DOMAIN d.tables : ValidFields(d.tables[i]) /\ ValidIndexes(d.tables[i])
    BY DEF TableIsValid, Range
  <2>2. W <=> \A i \in DOMAIN d.relations : ValidRelation(d.tables, d.relations[i])
    BY DEF Range
  <2>3. P <=> \A i \in DOMAIN d.permissions : ValidPermission(d.permissions[i])
    BY PermissionsAreExact DEF Range
  <2> HIDE DEF V, W, P
  <2> QED BY <2>1, <2>2, <2>3 DEF ValidateSchema
<1>6. ASSUME Distinct(Names(d.tables)) PROVE T <=> V
  BY <1>6, TablesAreExact
<1>7. ASSUME Distinct(Names(d.tables)), V PROVE R <=> W
  <2>1. \A t \in Range(d.tables) : ValidFields(t)
    BY <1>7 DEF TableIsValid
  <2> QED BY <1>7, <2>1, RelationsAreExact
<1>8. O <=> Q
  <2>1. ValidTenants(d.tenants) => Key(d.tenants, "id")
    BY OthersAreExact
  <2>2. ValidTenants(d.tenants) /\ ValidApps(d.apps, d.tenants) => Key(d.apps, "id")
    BY <2>1, OthersAreExact
  <2> QED BY <2>1, <2>2, OthersAreExact
<1> HIDE DEF T, R, V, W, O, Q, P
<1> QED BY <1>3, <1>4, <1>5, <1>6, <1>7, <1>8

\* A table has two API routes, and they are its own.
LEMMA RoutesAreApart ==
  ASSUME NEW d, UniqueNames(d.tables)
  PROVE  IsInjective(CompileApiRoutes(d))
<1> DEFINE f(t) == << <<t.name, "query">>, <<t.name, "mutation">> >>
           g == [t \in Range(d.tables) |-> f(t)]
           tables == d.tables
           ss == [i \in DOMAIN tables |-> g[tables[i]]]
<1>1. CompileApiRoutes(d) = FlattenSeq(ss)
  <2>1. Each(d.tables, LAMBDA t : << <<t.name, "query">>, <<t.name, "mutation">> >>) = ss
    BY DEF Each, Range
  <2> QED BY <2>1 DEF CompileApiRoutes
<1>2. IsSeq(tables) /\ \A i, j \in DOMAIN tables : tables[i].name = tables[j].name => i = j
  BY DEF UniqueNames
<1>3. ASSUME NEW t
      PROVE  /\ IsSeq(f(t)) /\ IsInjective(f(t))
             /\ \A x \in Range(f(t)) : x[1] = t.name
  <2>1. DOMAIN f(t) = {1, 2} /\ f(t)[1] = <<t.name, "query">> /\ f(t)[2] = <<t.name, "mutation">>
    OBVIOUS
  <2>2. Range(f(t)) = {<<t.name, "query">>, <<t.name, "mutation">>}
    BY <2>1 DEF Range
  <2>3. IsSeq(f(t))
    BY <2>2 DEF IsSeq
  <2>4. <<t.name, "query">> # <<t.name, "mutation">>
    OBVIOUS
  <2> HIDE DEF f
  <2>5. IsInjective(f(t))
    BY <2>1, <2>4 DEF IsInjective
  <2> QED BY <2>2, <2>3, <2>5
<1>4. \A t \in Range(tables) : g[t] = f(t)
  OBVIOUS
<1>5. \A i \in DOMAIN ss : ss[i] = f(tables[i]) /\ i \in DOMAIN tables
  BY DEF Range
<1> HIDE DEF f, g, tables
<1>6. IsSeq(ss) /\ \A x : x \in Range(ss) <=> \E t \in Range(tables) : x = g[t]
  BY <1>2, MappedRange
<1>7. \A x \in Range(ss) : IsSeq(x) /\ IsInjective(x)
  BY <1>3, <1>4, <1>6
<1>8. ASSUME NEW i \in DOMAIN ss, NEW j \in DOMAIN ss, i # j
      PROVE  Range(ss[i]) \cap Range(ss[j]) = {}
  <2>1. tables[i].name # tables[j].name
    BY <1>2, <1>5, <1>8
  <2> QED BY <1>3, <1>5, <2>1
<1> HIDE DEF ss
<1> QED BY <1>1, <1>6, <1>7, <1>8, FlattenedOnce

\* The generators throw on the documents that are not well formed or cannot be quoted,
\* and on no others; what they accept has routes and a manifest.
THEOREM GeneratorsAgree == ScriptSpec => []ValidatorIsExact
<1>1. ASSUME ScriptInv, phase = "rejected" PROVE ~WellFormed(doc) \/ ~(Quoted(doc) \subseteq Quotable)
  <2>1. ~Accepted /\ doc \in Documents
    BY <1>1 DEF ScriptInv
  <2> QED BY <2>1, ValidIsWellFormed DEF Accepted
<1>2. ASSUME ScriptInv, route = "schema", phase # "rejected", phase # "compile"
      PROVE  WellFormed(doc) /\ IsInjective(CompileApiRoutes(doc)) /\ ManifestAccepts(doc.permissions)
  <2>1. doc \in Documents /\ ValidateSchema(doc)
    BY <1>2 DEF ScriptInv, Accepted
  <2>2. UniqueNames(doc.tables)
    BY <2>1, ValidDocument DEF IsSchema
  <2>3. ManifestAccepts(doc.permissions)
    BY <2>1 DEF ValidateSchema, ManifestAccepts
  <2> QED BY <2>1, <2>2, <2>3, ValidIsWellFormed, RoutesAreApart
<1>3. ScriptInv => ValidatorIsExact
  BY <1>1, <1>2 DEF ValidatorIsExact
<1> QED BY <1>3, ScriptInvariant, PTL

----------------------------------------------------------------------------
(* Why a statement is refused.                                             *)

\* A type that does not exist or is not cast to, or a required column where rows are.
TypeRefusal(f, filled, s) ==
  \/ s.op = "create_table" /\ \E g \in Range(s.fields) : g.type \notin Known
  \/ /\ s.op = "add_column"
     /\ s.field.type \notin Known \/ (~s.field.nullable /\ s.table \in filled)
  \/ /\ s.op = "alter_column"
     /\ s.type \notin Known \/ ~CanCast(f[s.table][s.column].type, s.type)

\* A statement on tables that nothing before it was about is refused for its type, or
\* for the rows that are there.
LEMMA RefusedOnTables ==
  ASSUME NEW d, NEW e, NEW f, NEW D, NEW s, NEW filled,
         Between(f, d, e, D), Fits(s, d, e), Refused(f, filled, s),
         \A x \in D : ~(/\ x.table = s.table
                        /\ s.op \notin {"create_table", "drop_table"} => ColumnOf(x) = ColumnOf(s))
  PROVE  TypeRefusal(f, filled, s)
<1> DEFINE t == s.table
           c == ColumnOf(s)
<1>1. CASE s.op = "create_table"
  <2>1. t \notin DOMAIN d /\ ~Handled(D, t)
    BY <1>1 DEF Fits, Handled
  <2>2. t \notin DOMAIN f
    BY <2>1 DEF Between, SameAt
  <2> QED BY <1>1, <2>2 DEF Refused, TypeRefusal
<1>2. CASE s.op = "drop_table"
  <2>1. t \in DOMAIN d \ DOMAIN e /\ ~Handled(D, t)
    BY <1>2 DEF Fits, Handled
  <2>2. t \in DOMAIN f
    BY <2>1 DEF Between, SameAt
  <2> QED BY <1>2, <2>2 DEF Refused, TypeRefusal
<1>3. ASSUME s.op \in {"add_column", "drop_column", "alter_column"}
      PROVE  t \in DOMAIN f /\ (c \in DOMAIN f[t] <=> c \in DOMAIN d[t])
  <2>1. t \in DOMAIN d \cap DOMAIN e
    BY <1>3 DEF Fits
  <2>2. ~Concerned(D, t, c)
    BY <1>3 DEF Concerned
  <2>3. t \in DOMAIN f /\ SameAt(f[t], d[t], c)
    BY <2>1, <2>2 DEF Between
  <2> QED BY <2>3 DEF SameAt
<1>4. CASE s.op = "add_column"
  <2>1. c = s.field.name /\ c \notin DOMAIN d[t]
    BY <1>4 DEF Fits, ColumnOf
  <2> QED BY <1>3, <1>4, <2>1 DEF Refused, TypeRefusal
<1>5. CASE s.op = "drop_column"
  <2>1. c = s.column /\ c \in DOMAIN d[t]
    BY <1>5 DEF Fits, ColumnOf
  <2> QED BY <1>3, <1>5, <2>1 DEF Refused, TypeRefusal
<1>6. CASE s.op = "alter_column"
  <2>1. c = s.column /\ c \in DOMAIN d[t]
    BY <1>6 DEF Fits, ColumnOf
  <2> QED BY <1>3, <1>6, <2>1 DEF Refused, TypeRefusal
<1> QED BY <1>1, <1>2, <1>4, <1>5, <1>6 DEF Fits

\* Where a statement of a compiled document stands.
LEMMA CompiledPlaces ==
  ASSUME NEW d \in Documents, ValidateSchema(d), NEW i \in 1 .. Len(CompileSchemaSql(d))
  PROVE  LET a == Len(TableStatements(d))
             b == Len(IndexStatements(d))
             c == Len(RelationStatements(d))
             x == CompileSchemaSql(d)[i]
         IN
         \/ x.op = "create_table" /\ i \in 1 .. a /\ x = TableStatements(d)[i]
         \/ x.op = "create_index" /\ i \in (a + 1) .. (a + b) /\ x = IndexStatements(d)[i - a]
         \/ /\ x.op = "add_relation" /\ i \in (a + b + 1) .. (a + b + c)
            /\ x = RelationStatements(d)[i - a - b]
<1> DEFINE A == TableStatements(d)
           B == IndexStatements(d)
           C == RelationStatements(d)
           s == CompileSchemaSql(d)
           a == Len(A)
           b == Len(B)
           c == Len(C)
<1>1. /\ Len(s) = a + b + c
      /\ a \in Nat /\ b \in Nat /\ c \in Nat
      /\ \A k \in 1 .. a : s[k] = A[k] /\ s[k] \in Range(A)
      /\ \A k \in 1 .. b : s[a + k] = B[k] /\ s[a + k] \in Range(B)
      /\ \A k \in 1 .. c : s[a + b + k] = C[k] /\ s[a + b + k] \in Range(C)
  BY CompiledParts
<1>2. /\ \A x \in Range(A) : x.op = "create_table"
      /\ \A x \in Range(B) : x.op = "create_index"
      /\ \A x \in Range(C) : x.op = "add_relation"
  BY TablesListed, IndexesListed, RelationsListed DEF CreateTable, CreateIndex, CreateRelation
<1> HIDE DEF A, B, C, s, a, b, c
<1>3. CASE i \in 1 .. a
  BY <1>1, <1>2, <1>3 DEF A, B, C, s, a, b, c
<1>4. CASE i \in (a + 1) .. (a + b)
  <2>1. i - a \in 1 .. b /\ a + (i - a) = i
    BY <1>1, <1>4
  <2> QED BY <1>1, <1>2, <1>4, <2>1 DEF A, B, C, s, a, b, c
<1>5. CASE i \in (a + b + 1) .. (a + b + c)
  <2>1. i - a - b \in 1 .. c /\ a + b + (i - a - b) = i
    BY <1>1, <1>5
  <2>2. s[i].op = "add_relation" /\ s[i] = C[i - a - b]
    BY <1>1, <1>2, <2>1
  <2> QED BY <1>5, <2>2 DEF A, B, C, s, a, b, c
<1> QED BY <1>1, <1>3, <1>4, <1>5 DEF s

\* No statement on tables, and none for an index, stands in a script twice.
LEMMA CompiledOnce ==
  ASSUME NEW d \in Documents, ValidateSchema(d),
         NEW i \in 1 .. Len(CompileSchemaSql(d)), NEW j \in 1 .. Len(CompileSchemaSql(d)),
         CompileSchemaSql(d)[i] = CompileSchemaSql(d)[j],
         CompileSchemaSql(d)[i].op # "add_relation"
  PROVE  i = j
<1> DEFINE A == TableStatements(d)
           B == IndexStatements(d)
           s == CompileSchemaSql(d)
           a == Len(A)
           b == Len(B)
<1>1. /\ a \in Nat /\ b \in Nat /\ DOMAIN A = 1 .. a /\ DOMAIN B = 1 .. b
      /\ IsInjective(A) /\ IsInjective(B)
  BY TablesListed, IndexesListed, SeqFacts
<1>2. \A k \in 1 .. Len(s) :
        /\ s[k].op = "create_table" => k \in 1 .. a /\ s[k] = A[k]
        /\ s[k].op = "create_index" => k \in (a + 1) .. (a + b) /\ s[k] = B[k - a]
        /\ s[k].op \in {"create_table", "create_index", "add_relation"}
  BY CompiledPlaces
<1> HIDE DEF A, B, s, a, b
<1>3. s[i] = s[j] /\ s[i].op \in {"create_table", "create_index"} /\ i \in 1 .. Len(s) /\ j \in 1 .. Len(s)
  BY <1>2 DEF s
<1>4. CASE s[i].op = "create_table"
  BY <1>1, <1>2, <1>3, <1>4 DEF IsInjective
<1>5. CASE s[i].op = "create_index"
  <2>1. /\ i \in (a + 1) .. (a + b) /\ j \in (a + 1) .. (a + b)
        /\ B[i - a] = B[j - a]
    BY <1>2, <1>3, <1>5
  <2>2. i - a \in DOMAIN B /\ j - a \in DOMAIN B
    BY <1>1, <2>1
  <2>3. i - a = j - a
    BY <1>1, <2>1, <2>2 DEF IsInjective
  <2> QED BY <1>1, <2>1, <2>3
<1> QED BY <1>3, <1>4, <1>5

\* No statement before it was about the same table, or the same column of it.
LEMMA FirstOfItsKind ==
  ASSUME NEW a, NEW b, IsSchema(a), IsSchema(b), IsSeq(script),
         \A x : x \in Range(script) /\ ~IsObject(x) <=> Asked(x, a, b),
         pos \in Nat, pos < Len(script), ~IsObject(NextStatement),
         \A i, j \in 1 .. Len(script) :
           script[i] = script[j] /\ ~IsObject(script[i]) => i = j,
         NEW x \in RunOnTables(pos), x.table = NextStatement.table,
         NextStatement.op \notin {"create_table", "drop_table"} => ColumnOf(x) = ColumnOf(NextStatement)
  PROVE  FALSE
<1>1. Len(script) \in Nat /\ \A i \in 1 .. Len(script) : script[i] \in Range(script)
  BY SeqFacts
<1>2. PICK i \in 1 .. pos : x = script[i] /\ ~IsObject(script[i])
  BY DEF RunOnTables
<1>3. i \in 1 .. Len(script) /\ pos + 1 \in 1 .. Len(script) /\ i # pos + 1
  BY <1>1
<1>4. Asked(x, a, b) /\ Asked(NextStatement, a, b)
  BY <1>1, <1>2, <1>3 DEF NextStatement
<1>5. NextStatement = x
  BY <1>4, AskedOnce
<1> QED BY <1>2, <1>3, <1>5 DEF NextStatement

\* A refusal on the way up or down, of a statement on tables.
LEMMA TableRefusal ==
  ASSUME ScriptInv, phase \in {"refused", "stuck"}, ~OfObject
  PROVE  /\ phase = "refused" => Fits(NextStatement, Tables(from), Target) /\ Asked(NextStatement, from, to)
         /\ phase = "stuck" => Fits(NextStatement, Target, Tables(from)) /\ Asked(NextStatement, to, from)
         /\ Refused(database, populated, NextStatement) => TypeRefusal(database, populated, NextStatement)
<1>1. /\ pos \in Nat /\ pos < Len(script) /\ ~IsObject(NextStatement)
      /\ phase = "refused" => UpAndRunning
      /\ phase = "stuck" => DownAndRunning
  BY DEF ScriptInv, OfObject, IsObject
<1> DEFINE Same(x) == /\ x.table = NextStatement.table
                      /\ NextStatement.op \notin {"create_table", "drop_table"} => ColumnOf(x) = ColumnOf(NextStatement)
<1>3. CASE phase = "refused"
  <2>0. UpAndRunning
    BY <1>1, <1>3
  <2>1. /\ IsSchema(from) /\ IsSchema(to) /\ LikeSchema(Tables(from), from) /\ IsSeq(script)
        /\ \A x : x \in Range(script) /\ ~IsObject(x) <=> Asked(x, from, to)
    BY <1>3, <2>0, UpWay
  <2>2. \A i \in 1 .. Len(script) : ~IsObject(script[i]) => Fits(script[i], Tables(from), Target)
    BY <2>1, ScriptLeads, TargetIsGoal
  <2>3. \A i, j \in 1 .. Len(script) : script[i] = script[j] /\ ~IsObject(script[i]) => i = j
    <3>1. CASE route = "schema"
      <4>1. doc \in Documents /\ ValidateSchema(doc)
        BY <1>3, <2>0, <3>1, UpWay
      <4>2. script = CompileSchemaSql(doc)
        BY <2>0, <3>1 DEF UpAndRunning
      <4> QED BY <4>1, <4>2, CompiledOnce DEF IsObject
    <3>2. CASE route # "schema"
      BY <1>3, <2>0, <2>1, <3>2, UpWay, SeqFacts DEF IsInjective
    <3> QED BY <3>1, <3>2
  <2>4. \A x \in RunOnTables(pos) : ~Same(x)
    BY <1>1, <2>1, <2>3, FirstOfItsKind
  <2>5. Fits(NextStatement, Tables(from), Target) /\ Asked(NextStatement, from, to)
    <3>1. pos + 1 \in 1 .. Len(script)
      BY <1>1, <2>1, SeqFacts
    <3>2. NextStatement \in Range(script)
      BY <2>1, <3>1, SeqFacts DEF NextStatement
    <3> QED BY <1>1, <2>1, <2>2, <3>1, <3>2 DEF NextStatement
  <2>6. Between(database, Tables(from), Target, RunOnTables(pos))
    BY <2>0 DEF UpAndRunning
  <2> HIDE DEF Target, RunOnTables, NextStatement
  <2>7. Refused(database, populated, NextStatement) => TypeRefusal(database, populated, NextStatement)
    BY <2>4, <2>5, <2>6, RefusedOnTables
  <2> QED BY <1>3, <2>5, <2>7
<1>4. CASE phase = "stuck"
  <2>0. DownAndRunning
    BY <1>1, <1>4
  <2>1. /\ IsSchema(from) /\ IsSchema(to) /\ LikeSchema(Target, to) /\ IsSeq(script) /\ IsInjective(script)
        /\ Goal(Target, from) = Tables(from)
        /\ \A x : x \in Range(script) <=> Asked(x, to, from)
    BY <2>0, WayBack DEF DownAndRunning
  <2>2. \A x : x \in Range(script) /\ ~IsObject(x) <=> Asked(x, to, from)
    BY <2>1, AskedIsOfTables
  <2>3. \A i \in 1 .. Len(script) : ~IsObject(script[i]) => Fits(script[i], Target, Tables(from))
    <3> HIDE DEF Target
    <3>1. \A i \in 1 .. Len(script) : ~IsObject(script[i]) => Fits(script[i], Target, Goal(Target, from))
      BY <2>1, <2>2, ScriptLeads
    <3> QED BY <2>1, <3>1
  <2>4. \A i, j \in 1 .. Len(script) : script[i] = script[j] /\ ~IsObject(script[i]) => i = j
    BY <2>1, SeqFacts DEF IsInjective
  <2>5. \A x \in RunOnTables(pos) : ~Same(x)
    BY <1>1, <2>1, <2>2, <2>4, FirstOfItsKind
  <2>6. Fits(NextStatement, Target, Tables(from)) /\ Asked(NextStatement, to, from)
    <3>1. pos + 1 \in 1 .. Len(script)
      BY <1>1, <2>1, SeqFacts
    <3>2. NextStatement \in Range(script)
      BY <2>1, <3>1, SeqFacts DEF NextStatement
    <3> QED BY <1>1, <2>1, <2>3, <3>1, <3>2 DEF NextStatement
  <2>7. Between(database, Target, Tables(from), RunOnTables(pos))
    BY <2>0 DEF DownAndRunning
  <2> HIDE DEF Target, RunOnTables, NextStatement
  <2>8. Refused(database, populated, NextStatement) => TypeRefusal(database, populated, NextStatement)
    BY <2>5, <2>6, <2>7, RefusedOnTables
  <2> QED BY <1>4, <2>6, <2>8
<1> QED BY <1>3, <1>4

\* What stands in the way of a statement on tables was there when the migration began.
LEMMA HeldExplained ==
  ASSUME objects \subseteq StillThere,
         Refused(database, populated, NextStatement) => TypeRefusal(database, populated, NextStatement),
         \/ Refused(database, populated, NextStatement)
         \/ Held(database, objects, NextStatement)
         \/ RowsMayRefuse
  PROVE  MigrationRefusal(NextStatement)
<1> DEFINE s == NextStatement
<1>1. RowsMayRefuse => /\ s.op = "alter_column" /\ s.table \in populated
                       /\ database[s.table][s.column].type # s.type
  BY DEF RowsMayRefuse
<1>2. \A x \in objects : x \in found /\ OnColumnsOf(x, database)
  BY DEF StillThere
<1>3. Refused(database, populated, s) => TypeRefusal(database, populated, s)
  OBVIOUS
<1>4. Refused(database, populated, s) \/ Held(database, objects, s) \/ RowsMayRefuse
  OBVIOUS
<1> HIDE DEF s
<1>5. CASE RowsMayRefuse
  BY <1>1, <1>5 DEF MigrationRefusal, s
<1>6. CASE Refused(database, populated, s)
  BY <1>3, <1>6 DEF TypeRefusal, MigrationRefusal, s
<1>7. CASE Held(database, objects, s)
  <2>1. CASE s.op \in {"create_table", "drop_table", "drop_column"}
    BY <1>2, <1>7, <2>1 DEF Held, MigrationRefusal, s
  <2>2. CASE s.op = "alter_column"
    <3>1. PICK x \in objects :
            \/ /\ x.op = "create_index" /\ x.table = s.table /\ s.column \in Range(x.fields)
               /\ s.type \notin Indexable
            \/ /\ RefersFrom(x, s.table, s.column) \/ RefersTo(x, s.table, s.column)
               /\ ~StillJoins(database, x, s)
      BY <1>7, <2>2 DEF Held
    <3>2. x \in found /\ OnColumnsOf(x, database)
      BY <1>2
    <3>3. CASE /\ x.op = "create_index" /\ x.table = s.table /\ s.column \in Range(x.fields)
               /\ s.type \notin Indexable
      BY <2>2, <3>2, <3>3 DEF MigrationRefusal, s
    <3>4. CASE /\ RefersFrom(x, s.table, s.column) \/ RefersTo(x, s.table, s.column)
               /\ ~StillJoins(database, x, s)
      <4>1. ~(RefersFrom(x, s.table, s.column) /\ RefersTo(x, s.table, s.column))
        BY <3>4 DEF StillJoins, CanJoin, RefersFrom, RefersTo
      <4>2. RefersFrom(x, s.table, s.column) # RefersTo(x, s.table, s.column)
        BY <3>4, <4>1 DEF RefersFrom, RefersTo
      <4> QED BY <2>2, <3>2, <4>2 DEF MigrationRefusal, s
    <3> QED BY <3>1, <3>3, <3>4
  <2>3. CASE s.op \notin {"create_table", "drop_table", "drop_column", "alter_column"}
    BY <1>7, <2>3 DEF Held
  <2> QED BY <2>1, <2>2, <2>3
<1> QED BY <1>4, <1>5, <1>6, <1>7

\* When a table of a document is created there is no index yet.
LEMMA NoIndexBeforeTables ==
  ASSUME ScriptInv, phase = "refused", route = "schema", ~OfObject
  PROVE  NextStatement.op = "create_table" /\ objects = {}
<1>1. UpAndRunning /\ pos \in Nat /\ pos < Len(script)
  BY DEF ScriptInv
<1>2. doc \in Documents /\ ValidateSchema(doc) /\ script = CompileSchemaSql(doc) /\ objects = RunOnObjects(pos)
  BY <1>1, UpWay DEF UpAndRunning
<1> DEFINE a == Len(TableStatements(doc))
           b == Len(IndexStatements(doc))
           c == Len(RelationStatements(doc))
<1>3. a \in Nat /\ b \in Nat /\ c \in Nat /\ Len(script) = a + b + c
  BY <1>2, CompiledParts
<1>4. \A i \in 1 .. Len(script) :
        \/ script[i].op = "create_table" /\ i \in 1 .. a
        \/ script[i].op \in {"create_index", "add_relation"} /\ i \in (a + 1) .. (a + b + c)
  <2> SUFFICES ASSUME NEW i \in 1 .. Len(script)
               PROVE  \/ script[i].op = "create_table" /\ i \in 1 .. a
                      \/ script[i].op \in {"create_index", "add_relation"} /\ i \in (a + 1) .. (a + b + c)
    OBVIOUS
  <2>1. \/ script[i].op = "create_table" /\ i \in 1 .. a
        \/ script[i].op = "create_index" /\ i \in (a + 1) .. (a + b)
        \/ script[i].op = "add_relation" /\ i \in (a + b + 1) .. (a + b + c)
    BY <1>2, CompiledPlaces
  <2> HIDE DEF a, b, c
  <2> QED BY <1>3, <2>1
<1> HIDE DEF a, b, c
<1>5. NextStatement.op = "create_table" /\ pos + 1 \in 1 .. a
  BY <1>1, <1>3, <1>4 DEF NextStatement, OfObject
<1>6. \A i \in 1 .. pos : ~IsObject(script[i])
  BY <1>1, <1>3, <1>4, <1>5 DEF IsObject
<1> QED BY <1>2, <1>5, <1>6 DEF RunOnObjects

\* Why Postgres refuses a statement on tables.
LEMMA TablesExplained ==
  ASSUME ScriptInv, phase = "refused", ~OfObject
  PROVE  IF route = "schema" THEN DocumentRefusal(NextStatement) ELSE MigrationRefusal(NextStatement)
<1>1. /\ Refused(database, populated, NextStatement) => TypeRefusal(database, populated, NextStatement)
      /\ \/ Refused(database, populated, NextStatement)
         \/ Held(database, objects, NextStatement)
         \/ RowsMayRefuse
  BY TableRefusal DEF ScriptInv, Stumbles
<1>2. CASE route = "schema"
  <2>1. NextStatement.op = "create_table" /\ objects = {}
    BY <1>2, NoIndexBeforeTables
  <2>2. ~Held(database, objects, NextStatement) /\ ~RowsMayRefuse
    BY <2>1 DEF Held, RowsMayRefuse
  <2> HIDE DEF NextStatement
  <2> QED BY <1>1, <1>2, <2>1, <2>2 DEF TypeRefusal, DocumentRefusal
<1>3. CASE route # "schema"
  <2>1. objects = StillThere
    BY <1>3 DEF ScriptInv, UpAndRunning
  <2> QED BY <1>1, <1>3, <2>1, HeldExplained
<1> QED BY <1>2, <1>3

\* On the way back it refuses no drop and no table.
LEMMA WayBackExplained ==
  ASSUME ScriptInv, phase = "stuck"
  PROVE  /\ MigrationRefusal(NextStatement) /\ route # "schema"
         /\ NextStatement.op \in {"add_column", "alter_column"}
<1>1. /\ DownAndRunning /\ pos \in Nat /\ pos < Len(script) /\ route = "dsl"
      /\ objects \subseteq StillThere /\ found \in Holdings /\ Standing(Tables(from), found)
      /\ Buildable(from)
  BY DEF ScriptInv, DownAndRunning
<1>2. ~OfObject
  <2>1. IsSeq(script) /\ \A x : x \in Range(script) <=> Asked(x, to, from)
    BY <1>1, WayBack DEF DownAndRunning
  <2>2. pos + 1 \in 1 .. Len(script)
    BY <1>1, <2>1, SeqFacts
  <2>3. NextStatement \in Range(script)
    BY <2>1, <2>2, SeqFacts DEF NextStatement
  <2> QED BY <2>1, <2>3, AskedIsOfTables DEF OfObject, IsObject
<1>3. /\ Refused(database, populated, NextStatement) => TypeRefusal(database, populated, NextStatement)
      /\ \/ Refused(database, populated, NextStatement)
         \/ Held(database, objects, NextStatement)
         \/ RowsMayRefuse
      /\ Fits(NextStatement, Target, Tables(from)) /\ Asked(NextStatement, to, from)
  BY <1>2, TableRefusal DEF ScriptInv, Stumbles
<1>4. MigrationRefusal(NextStatement)
  BY <1>1, <1>3, HeldExplained
<1> DEFINE s == NextStatement
<1>5. RowsMayRefuse => s.op = "alter_column"
  BY DEF RowsMayRefuse
<1> HIDE DEF s
<1>6. \A x \in objects :
        /\ x.op = "create_index" => x.name \notin DOMAIN Tables(from)
        /\ x.op = "add_relation" => /\ x.toTable \in DOMAIN Tables(from)
                                    /\ x.toField \in DOMAIN Tables(from)[x.toTable]
  BY <1>1, StandsOnColumns DEF StillThere
<1>7. s.op # "create_table"
  <2> SUFFICES ASSUME s.op = "create_table" PROVE FALSE
    OBVIOUS
  <2>1. PICK t \in Range(from) : s = CreateTable(t)
    BY <1>3 DEF s, Asked, ColumnAsked, DropTable, AddColumn, DropColumn, AlterColumn
  <2>2. ~TypeRefusal(database, populated, s)
    BY <1>1, <2>1 DEF TypeRefusal, Buildable, CreateTable
  <2>3. s.table \in DOMAIN Tables(from)
    BY <1>3 DEF s, Fits
  <2>4. ~Held(database, objects, s)
    BY <1>6, <2>3 DEF Held
  <2> QED BY <1>3, <1>5, <2>2, <2>4 DEF s
<1>8. s.op # "drop_table"
  <2> SUFFICES ASSUME s.op = "drop_table" PROVE FALSE
    OBVIOUS
  <2>1. s.table \notin DOMAIN Tables(from)
    BY <1>3 DEF s, Fits
  <2>2. ~TypeRefusal(database, populated, s)
    BY DEF TypeRefusal
  <2>3. ~Held(database, objects, s)
    BY <1>6, <2>1 DEF Held
  <2> QED BY <1>3, <1>5, <2>2, <2>3 DEF s
<1>9. s.op # "drop_column"
  <2> SUFFICES ASSUME s.op = "drop_column" PROVE FALSE
    OBVIOUS
  <2>1. s.column \notin DOMAIN Tables(from)[s.table]
    BY <1>3 DEF s, Fits, ColumnOf
  <2>2. ~TypeRefusal(database, populated, s)
    BY DEF TypeRefusal
  <2>3. ~Held(database, objects, s)
    BY <1>6, <2>1 DEF Held, RefersTo
  <2> QED BY <1>3, <1>5, <2>2, <2>3 DEF s
<1>10. s.op \in {"create_table", "drop_table", "add_column", "drop_column", "alter_column"}
  BY <1>3 DEF s, Fits
<1> QED BY <1>1, <1>4, <1>7, <1>8, <1>9, <1>10 DEF s

\* Indexes and relations are asked for when all the tables of the document are there.
LEMMA ObjectsComeLater ==
  ASSUME ScriptInv, phase = "refused", OfObject
  PROVE  /\ doc \in Documents /\ ValidateSchema(doc) /\ IsSchema(doc.tables)
         /\ script = CompileSchemaSql(doc)
         /\ pos \in Nat /\ pos + 1 \in 1 .. Len(script)
         /\ objects = RunOnObjects(pos)
         /\ LikeSchema(database, doc.tables)
         /\ route = "schema" /\ RefusedObject(database, objects, NextStatement)
<1>1. pos \in Nat /\ pos < Len(script) /\ IsObject(NextStatement)
  BY DEF ScriptInv, OfObject, IsObject
<1>2. RefusedObject(database, objects, NextStatement)
  BY <1>1 DEF ScriptInv, Stumbles, RowsMayRefuse, IsObject
<1>3. UpAndRunning
  BY DEF ScriptInv
<1>4. /\ IsSchema(from) /\ IsSchema(to) /\ LikeSchema(Tables(from), from) /\ IsSeq(script)
      /\ \A x : x \in Range(script) /\ ~IsObject(x) <=> Asked(x, from, to)
  BY <1>3, UpWay
<1>5. Len(script) \in Nat /\ pos + 1 \in 1 .. Len(script)
  BY <1>1, <1>4, SeqFacts
<1>6. route = "schema"
  <2>1. NextStatement \in Range(script)
    BY <1>4, <1>5, SeqFacts DEF NextStatement
  <2> QED BY <1>1, <1>3, <2>1, UpWay
<1>7. doc \in Documents /\ ValidateSchema(doc) /\ to = doc.tables /\ script = CompileSchemaSql(doc)
  BY <1>3, <1>6, UpWay DEF ScriptInv, UpAndRunning
<1>8. RunOnTables(pos) = RunOnTables(Len(script))
  <2>1. ASSUME NEW i \in 1 .. Len(script), ~IsObject(script[i]) PROVE i \in 1 .. pos
    <3> DEFINE a == Len(TableStatements(doc))
    <3>1. i \in 1 .. a
      BY <1>7, <2>1, CompiledPlaces DEF IsObject
    <3>2. pos + 1 \notin 1 .. a
      <4>1. script[pos + 1].op # "create_table"
        BY <1>1 DEF NextStatement, IsObject
      <4>2. a \in Nat /\ Len(IndexStatements(doc)) \in Nat
        BY <1>7, CompiledParts
      <4> HIDE DEF a
      <4>3. pos + 1 \in (a + 1) .. (a + Len(IndexStatements(doc)))
            \/ pos + 1 \in (a + Len(IndexStatements(doc)) + 1)
                             .. (a + Len(IndexStatements(doc)) + Len(RelationStatements(doc)))
        BY <1>5, <1>7, <4>1, CompiledPlaces DEF a
      <4> QED BY <4>2, <4>3
    <3>3. a \in Nat
      BY <1>7, CompiledParts
    <3> QED BY <1>1, <3>1, <3>2, <3>3
  <2>2. \A i \in 1 .. pos : i \in 1 .. Len(script)
    BY <1>1, <1>5
  <2> QED BY <2>1, <2>2 DEF RunOnTables
<1>9. database = Target
  <2>1. IsDatabase(Target) /\ Covers(RunOnTables(Len(script)), Tables(from), Target)
    BY <1>4, ScriptLeads, TargetIsGoal
  <2> QED BY <1>3, <1>8, <2>1, NothingLeft DEF UpAndRunning
<1>10. LikeSchema(database, doc.tables)
  BY <1>7, <1>9, TargetIsGoal, GoalAt
<1> QED BY <1>1, <1>2, <1>3, <1>4, <1>5, <1>6, <1>7, <1>10 DEF UpAndRunning

LEMMA IndexRefusal ==
  ASSUME ScriptInv, phase = "refused", NextStatement.op = "create_index"
  PROVE  \/ Has(doc.tables, NextStatement.name)
         \/ \E t \in Range(doc.tables) : t.name # NextStatement.table /\ Has(t.indexes, NextStatement.name)
         \/ \E f \in Range(NextStatement.fields) :
              Named(Named(doc.tables, NextStatement.table).fields, f).type \notin Indexable
<1> DEFINE s == NextStatement
           B == IndexStatements(doc)
           a == Len(TableStatements(doc))
<1>0. OfObject
  BY DEF OfObject
<1>1. /\ doc \in Documents /\ ValidateSchema(doc) /\ IsSchema(doc.tables)
      /\ script = CompileSchemaSql(doc)
      /\ pos \in Nat /\ pos + 1 \in 1 .. Len(script)
      /\ objects = RunOnObjects(pos) /\ LikeSchema(database, doc.tables)
  BY <1>0, ObjectsComeLater
<1>2. ASSUME NEW i \in 1 .. Len(script), script[i].op = "create_index" PROVE script[i] \in Range(B)
  <2>1. i \in (a + 1) .. (a + Len(B)) /\ script[i] = B[i - a]
    BY <1>1, <1>2, CompiledPlaces
  <2>2. a \in Nat /\ Len(B) \in Nat /\ \A k \in 1 .. Len(B) : B[k] \in Range(B)
    BY <1>1, CompiledParts, IndexesListed, SeqFacts
  <2> HIDE DEF a, B
  <2>3. i - a \in 1 .. Len(B)
    BY <2>1, <2>2
  <2> QED BY <2>1, <2>2, <2>3
<1>3. \A y \in Range(B) : \E t \in Range(doc.tables) : \E x \in Range(t.indexes) : y = CreateIndex(t, x)
  BY <1>1, IndexesListed
<1>4. PICK t \in Range(doc.tables) : \E x \in Range(t.indexes) : s = CreateIndex(t, x)
  BY <1>1, <1>2, <1>3 DEF NextStatement
<1>5. PICK x \in Range(t.indexes) : s = CreateIndex(t, x)
  BY <1>4
<1>6. s.op = "create_index" /\ s.table = t.name /\ s.name = x.name /\ s.fields = x.fields
  BY <1>5 DEF CreateIndex
<1>7. UniqueNames(doc.tables) /\ UniqueNames(t.indexes) /\ UniqueNames(t.fields)
  BY <1>1, ValidDocument DEF IsSchema
<1>8. Has(doc.tables, t.name) /\ Named(doc.tables, t.name) = t
  BY <1>7, NamesFind
<1>9. s.table \in DOMAIN database
  BY <1>1, <1>6, <1>8 DEF LikeSchema
<1>10. Range(s.fields) \subseteq DOMAIN database[s.table]
  <2>1. ValidIndexes(t)
    BY <1>1 DEF ValidateSchema, Range
  <2>2. Range(x.fields) \subseteq Range(Names(t.fields))
    BY <2>1 DEF ValidIndexes, Range
  <2>3. \A n \in Range(Names(t.fields)) : Has(t.fields, n)
    BY DEF Names, Range, Has
  <2>4. \A n : n \in DOMAIN database[t.name] <=> Has(t.fields, n)
    BY <1>1, <1>6, <1>8, <1>9 DEF LikeSchema
  <2> QED BY <1>6, <2>2, <2>3, <2>4
<1>11. RefusedObject(database, objects, s)
  BY <1>0, ObjectsComeLater
<1> HIDE DEF s
<1>12. \/ s.name \in DOMAIN database
       \/ \E y \in objects : y.op = "create_index" /\ y.name = s.name
       \/ \E f \in Range(s.fields) : TypeIn(database, s.table, f) \notin Indexable
  BY <1>6, <1>9, <1>10, <1>11 DEF RefusedObject
<1>13. CASE s.name \in DOMAIN database
  BY <1>1, <1>13 DEF LikeSchema, s
<1>14. CASE \E y \in objects : y.op = "create_index" /\ y.name = s.name
  <2>1. PICK k \in 1 .. pos : script[k].op = "create_index" /\ script[k].name = s.name
    BY <1>1, <1>14 DEF RunOnObjects
  <2>2. k \in 1 .. Len(script) /\ k # pos + 1
    BY <1>1
  <2>3. PICK u \in Range(doc.tables) : \E z \in Range(u.indexes) : script[k] = CreateIndex(u, z)
    BY <1>2, <1>3, <2>1, <2>2
  <2>4. PICK z \in Range(u.indexes) : script[k] = CreateIndex(u, z)
    BY <2>3
  <2>5. z.name = s.name
    BY <2>1, <2>4 DEF CreateIndex
  <2>6. ASSUME u.name = s.table PROVE FALSE
    <3>1. u = t
      BY <1>6, <1>7, <1>8, <2>6, NamesFind
    <3>2. z = x
      BY <1>6, <1>7, <2>5, <3>1 DEF UniqueNames, Range
    <3>3. script[k] = script[pos + 1]
      BY <1>5, <2>4, <3>1, <3>2 DEF s, NextStatement
    <3> QED BY <1>1, <2>1, <2>2, <3>3, CompiledOnce
  <2>7. Has(u.indexes, s.name)
    BY <2>5 DEF Has, Range
  <2> QED BY <2>6, <2>7 DEF s
<1>15. ASSUME NEW f \in Range(s.fields), TypeIn(database, s.table, f) \notin Indexable
       PROVE  Named(Named(doc.tables, s.table).fields, f).type \notin Indexable
  BY <1>1, <1>9, <1>10, <1>15 DEF LikeSchema, TypeIn
<1> QED BY <1>12, <1>13, <1>14, <1>15 DEF s

LEMMA RelationRefusal ==
  ASSUME ScriptInv, phase = "refused", NextStatement.op = "add_relation"
  PROVE  LET s == NextStatement
             target == Named(doc.tables, s.toTable) IN
         \/ ~ \E x \in Range(target.indexes) : x.unique /\ x.fields = <<s.toField>>
         \/ ~CanJoin(Named(Named(doc.tables, s.table).fields, s.field).type,
                     Named(target.fields, s.toField).type)
         \/ \E i, j \in DOMAIN doc.relations :
              i < j /\ CreateRelation(doc.relations[i]).name = CreateRelation(doc.relations[j]).name
<1> DEFINE s == NextStatement
           target == Named(doc.tables, s.toTable)
           B == IndexStatements(doc)
           C == RelationStatements(doc)
           a == Len(TableStatements(doc))
           b == Len(B)
           j == pos + 1 - a - b
<1>0. OfObject
  BY DEF OfObject
<1>1. /\ doc \in Documents /\ ValidateSchema(doc) /\ IsSchema(doc.tables)
      /\ script = CompileSchemaSql(doc)
      /\ pos \in Nat /\ pos + 1 \in 1 .. Len(script)
      /\ objects = RunOnObjects(pos) /\ LikeSchema(database, doc.tables)
  BY <1>0, ObjectsComeLater
<1>2. /\ a \in Nat /\ b \in Nat /\ Len(script) = a + b + Len(C) /\ Len(C) = Len(doc.relations)
      /\ Len(C) \in Nat /\ DOMAIN doc.relations = 1 .. Len(doc.relations)
      /\ \A i \in 1 .. Len(C) : C[i] = CreateRelation(doc.relations[i])
      /\ DOMAIN B = 1 .. b
      /\ \A i \in 1 .. b : script[a + i] = B[i]
  <2>1. IsSeq(doc.relations) /\ IsSeq(B)
    BY <1>1, IndexesListed, DocumentsAssumption
  <2>2. /\ a \in Nat /\ b \in Nat /\ Len(script) = a + b + Len(C) /\ Len(C) \in Nat
        /\ \A i \in 1 .. b : script[a + i] = B[i]
    BY <1>1, CompiledParts
  <2>3. /\ Len(C) = Len(doc.relations)
        /\ \A i \in 1 .. Len(C) : C[i] = CreateRelation(doc.relations[i])
    BY <1>1, RelationsListed
  <2>4. DOMAIN doc.relations = 1 .. Len(doc.relations) /\ DOMAIN B = 1 .. b
    BY <2>1, SeqFacts
  <2> QED BY <2>2, <2>3, <2>4
<1>3. \A k \in 1 .. Len(script) : script[k].op = "add_relation" =>
        k \in (a + b + 1) .. (a + b + Len(C)) /\ script[k] = C[k - a - b]
  BY <1>1, CompiledPlaces
<1>4. pos + 1 \in (a + b + 1) .. (a + b + Len(C)) /\ s = C[j]
  BY <1>1, <1>3 DEF NextStatement
<1> HIDE DEF a, b, C
<1>5. j \in 1 .. Len(C)
  <2>1. pos \in Nat /\ a \in Nat /\ b \in Nat /\ Len(C) \in Nat
    BY <1>1, <1>2
  <2> QED BY <1>4, <2>1
<1>6. s = CreateRelation(doc.relations[j]) /\ j \in DOMAIN doc.relations
  BY <1>2, <1>4, <1>5
<1> DEFINE r == doc.relations[j]
<1>7. /\ s.table = r.fromTable /\ s.field = r.fromField /\ s.toTable = r.toTable
      /\ s.toField = r.toField /\ s.op = "add_relation"
  BY <1>6 DEF CreateRelation
<1>8. ValidRelation(doc.tables, r)
  BY <1>1, <1>6 DEF ValidateSchema
<1>9. /\ s.table \in DOMAIN database /\ s.toTable \in DOMAIN database
      /\ s.field \in DOMAIN database[s.table] /\ s.toField \in DOMAIN database[s.toTable]
      /\ TypeIn(database, s.table, s.field) = Named(Named(doc.tables, s.table).fields, s.field).type
      /\ TypeIn(database, s.toTable, s.toField) = Named(target.fields, s.toField).type
  <2>1. /\ Has(doc.tables, s.table) /\ Has(Named(doc.tables, s.table).fields, s.field)
        /\ Has(doc.tables, s.toTable) /\ Has(target.fields, s.toField)
    BY <1>7, <1>8 DEF ValidRelation
  <2> HIDE DEF s
  <2> QED BY <1>1, <2>1 DEF LikeSchema, TypeIn
<1>10. RefusedObject(database, objects, s)
  BY <1>0, ObjectsComeLater
<1> HIDE DEF s, target, r, j
<1>11. \/ ~CanJoin(TypeIn(database, s.table, s.field), TypeIn(database, s.toTable, s.toField))
       \/ ~ \E x \in objects : /\ x.op = "create_index" /\ x.unique
                               /\ x.table = s.toTable /\ x.fields = <<s.toField>>
       \/ \E x \in objects : x.op = "add_relation" /\ x.name = s.name
  BY <1>7, <1>9, <1>10 DEF RefusedObject
<1>12. ASSUME NEW x \in Range(target.indexes), x.unique, x.fields = <<s.toField>>
       PROVE  \E y \in objects : /\ y.op = "create_index" /\ y.unique
                                 /\ y.table = s.toTable /\ y.fields = <<s.toField>>
  <2>1. Has(doc.tables, s.toTable)
    BY <1>7, <1>8 DEF ValidRelation
  <2>2. target \in Range(doc.tables) /\ target.name = s.toTable
    BY <1>1, <2>1, NamesFind DEF IsSchema, target
  <2> DEFINE y == CreateIndex(target, x)
  <2>3. y \in Range(B)
    BY <1>1, <2>2, IndexesListed
  <2>4. PICK k \in 1 .. b : B[k] = y
    BY <1>2, <2>3 DEF Range
  <2>5. a + k \in 1 .. pos /\ script[a + k] = y
    <3>1. pos \in Nat /\ a \in Nat /\ b \in Nat /\ Len(C) \in Nat
      BY <1>1, <1>2
    <3>2. a + k \in 1 .. pos
      BY <1>4, <3>1
    <3> QED BY <1>2, <2>4, <3>2
  <2>6. y.op = "create_index" /\ y.unique /\ y.table = s.toTable /\ y.fields = <<s.toField>>
    BY <1>12, <2>2 DEF CreateIndex
  <2>7. IsObject(script[a + k])
    BY <2>5, <2>6 DEF IsObject
  <2>8. y \in objects
    BY <1>1, <2>5, <2>7 DEF RunOnObjects
  <2> QED BY <2>6, <2>8
<1>13. ASSUME NEW y \in objects, y.op = "add_relation", y.name = s.name
       PROVE  \E i, k \in DOMAIN doc.relations :
                i < k /\ CreateRelation(doc.relations[i]).name = CreateRelation(doc.relations[k]).name
  <2>1. PICK k \in 1 .. pos : script[k] = y
    BY <1>1 DEF RunOnObjects
  <2>2. k \in 1 .. Len(script)
    BY <1>1
  <2>3. k \in (a + b + 1) .. (a + b + Len(C)) /\ script[k] = C[k - a - b]
    BY <1>3, <1>13, <2>1, <2>2
  <2> DEFINE i == k - a - b
  <2>4. i \in 1 .. Len(C) /\ i < j
    <3>1. pos \in Nat /\ a \in Nat /\ b \in Nat /\ Len(C) \in Nat
      BY <1>1, <1>2
    <3> QED BY <2>3, <3>1 DEF j
  <2>5. i \in DOMAIN doc.relations /\ CreateRelation(doc.relations[i]) = y
    BY <1>2, <2>1, <2>3, <2>4
  <2> HIDE DEF i
  <2> QED BY <1>6, <1>13, <2>4, <2>5 DEF r
<1> QED BY <1>9, <1>11, <1>12, <1>13 DEF s, target

\* Nothing a script has done itself, and nothing the validator looks at, makes Postgres
\* refuse one of its statements, on the way up or back.
THEOREM RefusalsAreExplained == ScriptSpec => []RefusalsExplained
<1>1. ASSUME ScriptInv, phase = "refused" PROVE RefusalsExplained
  <2>1. CASE NextStatement.op \in {"create_index", "add_relation"}
    <3>1. route = "schema"
      BY <1>1, <2>1, ObjectsComeLater DEF OfObject
    <3>2. DocumentRefusal(NextStatement)
      BY <1>1, <2>1, IndexRefusal, RelationRefusal DEF DocumentRefusal
    <3> QED BY <1>1, <3>1, <3>2 DEF RefusalsExplained
  <2>2. CASE NextStatement.op \notin {"create_index", "add_relation"}
    <3>1. ~OfObject
      BY <2>2 DEF OfObject
    <3> QED BY <1>1, <3>1, TablesExplained DEF RefusalsExplained
  <2> QED BY <2>1, <2>2
<1>2. ASSUME ScriptInv, phase = "stuck" PROVE RefusalsExplained
  BY <1>2, WayBackExplained DEF RefusalsExplained
<1>3. ScriptInv => RefusalsExplained
  BY <1>1, <1>2 DEF RefusalsExplained
<1> QED BY <1>3, ScriptInvariant, PTL
=============================================================================
