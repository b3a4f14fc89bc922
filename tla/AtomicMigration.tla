-------------------------- MODULE AtomicMigration --------------------------
(***************************************************************************)
(* What the callers of executeMigration count on: a migration is one step. *)
(* The database goes from one state to the next by a whole plan, run in    *)
(* its order on the state it finds, or it does not change.                 *)
(***************************************************************************)
EXTENDS MigrationSql

CONSTANTS Start, Plans   \* the first database, the statement lists

VARIABLE db

\* The database after the first n statements of plan p.
After(p, n) ==
  LET state[i \in 0 .. n] == IF i = 0 THEN db ELSE Effect(state[i - 1], p[i])
  IN  state[n]

Init == db = Start

Migrate(p) ==
  /\ \A i \in 1 .. Len(p) : ~Refused(After(p, i - 1), {}, p[i])
  /\ db' = After(p, Len(p))

Next == \E p \in Plans : Migrate(p)

Spec == Init /\ [][Next]_db
=============================================================================
