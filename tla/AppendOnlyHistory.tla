-------------------------- MODULE AppendOnlyHistory --------------------------
(***************************************************************************)
(* What the readers of an app's version histories rely on: a history is    *)
(* appended to one version at a time, and a version once there never       *)
(* changes.                                                                *)
(***************************************************************************)
EXTENDS Naturals

CONSTANTS History, Document, None

VARIABLE history

Entry == [document : Document, rollbackFrom : Nat]

Init == history = [h \in History |-> [v \in {} |-> None]]

\* Version v of h is put after all the others.
AppendVersion(h, v) ==
  /\ DOMAIN history[h] = 1 .. v - 1
  /\ DOMAIN history'[h] = 1 .. v
  /\ history'[h][v] \in Entry
  /\ \A w \in 1 .. v - 1 : history'[h][w] = history[h][w]
  /\ history' = [history EXCEPT ![h] = history'[h]]

Next == \E h \in History : \E v \in DOMAIN history'[h] : AppendVersion(h, v)

Spec == Init /\ [][Next]_history
=============================================================================
