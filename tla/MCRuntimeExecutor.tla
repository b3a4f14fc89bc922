------------------------- MODULE MCRuntimeExecutor -------------------------
(***************************************************************************)
(* Small instances of RuntimeExecutor: every dependency graph over three   *)
(* nodes (cycles and self-references included) under every submit list in  *)
(* Submits; views whose submit list names a node they do not have; and the *)
(* four-node shapes that fan out from one node and may join again.         *)
(***************************************************************************)
EXTENDS DagScheduler

CONSTANTS a, b, c, d

MCOrder == <<a, b, c, d>>

\* No submit, one node, both orders of two, three, and a repeated node.
Submits == {<<>>, <<a>>, <<a, b>>, <<b, a>>, <<c, a, b>>, <<a, c, a>>}

MCViews ==
  {[nodes |-> {a, b, c}, edges |-> e, submit |-> s] :
     e \in [{a, b, c} -> SUBSET {a, b, c}], s \in Submits}
  \cup
  {[nodes |-> {a, c}, edges |-> e, submit |-> s] :
     e \in [{a, c} -> SUBSET {a, c}], s \in Submits}
  \cup
  {[nodes |-> Node,
    edges |-> [n \in Node |-> CASE n = a -> {} [] n = d -> join [] OTHER -> fork],
    submit |-> s] :
     fork \in SUBSET {a}, join \in SUBSET {b, c},
     s \in {<<>>, <<d>>, <<c, b>>, <<b, d>>, <<d, b>>}}
=============================================================================
