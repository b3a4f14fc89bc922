--------------------------- MODULE MCMetaCatalog ---------------------------
(***************************************************************************)
(* Three calls, any of them a publication of one of two documents or a     *)
(* rollback, over the schema and one view, and two requests.  Calls differ *)
(* in nothing but their names, and neither do documents and requests.      *)
(***************************************************************************)
EXTENDS MetaCatalog, TLC

MCKinds == <<"tables", "pages">>
MCKindOf == [h \in {"view"} |-> "pages"]

Symmetry == Permutations(Call) \cup Permutations(Document) \cup Permutations(Reader)
=============================================================================
