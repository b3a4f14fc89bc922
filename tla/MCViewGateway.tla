--------------------------- MODULE MCViewGateway ---------------------------
(***************************************************************************)
(* One request and its repetition, each in a process of its own, against a *)
(* view that may not exist yet, is published, and is broken by a change.   *)
(***************************************************************************)
EXTENDS ViewGateway

CONSTANTS p1, p2   \* processes

MCWrites == <<<<"order", "stock">>, <<>>, <<"stock">>>>
MCEvent == Attempt \X Kinds
MCSinkOf == [e \in MCEvent |-> IF e[1] = 1 THEN p1 ELSE p2]
=============================================================================
