---------------------------- MODULE MCRuntimeWs ----------------------------
(***************************************************************************)
(* Two gateway instances and one socket.  The safety run has an earlier    *)
(* update and three new ones, and the socket may come with the cursor of   *)
(* whatever is saved; no new update differs from another before it is      *)
(* used, so they may be permuted, and so may the instances.                *)
(***************************************************************************)
EXTENDS RuntimeWs, TLC

CONSTANTS e0

NoEarlier == <<>>
OneEarlier == <<e0>>

Symmetry == Permutations(Event \ {e0}) \cup Permutations(Instance)
=============================================================================
