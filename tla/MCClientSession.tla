--------------------------- MODULE MCClientSession ---------------------------
(* Two tabs, a remembered session and one more login. *)
EXTENDS ClientSession, TLC

CONSTANTS t1, t2

Symmetry == Permutations({t1, t2})
=============================================================================
