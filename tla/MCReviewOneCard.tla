-------------------------- MODULE MCReviewOneCard --------------------------
(* One card, two study pages, two handlers at once, no limit of new cards. *)
EXTENDS ReviewSession, TLC

CONSTANTS k1, c1, c2, r1, r2

OneCard == k1 :> 1
Symmetry == Permutations({c1, c2}) \cup Permutations({r1, r2})
=============================================================================
