--------------------------- MODULE MCReviewLimit ---------------------------
(* Two cards, one new card a day, a day that rolls over, two study pages. *)
EXTENDS StudyDay, TLC

CONSTANTS k1, k2, c1, c2, r1, r2

TwoCards == k1 :> 1 @@ k2 :> 2
(* A zone puts its clocks forward, or back, at each hour of a day. *)
AllZones == {[before |-> b, after |-> 1 - b, change |-> c] : b \in {0, 1}, c \in 24 .. 47}

Symmetry == Permutations({c1, c2}) \cup Permutations({r1, r2})
=============================================================================
