----------------------------- MODULE MCInstances -----------------------------
(* Two processes, an older and a newer release, two reviews, two builds. *)
EXTENDS Instances, TLC

CONSTANTS p1, p2

Symmetry == Permutations({p1, p2})
=============================================================================
