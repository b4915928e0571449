-------------------------- MODULE MCLoginThrottle --------------------------
(* Two client addresses, three handlers, two failures in a window of two ticks. *)
EXTENDS LoginThrottle, TLC

CONSTANTS c1, c2, r1, r2, r3

Symmetry == Permutations({c1, c2}) \cup Permutations({r1, r2, r3})
=============================================================================
