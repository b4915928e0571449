---------------------------- MODULE MCTaskStream ----------------------------
(* Two builds, of which the manager remembers one, and one stream with a   *)
(* queue of two events, which overflows.                                   *)
EXTENDS TaskStream

CONSTANTS s1
=============================================================================
