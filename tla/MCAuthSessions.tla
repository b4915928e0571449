--------------------------- MODULE MCAuthSessions ---------------------------
(* One session and its renewals, two logouts at once, two sockets, a gate  *)
(* of one slot.                                                            *)
EXTENDS AuthSessions

CONSTANTS s1, h1, h2, w1, w2
=============================================================================
