------------------------- MODULE MCSessionAdmission -------------------------
(***************************************************************************)
(* Instances of SessionAdmission for TLC: a daemon that starts, quits or   *)
(* loses its connection, and starts again, beside two coverage sessions,   *)
(* one of them of a client that doesn't know its target.                   *)
(***************************************************************************)
EXTENDS SessionAdmission, TLC

CONSTANTS a, b, e, s1, s2

Interchangeable == Permutations({a, b})
=============================================================================
