-------------------------- MODULE MCPchCompilation --------------------------
(***************************************************************************)
(* Instances of PchCompilation for TLC: one client that uploads twice,     *)
(* one that uploads once and one that finds the file in src cache.         *)
(***************************************************************************)
EXTENDS PchCompilation

CONSTANTS u1, u2, u3, x, y, z

MCClientOf == [u \in Uploads |-> IF u = u3 THEN y ELSE x]
=============================================================================
