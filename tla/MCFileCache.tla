---------------------------- MODULE MCFileCache -----------------------------
(***************************************************************************)
(* Instances of FileCache for TLC: three contents of which one is larger.  *)
(***************************************************************************)
EXTENDS FileCache, TLC

CONSTANTS k1, k2, k3

Sizes == [k \in Keys |-> IF k = k3 THEN 2 ELSE 1]

=============================================================================
