-------------------------- MODULE MCRemoteAttempts --------------------------
(***************************************************************************)
(* Instances of RemoteAttempts for TLC: two attempts on one remote.        *)
(***************************************************************************)
EXTENDS RemoteAttempts, TLC

CONSTANTS i1, i2

AttemptSymmetry == Permutations(Attempts)

=============================================================================
