-------------------------- MODULE MCDaemonRetries --------------------------
(***************************************************************************)
(* Instances of DaemonRetries for TLC.  Server 1 isn't the compiler we ask *)
(* for; both files hash to it, so the first attempt of either may be spent *)
(* on learning that, and it may then be the only one that is up.           *)
(***************************************************************************)
EXTENDS DaemonRetries

CONSTANTS r1, r2

SomeKinds == [r \in Requests |-> IF r = r1 THEN {"coverage"} ELSE {"cpp", "pch", "local"}]
StartFirst == [r \in Requests |-> 1]
RefusedFirst == [h \in Hosts |-> IF h = 1 THEN {"cxx"} ELSE {"coverage"}]
=============================================================================
