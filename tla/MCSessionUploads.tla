-------------------------- MODULE MCSessionUploads --------------------------
(***************************************************************************)
(* Instances of SessionUploads for TLC: up to three sessions of one client *)
(* which share the files h (a header), p (a .nocc-pch) and sys (a header   *)
(* under the system include dirs).  The server's sys has the content v1.   *)
(***************************************************************************)
EXTENDS SessionUploads, TLC

CONSTANTS a, b, c, h, p, sys, v1, v2

StreamSymmetry == Permutations(Streams)
SystemV1 == [f \in SystemHeaders |-> v1]

\* Every file has one version on the client.
OneVersion == [s \in Sessions |-> [f \in FileNames |-> IF f = p THEN v2 ELSE v1]]

\* b has another sys than c and the server.
MixedRequired == (a :> <<h>>) @@ (b :> <<h, sys>>) @@ (c :> <<sys>>)
MixedShas == [OneVersion EXCEPT ![b][sys] = v2]

\* Each of a and b may be the first to claim a file which the other one needs.
CrossedRequired == (a :> <<h, p>>) @@ (b :> <<p, h>>)

\* The header h was edited between the two invocations.
EditedRequired == (a :> <<h>>) @@ (b :> <<h>>)
EditedShas == [OneVersion EXCEPT ![b][h] = v2]

\* Both have a sys which is not the server's.
HeaderRequired == (a :> <<sys, h>>) @@ (b :> <<sys>>)
HeaderShas == [s \in Sessions |-> [f \in FileNames |-> v2]]

=============================================================================
