--------------------------- MODULE MCObjTransfer ----------------------------
(***************************************************************************)
(* An instance of ObjTransfer for TLC: a coverage compilation that is      *)
(* tried on two servers with other sizes, an .o that fits one chunk, one   *)
(* whose .gcno is missing and which is tried again in vain.                *)
(***************************************************************************)
EXTENDS ObjTransfer

CONSTANTS covered, plain, bare   \* requests

MCRequest == (1 :> covered) @@ (2 :> covered) @@ (3 :> plain) @@ (4 :> bare) @@ (5 :> bare)
MCStream == (1 :> 1) @@ (2 :> 2) @@ (3 :> 1) @@ (4 :> 2) @@ (5 :> 1)
MCExitCode == [a \in Attempts |-> IF a = 5 THEN "killed" ELSE "ok"]
MCObjSize == (1 :> 3) @@ (2 :> 2) @@ (3 :> 2) @@ (4 :> 1) @@ (5 :> 1)
MCNotesSize == (1 :> 1) @@ (2 :> 3) @@ (3 :> 0) @@ (4 :> 0) @@ (5 :> 0)
=============================================================================
