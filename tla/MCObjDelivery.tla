--------------------------- MODULE MCObjDelivery ----------------------------
(***************************************************************************)
(* Instances of ObjDelivery for TLC: the .cfg files give it its constants. *)
(***************************************************************************)
EXTENDS ObjDelivery

=============================================================================
