--------------------------- MODULE MCObjCacheKey ----------------------------
(***************************************************************************)
(* An instance of ObjCacheKey for TLC: a .cpp and two headers, which may   *)
(* be copies of each other.                                                *)
(***************************************************************************)
EXTENDS ObjCacheKey

CONSTANTS cpp, a, b, x

MCHeaders == <<a, b>>
MCContents ==
  (cpp :> {"main", "main, edited"})
    @@ [h \in {a, b} |-> {"text", "other"}]
MCCxxArgs == {<<<<x>>>>, <<<<x>>, <<x>>>>}
=============================================================================
