------------------------------ MODULE LruCache ------------------------------
(***************************************************************************)
(* What a cache of nocc-server promises: it forgets the keys in the order  *)
(* they were last used, and never the one last used.  FileCache implements *)
(* it with a linked list.                                                  *)
(***************************************************************************)
EXTENDS Naturals, SequencesExt

CONSTANTS Keys, None

VARIABLES
  order,     \* the keys in the cache, the last used one first
  lastUsed   \* the key last looked up with success, or added

vars == <<order, lastUsed>>

Cached(k) == k \in ToSet(order)

Init == order = <<>> /\ lastUsed = None

Use(k) ==
  /\ \E i \in DOMAIN order :
       order[i] = k /\ order' = <<k>> \o RemoveAt(order, i)
  /\ lastUsed' = k

Add(k) ==
  /\ ~Cached(k)
  /\ order' = <<k>> \o order
  /\ lastUsed' = k

EvictOldest ==
  /\ Len(order) > 1
  /\ order' = Front(order)
  /\ UNCHANGED lastUsed

Drop ==
  /\ order' = <<>>
  /\ lastUsed' = None

Next ==
  \/ \E k \in Keys : Use(k) \/ Add(k)
  \/ EvictOldest
  \/ Drop

Spec == Init /\ [][Next]_vars

=============================================================================
