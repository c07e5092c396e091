-------------------------- MODULE FileCacheProofs ---------------------------
(***************************************************************************)
(* Proofs about FileCache, for any number of goroutines, keys and calls.   *)
(***************************************************************************)
EXTENDS FileCache, FiniteSetTheorems, SequenceTheorems, TLAPS

-----------------------------------------------------------------------------
(* The inductive invariant                                                 *)

\* Every reference is to a node that was made, and such a node has a key.
Allocated ==
  /\ \A n \in 1 .. lastIndex : nodeKey[n] \in Keys
  /\ \A n \in Nodes : next[n] <= lastIndex /\ prev[n] <= lastIndex
  /\ lruHead <= lastIndex /\ lruTail <= lastIndex
  /\ \A p \in Procs : node[p] <= lastIndex
  /\ \A k \in Keys : table[k] <= lastIndex

\* A node is an entry of its own key, or in the hands of one goroutine.
Owned ==
  /\ \A k \in Keys : table[k] # 0 => nodeKey[table[k]] = k
  /\ \A p, q \in Procs : node[p] # 0 /\ node[p] = node[q] => p = q
  /\ \A p \in Procs, k \in Keys : node[p] # 0 => node[p] # table[k]

\* The files of the entries, and of the entries to come.
Stored ==
  /\ \A n \in onDisk :
       \/ \E k \in Keys : table[k] = n
       \/ \E p \in Procs : pc[p] \in {"insert", "duplicate", "remove"} /\ node[p] = n
  /\ drops = 0 =>
       /\ dirs
       /\ \A k \in Keys : table[k] # 0 => table[k] \in onDisk
       /\ \A p \in Procs : pc[p] = "insert" => node[p] \in onDisk

Inv == TypeOK /\ Allocated /\ Owned /\ Stored

-----------------------------------------------------------------------------

LEMMA InitInv == Init => Inv
<1> SUFFICES ASSUME Init PROVE Inv
  OBVIOUS
<1> USE FileCacheAssumption DEF Init
<1>1. TypeOK
  BY DEF TypeOK, Ref, Nodes, Stages
<1>2. Allocated
  BY DEF Allocated
<1>3. Owned /\ Stored
  BY DEF Owned, Stored
<1> QED
  BY <1>1, <1>2, <1>3 DEF Inv

\* Assignments through a pointer, nil or not, keep the fields in range.
LEMMA FieldAssigned ==
  ASSUME NEW b \in Nat, NEW f \in [Nodes -> Ref], \A m \in Nodes : f[m] <= b,
         NEW n \in Ref, NEW r \in Ref, r <= b
  PROVE  /\ Assign(f, Field(n, r)) \in [Nodes -> Ref]
         /\ \A m \in Nodes : Assign(f, Field(n, r))[m] <= b
BY DEF Assign, Field

LEMMA Typed ==
  ASSUME TypeOK
  PROVE  /\ lastIndex \in Nat /\ lruHead \in Nat /\ lruTail \in Nat
         /\ \A k \in Keys : table[k] \in Nat
         /\ \A p \in Procs : node[p] \in Nat
         /\ \A n \in Nodes : n \in Nat /\ next[n] \in Nat /\ prev[n] \in Nat
<1>1. Ref \subseteq Nat /\ Nodes \subseteq Nat
  BY FileCacheAssumption DEF Ref, Nodes
<1> QED
  BY <1>1 DEF TypeOK

LEMMA FrontKept ==
  ASSUME TypeOK, Allocated, NEW n \in Nodes, n <= lastIndex, MoveToFront(n)
  PROVE  /\ next' \in [Nodes -> Ref] /\ prev' \in [Nodes -> Ref]
         /\ lruHead' \in Ref /\ lruTail' \in Ref
         /\ \A m \in Nodes : next'[m] <= lastIndex /\ prev'[m] <= lastIndex
         /\ lruHead' <= lastIndex /\ lruTail' <= lastIndex
<1>1. /\ next[n] \in Ref /\ prev[n] \in Ref /\ lruHead \in Ref /\ n \in Ref
      /\ next[n] <= lastIndex /\ prev[n] <= lastIndex /\ lruHead <= lastIndex
      /\ lastIndex \in Nat /\ 0 \in Ref /\ 0 <= lastIndex
  BY Typed DEF TypeOK, Allocated, Ref
<1> DEFINE nexts == Assign(next, Field(prev[n], next[n]))
           prevs == Assign(prev, Field(next[n], prev[n]))
           prevs2 == Assign(prevs, Field(n, 0))
<1>2. nexts \in [Nodes -> Ref] /\ \A m \in Nodes : nexts[m] <= lastIndex
  BY <1>1, FieldAssigned DEF TypeOK, Allocated
<1>3. prevs \in [Nodes -> Ref] /\ \A m \in Nodes : prevs[m] <= lastIndex
  BY <1>1, FieldAssigned DEF TypeOK, Allocated
<1>4. prevs2 \in [Nodes -> Ref] /\ \A m \in Nodes : prevs2[m] <= lastIndex
  <2> HIDE DEF prevs
  <2> QED
    BY <1>1, <1>3, FieldAssigned
<1>5. /\ next' = Assign(nexts, Field(n, lruHead))
      /\ prev' = Assign(prevs2, Field(lruHead, n))
      /\ lruHead' = n
      /\ lruTail' = IF next[n] = 0 THEN prev[n] ELSE lruTail
  BY DEF MoveToFront
<1> HIDE DEF nexts, prevs2
<1>6. next' \in [Nodes -> Ref] /\ \A m \in Nodes : next'[m] <= lastIndex
  BY <1>1, <1>2, <1>5, FieldAssigned
<1>7. prev' \in [Nodes -> Ref] /\ \A m \in Nodes : prev'[m] <= lastIndex
  BY <1>1, <1>4, <1>5, FieldAssigned
<1>8. lruTail' \in Ref /\ lruTail' <= lastIndex
  BY <1>1, <1>5 DEF TypeOK, Allocated
<1> QED
  BY <1>1, <1>5, <1>6, <1>7, <1>8

LEMMA LookupInv ==
  ASSUME Inv, NEW k \in Keys, LookupHit(k)
  PROVE  Inv'
<1> USE DEF diskVars, procVars
<1>1. table[k] \in Nodes /\ table[k] <= lastIndex
  BY FileCacheAssumption DEF LookupHit, Inv, TypeOK, Allocated, Ref
<1>2. /\ next' \in [Nodes -> Ref] /\ prev' \in [Nodes -> Ref]
      /\ lruHead' \in Ref /\ lruTail' \in Ref
      /\ \A m \in Nodes : next'[m] <= lastIndex /\ prev'[m] <= lastIndex
      /\ lruHead' <= lastIndex /\ lruTail' <= lastIndex
  BY <1>1, FrontKept DEF LookupHit, Inv, TypeOK, Allocated
<1>3. TypeOK'
  BY <1>2 DEF LookupHit, Inv, TypeOK
<1>4. Allocated'
  BY <1>2 DEF LookupHit, Inv, Allocated
<1>5. Owned' /\ Stored'
  BY DEF LookupHit, Inv, Owned, Stored
<1> QED
  BY <1>3, <1>4, <1>5 DEF Inv

LEMMA SaveInv ==
  ASSUME Inv, NEW p \in Workers, \/ \E k \in Keys : TakeIndex(p, k)
                                 \/ SaveStep(p)
  PROVE  Inv'
<1> USE FileCacheAssumption
    DEF listVars, diskVars, procVars, Goto, Inv
<1>0. p \in Procs
  BY DEF Procs
<1>1. ASSUME NEW k \in Keys, TakeIndex(p, k)
      PROVE  Inv'
  <2>1. lastIndex' \in Nodes /\ lastIndex' = lastIndex + 1 /\ node[p] = 0
    BY <1>0, <1>1 DEF TakeIndex, TypeOK, Ref, Nodes
  <2> DEFINE n == lastIndex'
  <2>a. /\ nodeKey' = [nodeKey EXCEPT ![n] = k]
        /\ node' = [node EXCEPT ![p] = n]
        /\ pc' = [pc EXCEPT ![p] = "link"] /\ pc[p] = "idle"
        /\ UNCHANGED <<table, next, prev, lruHead, lruTail, totalSizeOnDisk,
                       onDisk, dirs, lastUsed, drops>>
    BY <1>1 DEF TakeIndex
  <2>b. n \in Nodes /\ n \in Nat /\ n # 0 /\ n = lastIndex + 1 /\ lastIndex \in Nat
    BY <2>1, Typed
  <2> HIDE DEF n
  <2>2. TypeOK'
    <3>1. /\ nodeKey' \in [Nodes -> Keys \cup {None}]
          /\ node' \in [Procs -> Ref] /\ lastIndex' \in Ref
      BY <1>0, <2>1, <2>a, <2>b DEF TypeOK, Ref
    <3>2. /\ pc' \in [Procs -> Stages]
          /\ \A q \in Procs : node'[q] = 0 <=> pc'[q] \in {"idle", "check", "evict"}
      BY <1>0, <2>a, <2>b DEF TypeOK, Stages
    <3> QED
      BY <2>a, <3>1, <3>2 DEF TypeOK
  <2>3. Allocated'
    <3>1. \A m \in 1 .. lastIndex' : nodeKey'[m] \in Keys
      BY <2>1, <2>a, <2>b DEF TypeOK, Allocated, n
    <3>2. \A q \in Procs : node'[q] <= lastIndex'
      BY <1>0, <2>1, <2>a, <2>b, Typed DEF TypeOK, Allocated, n
    <3> QED
      BY <2>1, <2>a, <2>b, <3>1, <3>2, Typed DEF Allocated
  <2>4. Owned'
    <3>1. \A q \in Procs : node[q] # n
      BY <2>b, Typed DEF Allocated
    <3>2. \A j \in Keys : table[j] # n
      BY <2>b, Typed DEF Allocated
    <3> QED
      BY <1>0, <2>a, <2>b, <3>1, <3>2 DEF TypeOK, Owned
  <2>5. Stored'
    BY <1>0, <1>1, <2>1 DEF TakeIndex, TypeOK, Stored
  <2> QED
    BY <2>2, <2>3, <2>4, <2>5
<1>2. CASE LinkToCache(p)
  <2>1. node[p] \in Nodes
    BY <1>0, <1>2 DEF LinkToCache, TypeOK, Ref
  <2>2. TypeOK'
    BY <1>0, <1>2, <2>1 DEF LinkToCache, TypeOK, Ref, Stages
  <2>3. Allocated' /\ Owned'
    BY <1>0, <1>2, <2>1, Typed DEF LinkToCache, TypeOK, Allocated, Owned
  <2>4. Stored'
    BY <1>0, <1>2, <2>1 DEF LinkToCache, TypeOK, Stored
  <2> QED
    BY <2>2, <2>3, <2>4
<1>3. CASE InsertEntry(p)
  <2> DEFINE n == node[p]
             k == nodeKey[n]
  <2>1. /\ n \in Nodes /\ n <= lastIndex /\ k \in Keys /\ table[k] = 0
        /\ n \in Ref /\ lruHead \in Ref /\ lruHead <= lastIndex /\ lastIndex \in Nat
    <3>1. n \in Nodes /\ n \in Ref /\ lruHead \in Ref
      BY <1>0, <1>3 DEF InsertEntry, TypeOK, Ref
    <3>2. n <= lastIndex /\ lruHead <= lastIndex /\ lastIndex \in Nat
      BY <1>0, Typed DEF Allocated
    <3>3. n \in 1 .. lastIndex
      BY <3>1, <3>2 DEF Nodes
    <3> QED
      BY <1>3, <3>1, <3>2, <3>3 DEF InsertEntry, Allocated
  <2>2. /\ next' \in [Nodes -> Ref] /\ \A m \in Nodes : next'[m] <= lastIndex
        /\ prev' \in [Nodes -> Ref] /\ \A m \in Nodes : prev'[m] <= lastIndex
    BY <1>3, <2>1, FieldAssigned DEF InsertEntry, NewHead, TypeOK, Allocated
  <2>3. /\ lruHead' \in Ref /\ lruTail' \in Ref
        /\ lruHead' <= lastIndex /\ lruTail' <= lastIndex
    BY <1>3, <2>1 DEF InsertEntry, NewHead, TypeOK, Allocated
  <2>4. /\ table' = [table EXCEPT ![k] = n]
        /\ node' = [node EXCEPT ![p] = 0]
        /\ pc' = [pc EXCEPT ![p] = "check"] /\ pc[p] = "insert"
        /\ lastUsed' = k
        /\ totalSizeOnDisk' = totalSizeOnDisk + Size[k]
        /\ UNCHANGED <<nodeKey, lastIndex, onDisk, dirs, drops>>
    BY <1>3 DEF InsertEntry
  <2> HIDE DEF n, k
  <2>5. TypeOK'
    BY <1>0, <2>1, <2>2, <2>3, <2>4 DEF TypeOK, Ref, Stages
  <2>6. Allocated'
    BY <1>0, <2>1, <2>2, <2>3, <2>4, Typed DEF Allocated, TypeOK
  <2>7. Owned'
    BY <1>0, <2>1, <2>4 DEF Owned, TypeOK, n, k
  <2>8. Stored'
    <3>1. ASSUME NEW m \in onDisk
          PROVE  \/ \E j \in Keys : table'[j] = m
                 \/ \E q \in Procs : /\ pc'[q] \in {"insert", "duplicate", "remove"}
                                      /\ node'[q] = m
      <4>1. CASE m = n
        BY <2>1, <2>4, <4>1 DEF TypeOK
      <4>2. ASSUME NEW j \in Keys, table[j] = m
            PROVE  table'[j] = m
        <5>1. m \in Nodes
          BY DEF TypeOK
        <5> QED
          BY <2>1, <2>4, <4>2, <5>1 DEF TypeOK, Nodes
      <4>3. ASSUME NEW q \in Procs, pc[q] \in {"insert", "duplicate", "remove"},
                   node[q] = m, m # n
            PROVE  /\ pc'[q] \in {"insert", "duplicate", "remove"}
                   /\ node'[q] = m
        BY <1>0, <2>4, <4>3 DEF TypeOK, n
      <4> QED
        BY <4>1, <4>2, <4>3 DEF Stored
    <3>2. ASSUME drops = 0
          PROVE  /\ \A j \in Keys : table'[j] # 0 => table'[j] \in onDisk
                 /\ \A q \in Procs : pc'[q] = "insert" => node'[q] \in onDisk
      BY <1>0, <2>1, <2>4, <3>2 DEF Stored, TypeOK, n
    <3> QED
      BY <2>4, <3>1, <3>2 DEF Stored
  <2> QED
    BY <2>5, <2>6, <2>7, <2>8
<1>4. CASE FindEntry(p)
  <2>1. TypeOK'
    BY <1>0, <1>4 DEF FindEntry, TypeOK, Stages
  <2>2. Allocated' /\ Owned' /\ Stored'
    BY <1>0, <1>4 DEF FindEntry, TypeOK, Allocated, Owned, Stored
  <2> QED
    BY <2>1, <2>2
<1>5. CASE RemoveDuplicate(p)
  <2>1. TypeOK'
    BY <1>0, <1>5 DEF RemoveDuplicate, TypeOK, Stages, Ref
  <2>2. Allocated' /\ Owned'
    BY <1>0, <1>5, Typed DEF RemoveDuplicate, TypeOK, Allocated, Owned
  <2>3. Stored'
    BY <1>0, <1>5 DEF RemoveDuplicate, TypeOK, Owned, Stored
  <2> QED
    BY <2>1, <2>2, <2>3
<1> QED
  BY <1>1, <1>2, <1>3, <1>4, <1>5 DEF SaveStep

LEMMA PurgeInv ==
  ASSUME Inv, NEW p \in Procs, PurgeStep(p)
  PROVE  Inv'
<1> USE FileCacheAssumption
    DEF listVars, diskVars, procVars, Goto, Inv
<1>1. CASE CheckLimit(p) \/ NothingToEvict(p)
  <2>1. \E x \in {"check", "evict", "idle"} : pc' = [pc EXCEPT ![p] = x]
    BY <1>1 DEF CheckLimit, NothingToEvict
  <2>2. /\ pc[p] \in {"check", "evict"}
        /\ UNCHANGED <<table, nodeKey, next, prev, lruHead, lruTail, lastIndex,
                       totalSizeOnDisk, onDisk, dirs, node, lastUsed, drops>>
    BY <1>1 DEF CheckLimit, NothingToEvict
  <2>3. TypeOK'
    BY <2>1, <2>2 DEF TypeOK, Stages
  <2>4. Allocated' /\ Owned' /\ Stored'
    BY <2>1, <2>2 DEF TypeOK, Allocated, Owned, Stored
  <2> QED
    BY <2>3, <2>4
<1>2. CASE EvictTail(p)
  <2> DEFINE k == nodeKey[lruTail]
             e == table[k]
             stage == IF e # 0 THEN "remove" ELSE "check"
  <2>1. /\ pc[p] = "evict" /\ node[p] = 0
        /\ table' = [table EXCEPT ![k] = 0]
        /\ node' = [node EXCEPT ![p] = e]
        /\ pc' = [pc EXCEPT ![p] = stage]
        /\ lruTail' = prev[lruTail]
        /\ next' = Assign(next, Field(prev[lruTail], 0))
        /\ UNCHANGED <<nodeKey, prev, lruHead, lastIndex, totalSizeOnDisk, onDisk,
                       dirs, lastUsed, drops>>
    BY <1>2 DEF EvictTail, TypeOK
  <2>2. lruTail \in Nodes /\ lruTail \in 1 .. lastIndex
    <3>1. lruTail # 0 /\ lruTail \in Ref
      BY <1>2 DEF EvictTail, TypeOK
    <3> QED
      BY <3>1, Typed DEF Allocated, Ref
  <2>3. k \in Keys /\ e \in Ref /\ e <= lastIndex /\ (e # 0 => nodeKey[e] = k)
    BY <2>2 DEF TypeOK, Allocated, Owned
  <2>4. prev[lruTail] \in Ref /\ prev[lruTail] <= lastIndex
    BY <2>2 DEF TypeOK, Allocated
  <2>5. next' \in [Nodes -> Ref] /\ \A m \in Nodes : next'[m] <= lastIndex
    <3>1. 0 \in Ref /\ 0 <= lastIndex /\ lastIndex \in Nat
      BY Typed DEF Ref
    <3> QED
      BY <2>1, <2>4, <3>1, FieldAssigned DEF TypeOK, Allocated
  <2> HIDE DEF k, e
  <2>6. TypeOK'
    <3>1. table' \in [Keys -> Ref] /\ node' \in [Procs -> Ref]
      BY <2>1, <2>3 DEF TypeOK, Ref
    <3>2. /\ pc' \in [Procs -> Stages]
          /\ \A q \in Procs : node'[q] = 0 <=> pc'[q] \in {"idle", "check", "evict"}
      BY <2>1 DEF TypeOK, Stages
    <3> QED
      BY <2>1, <2>4, <2>5, <3>1, <3>2 DEF TypeOK
  <2>7. Allocated'
    BY <2>1, <2>3, <2>4, <2>5, Typed DEF Allocated, TypeOK
  <2>8. Owned'
    <3>1. \A j \in Keys : table'[j] # 0 => nodeKey'[table'[j]] = j
      BY <2>1, <2>3 DEF Owned, TypeOK
    <3>2. \A q, r \in Procs : node'[q] # 0 /\ node'[q] = node'[r] => q = r
      BY <2>1, <2>3 DEF Owned, TypeOK, e
    <3>3. \A q \in Procs, j \in Keys : node'[q] # 0 => node'[q] # table'[j]
      BY <2>1, <2>3 DEF Owned, TypeOK
    <3> QED
      BY <3>1, <3>2, <3>3 DEF Owned
  <2>9. Stored'
    <3>1. ASSUME NEW m \in onDisk
          PROVE  \/ \E j \in Keys : table'[j] = m
                 \/ \E q \in Procs : /\ pc'[q] \in {"insert", "duplicate", "remove"}
                                      /\ node'[q] = m
      <4>0. m # 0
        BY DEF TypeOK, Nodes
      <4>1. CASE m = e
        BY <2>1, <4>0, <4>1 DEF TypeOK
      <4>2. ASSUME NEW j \in Keys, table[j] = m, m # e
            PROVE  table'[j] = m
        BY <2>1, <4>2 DEF TypeOK, e
      <4>3. ASSUME NEW q \in Procs, pc[q] \in {"insert", "duplicate", "remove"},
                   node[q] = m
            PROVE  /\ pc'[q] \in {"insert", "duplicate", "remove"}
                   /\ node'[q] = m
        BY <2>1, <4>3 DEF TypeOK
      <4> QED
        BY <4>1, <4>2, <4>3 DEF Stored
    <3>2. ASSUME drops = 0
          PROVE  /\ dirs
                 /\ \A j \in Keys : table'[j] # 0 => table'[j] \in onDisk
                 /\ \A q \in Procs : pc'[q] = "insert" => node'[q] \in onDisk
      BY <2>1, <2>3, <3>2 DEF Stored, TypeOK
    <3> QED
      BY <2>1, <3>1, <3>2 DEF Stored
  <2> QED
    BY <2>6, <2>7, <2>8, <2>9
<1>3. CASE RemoveEvicted(p)
  <2>1. node[p] \in Nodes /\ nodeKey[node[p]] \in Keys
    <3>1. node[p] \in Nodes
      BY <1>3 DEF RemoveEvicted, TypeOK, Ref
    <3> QED
      BY <3>1, Typed DEF Allocated, Nodes
  <2>2. TypeOK'
    BY <1>3, <2>1 DEF RemoveEvicted, TypeOK, Stages, Ref
  <2>3. Allocated' /\ Owned'
    BY <1>3, Typed DEF RemoveEvicted, TypeOK, Allocated, Owned
  <2>4. Stored'
    BY <1>3, <2>1 DEF RemoveEvicted, TypeOK, Owned, Stored
  <2> QED
    BY <2>2, <2>3, <2>4
<1> QED
  BY <1>1, <1>2, <1>3 DEF PurgeStep

LEMMA NextInv == Inv /\ [Next]_vars => Inv'
<1> SUFFICES ASSUME Inv, [Next]_vars PROVE Inv'
  OBVIOUS
<1> USE FileCacheAssumption DEF listVars, diskVars, procVars, Goto
<1>1. CASE StartPurge
  <2>1. TypeOK'
    BY <1>1 DEF StartPurge, Inv, TypeOK, Procs, Stages
  <2>2. Allocated' /\ Owned' /\ Stored'
    BY <1>1 DEF StartPurge, Inv, TypeOK, Allocated, Owned, Stored, Procs
  <2> QED
    BY <2>1, <2>2 DEF Inv
<1>2. CASE DropAll
  <2>1. TypeOK'
    <3>1. drops' \in 0 .. MaxDrops
      BY <1>2 DEF DropAll, Inv, TypeOK
    <3>2. table' \in [Keys -> Ref] /\ lruHead' \in Ref
      BY <1>2 DEF DropAll, Ref
    <3> QED
      <4>1. totalSizeOnDisk' \in Int /\ lastUsed' \in Keys \cup {None}
        BY <1>2 DEF DropAll
      <4>2. onDisk' \subseteq Nodes
        BY <1>2 DEF DropAll
      <4>3. dirs' \in BOOLEAN
        BY <1>2 DEF DropAll
      <4> QED
        BY <1>2, <3>1, <3>2, <4>1, <4>2, <4>3 DEF DropAll, Inv, TypeOK
  <2>2. drops' # 0 /\ Allocated' /\ Owned' /\ Stored'
    BY <1>2, Typed DEF DropAll, Inv, TypeOK, Allocated, Owned, Stored
  <2> QED
    BY <2>1, <2>2 DEF Inv
<1>3. CASE UNCHANGED vars
  BY <1>3 DEF vars, Inv, TypeOK, Allocated, Owned, Stored
<1> QED
  BY <1>1, <1>2, <1>3, LookupInv, SaveInv, PurgeInv DEF Next

(* Every file under cacheDir has an entry, which will be purged in its     *)
(* turn, or is in the hands of a goroutine that is about to make the entry *)
(* or to remove the file; and until a DropAll every entry has its file.    *)
(* The goroutines link and remove files outside of the mutex, but the      *)
(* number of a file makes it the property of one of them.                  *)
THEOREM NoFileIsLeaked == Spec => []FilesMatchTable
<1>1. Spec => []Inv
  BY InitInv, NextInv, PTL DEF Spec
<1>2. Inv => FilesMatchTable
  <2> SUFFICES ASSUME Inv PROVE FilesMatchTable
    OBVIOUS
  <2>1. onDisk \subseteq Entries \cup InHand({"insert", "duplicate", "remove"})
    <3> SUFFICES ASSUME NEW n \in onDisk
                 PROVE  n \in Entries \cup InHand({"insert", "duplicate", "remove"})
      OBVIOUS
    <3>1. n # 0
      BY DEF Inv, TypeOK, Nodes
    <3> QED
      BY <3>1 DEF Inv, Stored, Entries, InHand
  <2>2. drops = 0 => Entries \subseteq onDisk
    BY DEF Inv, Stored, Entries
  <2> QED
    BY <2>1, <2>2 DEF FilesMatchTable
<1> QED
  BY <1>1, <1>2, PTL

-----------------------------------------------------------------------------
(* The list                                                                *)

(***************************************************************************)
(* A nonempty set of numbers has a least one: induction by the minimal     *)
(* counterexample.                                                         *)
(***************************************************************************)
LEMMA LeastOf ==
  ASSUME NEW T \in SUBSET Nat, T # {}
  PROVE  \E m \in T : \A i \in T : m <= i
<1> DEFINE Below == {1 .. i : i \in T}
<1>1. Below \subseteq FiniteSubsetsOf(Nat) /\ Below # {}
  <2>1. \A i \in T : i \in Int /\ 1 .. i \in SUBSET Nat /\ IsFiniteSet(1 .. i)
    BY FS_Interval
  <2> QED  BY <2>1 DEF FiniteSubsetsOf
<1>2. PICK B \in Below : \A C \in Below : ~ (<<C, B>> \in StrictSubsetOrdering(Nat))
  <2> HIDE DEF Below
  <2> QED  BY <1>1, FS_StrictSubsetOrderingWellFounded, WFMin, Zenon
<1>3. PICK m \in T : B = 1 .. m
  OBVIOUS
<1>4. ASSUME NEW i \in T, i < m PROVE FALSE
  <2>1. 1 .. i \subseteq 1 .. m /\ m \in 1 .. m /\ m \notin 1 .. i
    BY <1>4
  <2>2. 1 .. i \in SUBSET Nat /\ 1 .. m \in SUBSET Nat
    OBVIOUS
  <2>3. <<1 .. i, 1 .. m>> \in StrictSubsetOrdering(Nat)
    BY <2>1, <2>2 DEF StrictSubsetOrdering
  <2> QED  BY <2>3, <1>2, <1>3
<1> QED  BY <1>4

\* The nodes of f, n of them, are linked in that order, head to tail.
IsList(n, f, nexts, prevs, head, tail) ==
  /\ f \in [1 .. n -> Nodes]
  /\ \A i, j \in 1 .. n : f[i] = f[j] => i = j
  /\ \A i \in 1 .. n : prevs[f[i]] = IF i = 1 THEN 0 ELSE f[i - 1]
  /\ \A i \in 1 .. n : nexts[f[i]] = IF i = n THEN 0 ELSE f[i + 1]
  /\ head = IF n = 0 THEN 0 ELSE f[1]
  /\ tail = IF n = 0 THEN 0 ELSE f[n]

Elems(n, f) == {f[i] : i \in 1 .. n}

ListOf(n, f) ==
  IsList(n, f, next, prev, lruHead, lruTail) /\ Elems(n, f) = Entries

ListKnown == drops = 0 => \E n \in Nat : \E f : ListOf(n, f)

\* What NodeAt is: it satisfies its equation because some function does.
Walk(visited) ==
  [i \in Nodes |-> IF i = 1 THEN lruHead
                   ELSE IF visited[i - 1] = 0 THEN 0 ELSE next[visited[i - 1]]]

LEMMA NodeAtWalks ==
  ASSUME NEW g, g = Walk(g)
  PROVE  NodeAt = Walk(NodeAt)
BY Zenon DEF NodeAt, Walk

(***************************************************************************)
(* NodeAt enumerates the list.                                             *)
(***************************************************************************)
LEMMA NodeAtIs ==
  ASSUME NEW n \in 0 .. MaxSaves, NEW f, IsList(n, f, next, prev, lruHead, lruTail)
  PROVE  \A i \in Nodes : NodeAt[i] = IF i <= n THEN f[i] ELSE 0
<1> USE FileCacheAssumption DEF Nodes
<1> DEFINE g == [i \in Nodes |-> IF i <= n THEN f[i] ELSE 0]
<1>1. g = Walk(g)
  <2>1. ASSUME NEW i \in Nodes
        PROVE  g[i] = IF i = 1 THEN lruHead ELSE IF g[i - 1] = 0 THEN 0 ELSE next[g[i - 1]]
    <3>1. CASE i = 1
      BY <3>1 DEF IsList
    <3>2. CASE i # 1
      <4>1. i - 1 \in Nodes /\ i - 1 + 1 = i
        BY <3>2
      <4>2. CASE i - 1 > n
        BY <4>1, <4>2, <3>2
      <4>3. CASE i - 1 <= n
        <5>1. i - 1 \in 1 .. n /\ g[i - 1] = f[i - 1] /\ g[i - 1] # 0
          BY <4>1, <4>3 DEF IsList
        <5>2. next[f[i - 1]] = IF i - 1 = n THEN 0 ELSE f[i - 1 + 1]
          BY <5>1, Zenon DEF IsList
        <5>3. g[i] = IF i - 1 = n THEN 0 ELSE f[i - 1 + 1]
          BY <4>1, <4>3
        <5> HIDE DEF g
        <5>4. g[i - 1] # 0 /\ next[g[i - 1]] = g[i]
          BY <5>1, <5>2, <5>3, Zenon
        <5> QED  BY <5>4, <3>2, Zenon
      <4> QED  BY <4>2, <4>3, <4>1
    <3> QED  BY <3>1, <3>2
  <2> HIDE DEF g
  <2>2. DOMAIN g = Nodes /\ g = [i \in DOMAIN g |-> g[i]]
    BY DEF g
  <2> QED  BY <2>1, <2>2, Zenon DEF Walk
<1>2. NodeAt = Walk(NodeAt)
  <2> HIDE DEF g
  <2> QED  BY <1>1, NodeAtWalks
<1> HIDE DEF g
<1>3. \A i \in Nodes :
        /\ NodeAt[i] = IF i = 1 THEN lruHead
                       ELSE IF NodeAt[i - 1] = 0 THEN 0 ELSE next[NodeAt[i - 1]]
        /\ g[i] = IF i = 1 THEN lruHead ELSE IF g[i - 1] = 0 THEN 0 ELSE next[g[i - 1]]
  BY <1>1, <1>2, Zenon DEF Walk
<1> DEFINE T == {i \in Nodes : NodeAt[i] # g[i]}
<1>4. T = {}
  <2>1. SUFFICES ASSUME T # {} PROVE FALSE
    OBVIOUS
  <2>2. T \in SUBSET Nat
    OBVIOUS
  <2>3. PICK m \in T : \A i \in T : m <= i
    BY <2>1, <2>2, LeastOf
  <2>4. m # 1
    BY <1>3, <2>3
  <2>5. m - 1 \in Nodes /\ m - 1 \notin T
    BY <2>3, <2>4
  <2> QED  BY <1>3, <2>3, <2>4, <2>5
<1> QED  BY <1>4 DEF g

\* One assignment through a pointer.
LEMMA AssignedIs ==
  ASSUME NEW h, DOMAIN h = Nodes, NEW m, NEW r
  PROVE  /\ DOMAIN Assign(h, Field(m, r)) = Nodes
         /\ \A x \in Nodes : Assign(h, Field(m, r))[x] = IF x = m /\ m # 0 THEN r ELSE h[x]
BY DEF Assign, Field

ToFront(n, f, j) ==
  [i \in 1 .. n |-> IF i = 1 THEN f[j] ELSE IF i <= j THEN f[i - 1] ELSE f[i]]
WithHead(n, f, m) == [i \in 1 .. n + 1 |-> IF i = 1 THEN m ELSE f[i - 1]]
WithoutTail(n, f) == [i \in 1 .. n - 1 |-> f[i]]

(***************************************************************************)
(* MoveToFront, of a node in the list that isn't its head.                 *)
(***************************************************************************)
LEMMA ToFrontIsList ==
  ASSUME NEW n \in Nat, NEW f, IsList(n, f, next, prev, lruHead, lruTail),
         DOMAIN next = Nodes, DOMAIN prev = Nodes,
         NEW j \in 2 .. n, MoveToFront(f[j])
  PROVE  /\ IsList(n, ToFront(n, f, j), next', prev', lruHead', lruTail')
         /\ Elems(n, ToFront(n, f, j)) = Elems(n, f)
         /\ \A x \in Nodes \ Elems(n, f) : prev'[x] = prev[x]
<1> USE FileCacheAssumption
<1> DEFINE m == f[j]
           g == ToFront(n, f, j)
           ahead == f[j - 1]
           behind == IF j = n THEN 0 ELSE f[j + 1]
<1>1. /\ f \in [1 .. n -> Nodes] /\ \A i, k \in 1 .. n : f[i] = f[k] => i = k
      /\ \A i \in 1 .. n : prev[f[i]] = IF i = 1 THEN 0 ELSE f[i - 1]
      /\ \A i \in 1 .. n : next[f[i]] = IF i = n THEN 0 ELSE f[i + 1]
      /\ lruHead = f[1] /\ lruTail = f[n] /\ 0 \notin Nodes
      /\ j \in 1 .. n /\ j - 1 \in 1 .. n /\ 1 \in 1 .. n /\ n \in 1 .. n
  BY DEF IsList, Nodes
<1>2. prev[m] = ahead /\ next[m] = behind /\ m \in Nodes /\ ahead \in Nodes /\ f[1] \in Nodes
  BY <1>1
<1>3. /\ next' = Assign(Assign(next, Field(ahead, behind)), Field(m, f[1]))
      /\ prev' = Assign(Assign(Assign(prev, Field(behind, ahead)), Field(m, 0)), Field(f[1], m))
      /\ lruTail' = IF behind = 0 THEN ahead ELSE f[n]
      /\ lruHead' = m
  BY <1>1, <1>2 DEF MoveToFront
<1>4. m # 0 /\ ahead # 0 /\ f[1] # 0 /\ m # f[1] /\ m # ahead /\ (behind = 0 <=> j = n)
  BY <1>1, <1>2
<1> HIDE DEF m, ahead, behind
<1>5. \A x \in Nodes : next'[x] = IF x = m THEN f[1] ELSE IF x = ahead THEN behind ELSE next[x]
  <2> DEFINE h == Assign(next, Field(ahead, behind))
  <2>1. /\ DOMAIN h = Nodes
        /\ \A x \in Nodes : h[x] = IF x = ahead /\ ahead # 0 THEN behind ELSE next[x]
    BY AssignedIs
  <2> HIDE DEF h
  <2>2. \A x \in Nodes : Assign(h, Field(m, f[1]))[x] = IF x = m /\ m # 0 THEN f[1] ELSE h[x]
    BY <2>1, AssignedIs
  <2>3. next' = Assign(h, Field(m, f[1]))
    BY <1>3 DEF h
  <2> QED  BY <2>1, <2>2, <2>3, <1>4
<1>6. \A x \in Nodes : prev'[x] = IF x = f[1] THEN m ELSE IF x = m THEN 0
                                  ELSE IF x = behind THEN ahead ELSE prev[x]
  <2> DEFINE h == Assign(prev, Field(behind, ahead))
             h2 == Assign(h, Field(m, 0))
  <2>1. /\ DOMAIN h = Nodes
        /\ \A x \in Nodes : h[x] = IF x = behind /\ behind # 0 THEN ahead ELSE prev[x]
    BY AssignedIs
  <2> HIDE DEF h
  <2>2. /\ DOMAIN h2 = Nodes
        /\ \A x \in Nodes : h2[x] = IF x = m /\ m # 0 THEN 0 ELSE h[x]
    BY <2>1, AssignedIs
  <2>3. prev' = Assign(h2, Field(f[1], m))
    BY <1>3 DEF h
  <2> HIDE DEF h2
  <2>4. \A x \in Nodes : Assign(h2, Field(f[1], m))[x] = IF x = f[1] /\ f[1] # 0 THEN m ELSE h2[x]
    BY <2>2, AssignedIs
  <2> QED  BY <2>1, <2>2, <2>3, <2>4, <1>1, <1>4
<1>7. /\ g \in [1 .. n -> Nodes] /\ g[1] = m
      /\ \A i \in 2 .. j : g[i] = f[i - 1]
      /\ \A i \in j + 1 .. n : g[i] = f[i]
  BY <1>1 DEF ToFront, m
<1> HIDE DEF g
<1>8. \A i, k \in 1 .. n : g[i] = g[k] => i = k
  <2> DEFINE place(i) == IF i = 1 THEN j ELSE IF i <= j THEN i - 1 ELSE i
  <2>1. \A i \in 1 .. n : place(i) \in 1 .. n /\ g[i] = f[place(i)]
    BY <1>7 DEF m
  <2>2. \A i, k \in 1 .. n : place(i) = place(k) => i = k
    OBVIOUS
  <2> HIDE DEF place
  <2> QED  BY <2>1, <2>2, <1>1
<1>9. \A i \in 1 .. n : prev'[g[i]] = IF i = 1 THEN 0 ELSE g[i - 1]
  <2>1. prev'[g[1]] = 0
    BY <1>2, <1>4, <1>6, <1>7
  <2>2. prev'[g[2]] = g[1]
    <3>1. g[2] = f[1]
      BY <1>7
    <3> QED  BY <3>1, <1>2, <1>6, <1>7
  <2>3. ASSUME NEW i \in 3 .. j PROVE prev'[g[i]] = g[i - 1]
    <3>1. g[i] = f[i - 1] /\ g[i - 1] = f[i - 2] /\ i - 1 \in 1 .. n /\ i - 1 - 1 = i - 2
      BY <1>7
    <3>2. f[i - 1] # f[1] /\ f[i - 1] # m /\ f[i - 1] \in Nodes
      BY <3>1, <1>1 DEF m
    <3>3. f[i - 1] # behind
      BY <3>1, <1>1 DEF behind
    <3>4. prev[f[i - 1]] = f[i - 2]
      BY <3>1, <1>1
    <3> QED  BY <3>1, <3>2, <3>3, <3>4, <1>6
  <2>4. ASSUME j < n PROVE prev'[g[j + 1]] = g[j]
    <3>1. g[j + 1] = f[j + 1] /\ j + 1 \in 1 .. n /\ behind = f[j + 1] /\ g[j] = ahead
      BY <2>4, <1>7 DEF behind, ahead
    <3>2. f[j + 1] # f[1] /\ f[j + 1] # m /\ f[j + 1] \in Nodes
      BY <3>1, <1>1 DEF m
    <3> QED  BY <3>1, <3>2, <1>6
  <2>5. ASSUME NEW i \in j + 2 .. n PROVE prev'[g[i]] = g[i - 1]
    <3>1. g[i] = f[i] /\ g[i - 1] = f[i - 1] /\ i \in 1 .. n
      BY <1>7
    <3>2. f[i] # f[1] /\ f[i] # m /\ f[i] \in Nodes
      BY <3>1, <1>1 DEF m
    <3>3. f[i] # behind
      BY <3>1, <1>1 DEF behind
    <3>4. prev[f[i]] = f[i - 1]
      BY <3>1, <1>1
    <3> QED  BY <3>1, <3>2, <3>3, <3>4, <1>6
  <2>6. \A i \in 1 .. n : \/ i = 1 \/ i = 2 \/ i \in 3 .. j
                          \/ (i = j + 1 /\ j < n /\ i - 1 = j) \/ i \in j + 2 .. n
    OBVIOUS
  <2> QED  BY <2>1, <2>2, <2>3, <2>4, <2>5, <2>6
<1>10. \A i \in 1 .. n : next'[g[i]] = IF i = n THEN 0 ELSE g[i + 1]
  <2>1. next'[g[1]] = g[2]
    BY <1>2, <1>5, <1>7
  <2>2. ASSUME NEW i \in 2 .. j - 1 PROVE next'[g[i]] = g[i + 1]
    <3>1. g[i] = f[i - 1] /\ g[i + 1] = f[i] /\ i - 1 \in 1 .. n /\ i - 1 + 1 = i /\ i - 1 # n
      <4>1. i \in 2 .. j /\ i + 1 \in 2 .. j /\ i + 1 - 1 = i /\ i - 1 \in 1 .. n /\ i - 1 # n
        OBVIOUS
      <4> QED  BY <4>1, <1>7
    <3>2. f[i - 1] # ahead /\ f[i - 1] # m /\ f[i - 1] \in Nodes
      BY <3>1, <1>1 DEF m, ahead
    <3>3. next[f[i - 1]] = f[i]
      BY <3>1, <1>1
    <3> QED  BY <3>1, <3>2, <3>3, <1>5
  <2>3. next'[g[j]] = IF j = n THEN 0 ELSE g[j + 1]
    <3>1. g[j] = ahead /\ (j # n => g[j + 1] = f[j + 1])
      BY <1>7 DEF m, ahead
    <3> QED  BY <3>1, <1>2, <1>4, <1>5 DEF behind
  <2>4. ASSUME NEW i \in j + 1 .. n PROVE next'[g[i]] = IF i = n THEN 0 ELSE g[i + 1]
    <3>1. g[i] = f[i] /\ (i # n => g[i + 1] = f[i + 1]) /\ i \in 1 .. n
      BY <1>7
    <3>2. f[i] # ahead /\ f[i] # m /\ f[i] \in Nodes
      BY <3>1, <1>1 DEF m, ahead
    <3>3. next[f[i]] = IF i = n THEN 0 ELSE f[i + 1]
      BY <3>1, <1>1
    <3> QED  BY <3>1, <3>2, <3>3, <1>5
  <2>5. \A i \in 1 .. n : (i = 1 /\ i # n) \/ (i \in 2 .. j - 1 /\ i # n) \/ i = j \/ i \in j + 1 .. n
    OBVIOUS
  <2> QED  BY <2>1, <2>2, <2>3, <2>4, <2>5
<1>11. lruHead' = g[1] /\ lruTail' = g[n] /\ n # 0
  BY <1>3, <1>4, <1>7 DEF m, ahead
<1>12. Elems(n, g) = Elems(n, f)
  <2>1. \A i \in 1 .. n : \E k \in 1 .. n : g[i] = f[k]
    BY <1>7, <1>1 DEF m
  <2>2. \A k \in 1 .. n : \E i \in 1 .. n : g[i] = f[k]
    <3>1. SUFFICES ASSUME NEW k \in 1 .. n PROVE \E i \in 1 .. n : g[i] = f[k]
      OBVIOUS
    <3>2. CASE k = j
      BY <3>2, <1>1, <1>7 DEF m
    <3>3. CASE k < j
      <4>1. k + 1 \in 2 .. j /\ k + 1 \in 1 .. n /\ g[k + 1] = f[k + 1 - 1]
        BY <3>3, <1>7
      <4> QED  BY <4>1
    <3>4. CASE k > j
      BY <3>4, <1>7
    <3> QED  BY <3>2, <3>3, <3>4
  <2> QED  BY <2>1, <2>2 DEF Elems
<1>13. \A x \in Nodes \ Elems(n, f) : prev'[x] = prev[x]
  <2>1. behind = 0 \/ \E i \in 1 .. n : behind = f[i]
    BY <1>1 DEF behind
  <2>2. \A i \in 1 .. n : f[i] \in Elems(n, f)
    BY DEF Elems
  <2> QED  BY <2>1, <2>2, <1>1, <1>6 DEF m
<1> QED  BY <1>7, <1>8, <1>9, <1>10, <1>11, <1>12, <1>13 DEF IsList, g

\* NewHead, of a node that wasn't in the list yet.
LEMMA WithHeadIsList ==
  ASSUME NEW n \in Nat, NEW f, IsList(n, f, next, prev, lruHead, lruTail),
         DOMAIN next = Nodes, DOMAIN prev = Nodes,
         NEW m \in Nodes, m \notin Elems(n, f), prev[m] = 0, NewHead(m)
  PROVE  /\ IsList(n + 1, WithHead(n, f, m), next', prev', lruHead', lruTail')
         /\ Elems(n + 1, WithHead(n, f, m)) = Elems(n, f) \cup {m}
         /\ \A x \in Nodes \ Elems(n, f) : prev'[x] = prev[x]
<1> USE FileCacheAssumption
<1> DEFINE g == WithHead(n, f, m)
<1>1. /\ f \in [1 .. n -> Nodes] /\ \A i, k \in 1 .. n : f[i] = f[k] => i = k
      /\ \A i \in 1 .. n : prev[f[i]] = IF i = 1 THEN 0 ELSE f[i - 1]
      /\ \A i \in 1 .. n : next[f[i]] = IF i = n THEN 0 ELSE f[i + 1]
      /\ lruHead = IF n = 0 THEN 0 ELSE f[1]
      /\ lruTail = IF n = 0 THEN 0 ELSE f[n]
      /\ 0 \notin Nodes /\ m # 0 /\ \A i \in 1 .. n : f[i] # m
  BY DEF IsList, Nodes, Elems
<1>2. /\ next' = Assign(next, Field(m, lruHead)) /\ prev' = Assign(prev, Field(lruHead, m))
      /\ lruHead' = m /\ lruTail' = IF lruTail = 0 THEN m ELSE lruTail
  BY DEF NewHead
<1>3. \A x \in Nodes : next'[x] = IF x = m THEN lruHead ELSE next[x]
  <2>1. \A x \in Nodes : next'[x] = IF x = m /\ m # 0 THEN lruHead ELSE next[x]
    BY <1>2, AssignedIs
  <2> QED  BY <2>1, <1>1
<1>4. \A x \in Nodes : prev'[x] = IF x = lruHead THEN m ELSE prev[x]
  <2> SUFFICES ASSUME NEW x \in Nodes
               PROVE  prev'[x] = IF x = lruHead THEN m ELSE prev[x]
    OBVIOUS
  <2>1. x # 0
    BY <1>1
  <2>2. prev'[x] = IF x = lruHead /\ lruHead # 0 THEN m ELSE prev[x]
    BY <1>2, AssignedIs
  <2>3. CASE x = lruHead
    BY <2>1, <2>2, <2>3
  <2>4. CASE x # lruHead
    BY <2>2, <2>4
  <2> QED  BY <2>3, <2>4
<1>5. g \in [1 .. n + 1 -> Nodes] /\ g[1] = m /\ \A i \in 2 .. n + 1 : g[i] = f[i - 1]
  BY <1>1 DEF WithHead
<1> HIDE DEF g
<1>6. \A i, k \in 1 .. n + 1 : g[i] = g[k] => i = k
  <2>1. \A i \in 2 .. n + 1 : i - 1 \in 1 .. n /\ g[i] = f[i - 1] /\ g[i] # m
    <3>1. \A i \in 2 .. n + 1 : i - 1 \in 1 .. n
      OBVIOUS
    <3> QED  BY <3>1, <1>1, <1>5
  <2>2. \A i \in 1 .. n + 1 : i = 1 \/ i \in 2 .. n + 1
    OBVIOUS
  <2>3. ASSUME NEW i \in 2 .. n + 1, NEW k \in 2 .. n + 1, g[i] = g[k] PROVE i = k
    <3>1. i - 1 = k - 1
      BY <2>1, <2>3, <1>1
    <3> QED  BY <3>1
  <2> QED  BY <2>1, <2>2, <2>3, <1>5
<1>7. \A i \in 1 .. n + 1 : prev'[g[i]] = IF i = 1 THEN 0 ELSE g[i - 1]
  <2>1. prev'[g[1]] = 0
    BY <1>1, <1>4, <1>5
  <2>2. ASSUME n # 0 PROVE prev'[g[2]] = m
    BY <2>2, <1>1, <1>4, <1>5
  <2>3. ASSUME NEW i \in 3 .. n + 1 PROVE prev'[g[i]] = g[i - 1]
    <3>1. g[i] = f[i - 1] /\ g[i - 1] = f[i - 2] /\ i - 1 \in 1 .. n /\ i - 1 - 1 = i - 2
          /\ i - 1 # 1
      <4>1. /\ i \in 2 .. n + 1 /\ i - 1 \in 2 .. n + 1 /\ i - 1 - 1 = i - 2
            /\ i - 1 \in 1 .. n /\ i - 1 # 1
        OBVIOUS
      <4> QED  BY <4>1, <1>5
    <3>2. f[i - 1] # f[1] /\ f[i - 1] \in Nodes /\ prev[f[i - 1]] = f[i - 2]
      BY <3>1, <1>1
    <3> QED  BY <3>1, <3>2, <1>1, <1>4
  <2>4. \A i \in 1 .. n + 1 : i = 1 \/ (i = 2 /\ n # 0) \/ i \in 3 .. n + 1
    OBVIOUS
  <2> QED  BY <2>1, <2>2, <2>3, <2>4, <1>5
<1>8. \A i \in 1 .. n + 1 : next'[g[i]] = IF i = n + 1 THEN 0 ELSE g[i + 1]
  <2>1. next'[g[1]] = IF 1 = n + 1 THEN 0 ELSE g[2]
    BY <1>1, <1>3, <1>5
  <2>2. ASSUME NEW i \in 2 .. n + 1 PROVE next'[g[i]] = IF i = n + 1 THEN 0 ELSE g[i + 1]
    <3>1. g[i] = f[i - 1] /\ i - 1 \in 1 .. n /\ i - 1 + 1 = i /\ (i # n + 1 => g[i + 1] = f[i])
      BY <1>5
    <3>2. f[i - 1] \in Nodes /\ f[i - 1] # m /\ next[f[i - 1]] = IF i - 1 = n THEN 0 ELSE f[i]
      BY <3>1, <1>1
    <3> QED  BY <3>1, <3>2, <1>3
  <2>3. \A i \in 1 .. n + 1 : i = 1 \/ i \in 2 .. n + 1
    OBVIOUS
  <2> QED  BY <2>1, <2>2, <2>3
<1>9. lruHead' = g[1] /\ lruTail' = g[n + 1] /\ n + 1 # 0
  BY <1>1, <1>2, <1>5
<1>10. Elems(n + 1, g) = Elems(n, f) \cup {m}
  <2>1. \A i \in 1 .. n + 1 : g[i] = m \/ \E k \in 1 .. n : g[i] = f[k]
    BY <1>5
  <2>2. \A k \in 1 .. n : k + 1 \in 1 .. n + 1 /\ g[k + 1] = f[k]
    BY <1>5
  <2>3. 1 \in 1 .. n + 1 /\ g[1] = m
    BY <1>5
  <2> QED  BY <2>1, <2>2, <2>3 DEF Elems
<1>11. \A x \in Nodes \ Elems(n, f) : prev'[x] = prev[x]
  <2>1. lruHead = 0 \/ lruHead \in Elems(n, f)
    BY <1>1 DEF Elems
  <2> QED  BY <2>1, <1>1, <1>4
<1> QED  BY <1>5, <1>6, <1>7, <1>8, <1>9, <1>10, <1>11 DEF IsList, g

\* The last node leaves a list of more than one.
LEMMA WithoutTailIsList ==
  ASSUME NEW n \in Nat, n > 1, NEW f, IsList(n, f, next, prev, lruHead, lruTail),
         DOMAIN next = Nodes, lruHead' = lruHead, prev' = prev,
         lruTail' = prev[lruTail], next' = Assign(next, Field(prev[lruTail], 0))
  PROVE  /\ IsList(n - 1, WithoutTail(n, f), next', prev', lruHead', lruTail')
         /\ Elems(n - 1, WithoutTail(n, f)) = Elems(n, f) \ {f[n]}
<1> USE FileCacheAssumption
<1> DEFINE g == WithoutTail(n, f)
<1>1. /\ f \in [1 .. n -> Nodes] /\ \A i, k \in 1 .. n : f[i] = f[k] => i = k
      /\ \A i \in 1 .. n : prev[f[i]] = IF i = 1 THEN 0 ELSE f[i - 1]
      /\ \A i \in 1 .. n : next[f[i]] = IF i = n THEN 0 ELSE f[i + 1]
      /\ lruHead = f[1] /\ lruTail = f[n] /\ 0 \notin Nodes
      /\ n \in 1 .. n /\ n - 1 \in 1 .. n
  BY DEF IsList, Nodes
<1>2. prev[lruTail] = f[n - 1] /\ f[n - 1] \in Nodes /\ f[n - 1] # 0
  BY <1>1
<1>3. \A x \in Nodes : next'[x] = IF x = f[n - 1] THEN 0 ELSE next[x]
  BY <1>2, AssignedIs
<1>4. g \in [1 .. n - 1 -> Nodes] /\ \A i \in 1 .. n - 1 : g[i] = f[i] /\ i \in 1 .. n
  BY <1>1 DEF WithoutTail
<1> HIDE DEF g
<1>5. \A i, k \in 1 .. n - 1 : g[i] = g[k] => i = k
  BY <1>1, <1>4
<1>6. \A i \in 1 .. n - 1 : prev'[g[i]] = IF i = 1 THEN 0 ELSE g[i - 1]
  <2>1. \A i \in 1 .. n - 1 : i # 1 => i - 1 \in 1 .. n - 1
    OBVIOUS
  <2> QED  BY <2>1, <1>1, <1>4
<1>7. \A i \in 1 .. n - 1 : next'[g[i]] = IF i = n - 1 THEN 0 ELSE g[i + 1]
  <2>1. \A i \in 1 .. n - 1 : i # n - 1 => i + 1 \in 1 .. n - 1
    OBVIOUS
  <2> QED  BY <2>1, <1>1, <1>3, <1>4
<1>8. lruHead' = g[1] /\ lruTail' = g[n - 1] /\ n - 1 # 0
  BY <1>1, <1>2, <1>4
<1>9. Elems(n - 1, g) = Elems(n, f) \ {f[n]}
  <2>1. \A i \in 1 .. n : i # n => i \in 1 .. n - 1
    OBVIOUS
  <2>2. \A i \in 1 .. n - 1 : i # n
    OBVIOUS
  <2> QED  BY <2>1, <2>2, <1>1, <1>4 DEF Elems
<1> QED  BY <1>4, <1>5, <1>6, <1>7, <1>8, <1>9 DEF IsList, g

\* A node that has not been in the list yet points to no other.
NotYet(m) ==
  \/ m > lastIndex
  \/ \E p \in Procs : pc[p] \in {"link", "insert"} /\ node[p] = m

Fresh == drops = 0 => \A m \in Nodes : NotYet(m) => prev[m] = 0

LInv == Inv /\ ListKnown /\ Fresh

\* Nodes of the list are entries: made, and in nobody's hands.
LEMMA ListNodes ==
  ASSUME Inv, NEW n \in Nat, NEW f, ListOf(n, f)
  PROVE  /\ \A i \in 1 .. n : /\ f[i] \in Nodes /\ f[i] <= lastIndex
                              /\ f[i] \in Entries
                              /\ nodeKey[f[i]] \in Keys /\ table[nodeKey[f[i]]] = f[i]
                              /\ \A p \in Procs : node[p] # f[i]
         /\ \A k \in Keys : table[k] # 0 => \E i \in 1 .. n : f[i] = table[k]
<1>1. ASSUME NEW i \in 1 .. n
      PROVE  /\ f[i] \in Nodes /\ f[i] <= lastIndex
             /\ f[i] \in Entries
             /\ nodeKey[f[i]] \in Keys /\ table[nodeKey[f[i]]] = f[i]
             /\ \A p \in Procs : node[p] # f[i]
  <2>1. f[i] \in Nodes
    BY DEF ListOf, IsList
  <2>2. PICK k \in Keys : f[i] = table[k] /\ f[i] # 0
    <3>1. f[i] \in Entries
      BY DEF ListOf, Elems
    <3> QED  BY <3>1 DEF Entries
  <2> QED  BY <2>1, <2>2 DEF Inv, Allocated, Owned, Entries
<1>2. ASSUME NEW k \in Keys, table[k] # 0 PROVE \E i \in 1 .. n : f[i] = table[k]
  <2>1. table[k] \in Entries
    BY <1>2 DEF Entries
  <2> QED  BY <2>1 DEF ListOf, Elems
<1> QED  BY <1>1, <1>2

\* What a lookup makes of the list.
LEMMA LookupLists ==
  ASSUME Inv, NEW n \in Nat, NEW f, ListOf(n, f), NEW k \in Keys, LookupHit(k)
  PROVE  \E j \in 1 .. n :
           /\ f[j] = table[k] /\ ListOf(n, ToFront(n, f, j))'
           /\ \A x \in Nodes \ Entries : prev'[x] = prev[x]
<1>1. PICK j \in 1 .. n : f[j] = table[k]
  BY ListNodes DEF LookupHit
<1>2. Entries' = Entries
  BY DEF LookupHit, Entries
<1>3. IsList(n, f, next, prev, lruHead, lruTail) /\ Elems(n, f) = Entries
  BY DEF ListOf
<1>5. CASE j = 1
  <2>1. f[1] = table[k] /\ lruHead = f[1]
    BY <1>1, <1>3, <1>5 DEF IsList
  <2>2. UNCHANGED <<next, prev, lruHead, lruTail>>
    BY <2>1 DEF LookupHit
  <2>3. ToFront(n, f, 1) = f
    <3>1. f = [i \in 1 .. n |-> f[i]]
      BY <1>3 DEF IsList
    <3>2. \A i \in 1 .. n : i = 1 \/ ~ (i <= 1)
      OBVIOUS
    <3> QED  BY <3>1, <3>2 DEF ToFront
  <2>4. ListOf(n, f)'
    BY <1>2, <1>3, <2>2 DEF ListOf
  <2> QED  BY <1>1, <1>5, <2>2, <2>3, <2>4
<1>6. CASE j # 1
  <2>1. j \in 2 .. n
    BY <1>6
  <2>2. f[j] # lruHead
    BY <1>3, <1>6 DEF IsList
  <2>3. MoveToFront(f[j])
    BY <1>1, <2>2 DEF LookupHit
  <2>4. DOMAIN next = Nodes /\ DOMAIN prev = Nodes
    BY DEF Inv, TypeOK
  <2>5. /\ IsList(n, ToFront(n, f, j), next', prev', lruHead', lruTail')
        /\ Elems(n, ToFront(n, f, j)) = Elems(n, f)
        /\ \A x \in Nodes \ Elems(n, f) : prev'[x] = prev[x]
    BY <1>3, <2>1, <2>3, <2>4, ToFrontIsList
  <2>6. ListOf(n, ToFront(n, f, j))'
    BY <1>2, <1>3, <2>5 DEF ListOf
  <2> QED  BY <1>1, <1>3, <2>5, <2>6
<1> QED  BY <1>5, <1>6

\* What an insertion makes of it.
LEMMA InsertLists ==
  ASSUME Inv, Fresh, drops = 0, NEW n \in Nat, NEW f, ListOf(n, f),
         NEW p \in Workers, InsertEntry(p), NEW m, m = node[p]
  PROVE  /\ ListOf(n + 1, WithHead(n, f, m))'
         /\ \A x \in Nodes \ Entries : prev'[x] = prev[x]
         /\ m \in Nodes /\ nodeKey[m] \in Keys
<1>0. p \in Procs
  BY DEF Procs
<1>1. m \in Nodes /\ nodeKey[m] \in Keys
  <2>1. m \in Nodes
    BY <1>0 DEF InsertEntry, Inv, TypeOK, Ref
  <2>2. m <= lastIndex /\ lastIndex \in Nat /\ m \in Nat
    BY <1>0, Typed DEF Inv, Allocated
  <2>3. m \in 1 .. lastIndex
    BY <2>1, <2>2 DEF Nodes
  <2> QED  BY <2>1, <2>3 DEF Inv, Allocated
<1>2. prev[m] = 0
  BY <1>0, <1>1 DEF Fresh, NotYet, InsertEntry
<1>3. m \notin Elems(n, f)
  BY <1>0, ListNodes DEF Elems
<1>4. IsList(n, f, next, prev, lruHead, lruTail) /\ Elems(n, f) = Entries
  BY DEF ListOf
<1>5. DOMAIN next = Nodes /\ DOMAIN prev = Nodes /\ NewHead(m)
  BY DEF Inv, TypeOK, InsertEntry
<1>6. /\ IsList(n + 1, WithHead(n, f, m), next', prev', lruHead', lruTail')
      /\ Elems(n + 1, WithHead(n, f, m)) = Elems(n, f) \cup {m}
      /\ \A x \in Nodes \ Elems(n, f) : prev'[x] = prev[x]
  BY <1>1, <1>2, <1>3, <1>4, <1>5, WithHeadIsList
<1>7. Entries' = Entries \cup {m}
  <2>1. /\ table' = [table EXCEPT ![nodeKey[m]] = m] /\ table[nodeKey[m]] = 0
        /\ table \in [Keys -> Ref] /\ m # 0
    BY <1>1 DEF InsertEntry, Inv, TypeOK, Nodes
  <2>2. \A x \in Entries' : x \in Entries \cup {m}
    BY <1>1, <2>1 DEF Entries
  <2>3. \A x \in Entries : x \in Entries'
    BY <1>1, <2>1 DEF Entries
  <2>4. m \in Entries'
    BY <1>1, <2>1 DEF Entries
  <2> QED  BY <2>2, <2>3, <2>4
<1>8. ListOf(n + 1, WithHead(n, f, m))'
  BY <1>4, <1>6, <1>7 DEF ListOf
<1> QED  BY <1>1, <1>4, <1>6, <1>8

\* What an eviction makes of it.
LEMMA EvictLists ==
  ASSUME Inv, NEW n \in Nat, NEW f, ListOf(n, f), NEW p \in Procs, EvictTail(p)
  PROVE  /\ n > 1 /\ n - 1 \in Nat
         /\ ListOf(n - 1, WithoutTail(n, f))'
<1>1. IsList(n, f, next, prev, lruHead, lruTail) /\ Elems(n, f) = Entries
  BY DEF ListOf
<1>2. n > 1 /\ n - 1 \in Nat
  <2>1. n # 0
    BY <1>1 DEF IsList, EvictTail
  <2>2. n # 1
    BY <1>1 DEF IsList, EvictTail
  <2> QED  BY <2>1, <2>2
<1>3. lruTail = f[n] /\ n \in 1 .. n
  BY <1>1, <1>2 DEF IsList
<1>4. f[n] \in Nodes /\ f[n] # 0 /\ nodeKey[f[n]] \in Keys /\ table[nodeKey[f[n]]] = f[n]
  BY <1>3, ListNodes DEF Nodes
<1>5. /\ lruHead' = lruHead /\ prev' = prev /\ lruTail' = prev[lruTail]
      /\ next' = Assign(next, Field(prev[lruTail], 0)) /\ DOMAIN next = Nodes
      /\ table' = [table EXCEPT ![nodeKey[f[n]]] = 0] /\ table \in [Keys -> Ref]
      /\ nodeKey' = nodeKey
  BY <1>3 DEF EvictTail, Inv, TypeOK
<1>6. /\ IsList(n - 1, WithoutTail(n, f), next', prev', lruHead', lruTail')
      /\ Elems(n - 1, WithoutTail(n, f)) = Elems(n, f) \ {f[n]}
  BY <1>1, <1>2, <1>5, WithoutTailIsList
<1>7. Entries' = Entries \ {f[n]}
  <2>1. \A j \in Keys : table[j] = f[n] => j = nodeKey[f[n]]
    BY <1>4 DEF Inv, Owned
  <2>2. \A x \in Entries' : x \in Entries \ {f[n]}
    BY <1>4, <1>5, <2>1 DEF Entries
  <2>3. \A x \in Entries \ {f[n]} : x \in Entries'
    BY <1>4, <1>5 DEF Entries
  <2> QED  BY <2>2, <2>3
<1>8. ListOf(n - 1, WithoutTail(n, f))'
  BY <1>1, <1>6, <1>7 DEF ListOf
<1> QED  BY <1>2, <1>8

LEMMA FreshKept ==
  ASSUME Inv, Fresh, drops' = drops,
         \A x \in Nodes \ Entries : prev'[x] = prev[x],
         \A x \in Nodes : NotYet(x)' => NotYet(x)
  PROVE  Fresh'
<1>1. ASSUME NEW x \in Nodes, NotYet(x) PROVE x \notin Entries
  <2>1. ASSUME NEW k \in Keys, table[k] = x PROVE FALSE
    <3>1. x # 0 /\ x <= lastIndex /\ lastIndex \in Nat /\ x \in Nat
      BY <2>1, FileCacheAssumption, Typed DEF Inv, Allocated, Nodes
    <3>2. PICK p \in Procs : node[p] = x
      BY <1>1, <3>1 DEF NotYet
    <3> QED  BY <2>1, <3>1, <3>2 DEF Inv, Owned
  <2> QED  BY <2>1 DEF Entries
<1> QED  BY <1>1 DEF Fresh

LEMMA ListKept ==
  ASSUME ListKnown, drops' = drops,
         UNCHANGED <<table, next, prev, lruHead, lruTail>>
  PROVE  ListKnown'
<1>1. ASSUME NEW n, NEW f, ListOf(n, f) PROVE ListOf(n, f)'
  BY <1>1 DEF ListOf, IsList, Entries
<1> QED  BY <1>1 DEF ListKnown

LEMMA InitLInv == Init => LInv
<1> SUFFICES ASSUME Init PROVE LInv
  OBVIOUS
<1>1. ListOf(0, [i \in 1 .. 0 |-> 0])
  BY DEF Init, ListOf, IsList, Elems, Entries
<1>2. Fresh
  BY DEF Init, Fresh
<1> QED  BY <1>1, <1>2, InitInv DEF LInv, ListKnown

LEMMA NextLInv == LInv /\ [Next]_vars => LInv'
<1> SUFFICES ASSUME LInv, [Next]_vars PROVE LInv'
  OBVIOUS
<1>1. Inv /\ Inv' /\ ListKnown /\ Fresh
  BY NextInv DEF LInv
<1>2. SUFFICES ListKnown' /\ Fresh'
  BY <1>1 DEF LInv
<1> USE DEF listVars, diskVars, procVars, Goto
<1>3. ASSUME drops' = drops, UNCHANGED <<table, next, prev, lruHead, lruTail>>,
             \A x \in Nodes : NotYet(x)' => NotYet(x)
      PROVE  ListKnown' /\ Fresh'
  <2>1. \A x \in Nodes \ Entries : prev'[x] = prev[x]
    BY <1>3
  <2> QED  BY <1>1, <1>3, <2>1, FreshKept, ListKept
<1>4. CASE drops' # 0
  BY <1>4 DEF ListKnown, Fresh
<1>5. ASSUME drops = 0, drops' = drops PROVE ListKnown' /\ Fresh'
  <2>0. PICK n \in Nat : \E f : ListOf(n, f)
    BY <1>1, <1>5 DEF ListKnown
  <2>1. PICK f : ListOf(n, f)
    BY <2>0
  <2>2. ASSUME NEW k \in Keys, LookupHit(k) PROVE ListKnown' /\ Fresh'
    <3>1. PICK j \in 1 .. n :
            /\ f[j] = table[k] /\ ListOf(n, ToFront(n, f, j))'
            /\ \A x \in Nodes \ Entries : prev'[x] = prev[x]
      BY <1>1, <2>1, <2>2, LookupLists
    <3>2. \A x \in Nodes : NotYet(x)' => NotYet(x)
      BY <2>2 DEF LookupHit, NotYet
    <3>3. Fresh'
      BY <1>1, <1>5, <3>1, <3>2, FreshKept
    <3>4. ListKnown'
      BY <3>1 DEF ListKnown
    <3> QED  BY <3>3, <3>4
  <2>3. ASSUME NEW p \in Workers, NEW k \in Keys, TakeIndex(p, k)
        PROVE  ListKnown' /\ Fresh'
    <3>1. ListKnown'
      BY <1>1, <1>5, <2>3, ListKept DEF TakeIndex
    <3>2. ASSUME NEW x \in Nodes, NotYet(x)' PROVE NotYet(x)
      <4>1. /\ lastIndex' = lastIndex + 1 /\ lastIndex \in Nat /\ x \in Nat
            /\ node' = [node EXCEPT ![p] = lastIndex'] /\ pc' = [pc EXCEPT ![p] = "link"]
            /\ p \in Procs /\ node \in [Procs -> Ref] /\ pc \in [Procs -> Stages]
        BY <1>1, <2>3, Typed DEF TakeIndex, Procs, Inv, TypeOK
      <4>2. CASE x > lastIndex'
        BY <4>1, <4>2 DEF NotYet
      <4>3. ASSUME NEW q \in Procs, pc'[q] \in {"link", "insert"}, node'[q] = x
            PROVE  NotYet(x)
        <5>1. CASE q = p
          <6>1. x = lastIndex + 1
            BY <4>1, <4>3, <5>1
          <6> QED  BY <4>1, <6>1 DEF NotYet
        <5>2. CASE q # p
          BY <4>1, <4>3, <5>2 DEF NotYet
        <5> QED  BY <5>1, <5>2
      <4> QED  BY <3>2, <4>2, <4>3 DEF NotYet
    <3>3. \A x \in Nodes \ Entries : prev'[x] = prev[x]
      BY <2>3 DEF TakeIndex
    <3> QED  BY <1>1, <1>5, <3>1, <3>2, <3>3, FreshKept
  <2>4. ASSUME NEW p \in Workers, LinkToCache(p) PROVE ListKnown' /\ Fresh'
    <3>1. \A x \in Nodes : NotYet(x)' => NotYet(x)
      BY <1>1, <2>4 DEF LinkToCache, NotYet, Inv, TypeOK, Procs, Nodes
    <3> QED  BY <1>3, <1>5, <2>4, <3>1 DEF LinkToCache
  <2>5. ASSUME NEW p \in Workers, InsertEntry(p) PROVE ListKnown' /\ Fresh'
    <3>1. \E y : /\ ListOf(n + 1, WithHead(n, f, y))'
                 /\ \A x \in Nodes \ Entries : prev'[x] = prev[x]
      <4>1. \E y : y = node[p]
        OBVIOUS
      <4>2. PICK y : y = node[p]
        BY <4>1
      <4> QED  BY <1>1, <1>5, <2>1, <2>5, <4>2, InsertLists
    <3>2. PICK y : /\ ListOf(n + 1, WithHead(n, f, y))'
                   /\ \A x \in Nodes \ Entries : prev'[x] = prev[x]
      BY <3>1
    <3>3. \A x \in Nodes : NotYet(x)' => NotYet(x)
      BY <1>1, <2>5 DEF InsertEntry, NotYet, Inv, TypeOK, Procs, Nodes
    <3>4. Fresh'
      BY <1>1, <1>5, <3>2, <3>3, FreshKept
    <3>5. n + 1 \in Nat
      OBVIOUS
    <3>6. ListKnown'
      BY <3>2, <3>5 DEF ListKnown
    <3> QED  BY <3>4, <3>6
  <2>6. ASSUME NEW p \in Workers, FindEntry(p) \/ RemoveDuplicate(p)
        PROVE  ListKnown' /\ Fresh'
    <3>1. \A x \in Nodes : NotYet(x)' => NotYet(x)
      BY <1>1, <2>6 DEF FindEntry, RemoveDuplicate, NotYet, Inv, TypeOK, Procs, Nodes
    <3> QED  BY <1>3, <1>5, <2>6, <3>1 DEF FindEntry, RemoveDuplicate
  <2>7. CASE StartPurge
    <3>1. \A x \in Nodes : NotYet(x)' => NotYet(x)
      BY <1>1, <2>7 DEF StartPurge, NotYet, Inv, TypeOK, Procs, Nodes
    <3> QED  BY <1>3, <1>5, <2>7, <3>1 DEF StartPurge
  <2>8. ASSUME NEW p \in Procs, CheckLimit(p) \/ NothingToEvict(p) \/ RemoveEvicted(p)
        PROVE  ListKnown' /\ Fresh'
    <3>1. \A x \in Nodes : NotYet(x)' => NotYet(x)
      BY <1>1, <2>8 DEF CheckLimit, NothingToEvict, RemoveEvicted, NotYet, Inv, TypeOK, Nodes
    <3> QED  BY <1>3, <1>5, <2>8, <3>1 DEF CheckLimit, NothingToEvict, RemoveEvicted
  <2>9. ASSUME NEW p \in Procs, EvictTail(p) PROVE ListKnown' /\ Fresh'
    <3>1. n - 1 \in Nat /\ ListOf(n - 1, WithoutTail(n, f))'
      BY <1>1, <2>1, <2>9, EvictLists
    <3>2. ListKnown'
      BY <3>1 DEF ListKnown
    <3>3. \A x \in Nodes : NotYet(x)' => NotYet(x)
      BY <1>1, <2>9 DEF EvictTail, NotYet, Inv, TypeOK, Nodes
    <3>4. \A x \in Nodes \ Entries : prev'[x] = prev[x]
      BY <2>9 DEF EvictTail
    <3> QED  BY <1>1, <1>5, <3>2, <3>3, <3>4, FreshKept
  <2>10. CASE DropAll
    <3>1. drops' # drops
      BY <1>5, <2>10 DEF DropAll
    <3> QED  BY <1>5, <3>1
  <2>11. CASE UNCHANGED vars
    <3>1. \A x \in Nodes : NotYet(x)' => NotYet(x)
      BY <2>11 DEF vars, NotYet
    <3> QED  BY <1>3, <2>11, <3>1 DEF vars
  <2> QED  BY <2>2, <2>3, <2>4, <2>5, <2>6, <2>7, <2>8, <2>9, <2>10, <2>11
           DEF Next, SaveStep, PurgeStep
<1>6. drops' = drops \/ drops' # 0
  BY <1>1 DEF Next, LookupHit, TakeIndex, SaveStep, LinkToCache, InsertEntry, FindEntry,
       RemoveDuplicate, StartPurge, PurgeStep, CheckLimit, EvictTail, NothingToEvict,
       RemoveEvicted, DropAll, vars, Inv, TypeOK
<1> QED  BY <1>4, <1>5, <1>6

LEMMA CountOf ==
  ASSUME Inv, NEW n \in Nat, NEW f, ListOf(n, f)
  PROVE  Cardinality(Entries) = n /\ n \in 0 .. MaxSaves
<1>1. f \in [1 .. n -> Nodes] /\ \A i, j \in 1 .. n : f[i] = f[j] => i = j
  BY DEF ListOf, IsList
<1>2. Elems(n, f) = Entries
  BY DEF ListOf
<1>3. f \in Bijection(1 .. n, Entries)
  BY <1>1, <1>2 DEF Elems, Bijection, Injection, Surjection, IsInjective
<1>4. IsFiniteSet(1 .. n) /\ Cardinality(1 .. n) = n
  BY FS_Interval
<1>5. Cardinality(Entries) = n
  BY <1>3, <1>4, FS_Bijection DEF ExistsBijection
<1>6. Entries \in SUBSET Nodes
  BY <1>1, <1>2 DEF Elems
<1>7. IsFiniteSet(Nodes) /\ Cardinality(Nodes) = MaxSaves
  BY FileCacheAssumption, FS_Interval DEF Nodes
<1>8. n <= MaxSaves
  BY <1>5, <1>6, <1>7, FS_Subset
<1> QED  BY <1>5, <1>8, FileCacheAssumption

\* The order in which the keys would be evicted, read from the list.
LEMMA KeyOrderIs ==
  ASSUME Inv, NEW n \in Nat, NEW f, ListOf(n, f)
  PROVE  KeyOrder = [i \in 1 .. n |-> nodeKey[f[i]]]
<1>1. Cardinality(Entries) = n /\ n \in 0 .. MaxSaves
  BY CountOf
<1>2. \A i \in 1 .. n : i \in Nodes
  BY <1>1, FileCacheAssumption DEF Nodes
<1>3. \A i \in Nodes : NodeAt[i] = IF i <= n THEN f[i] ELSE 0
  BY <1>1, NodeAtIs DEF ListOf
<1>4. \A i \in 1 .. n : NodeAt[i] = f[i] /\ f[i] # 0
  BY <1>2, <1>3, ListNodes DEF Nodes
<1> QED  BY <1>1, <1>4 DEF KeyOrder

(* Until a DropAll the list, walked from lruHead on, holds the entries of  *)
(* the table and nothing else, linked both ways and ending in lruTail,     *)
(* whatever lookups, insertions and evictions came before, in whatever     *)
(* order the goroutines took the mutex.                                    *)
THEOREM ListIsTheTable == Spec => []ListIsTable
<1>1. Spec => []LInv
  BY InitLInv, NextLInv, PTL DEF Spec
<1>2. LInv => ListIsTable
  <2>1. SUFFICES ASSUME LInv, drops = 0 PROVE ListIsTable
    BY DEF ListIsTable
  <2>2. PICK n \in Nat : \E f : ListOf(n, f)
    BY <2>1 DEF LInv, ListKnown
  <2>3. PICK f : ListOf(n, f)
    BY <2>2
  <2>4. Cardinality(Entries) = n /\ n \in 0 .. MaxSaves
    BY <2>1, <2>3, CountOf DEF LInv
  <2>5. \A i \in 1 .. n : i \in Nodes
    BY <2>4, FileCacheAssumption DEF Nodes
  <2>6. \A i \in Nodes : NodeAt[i] = IF i <= n THEN f[i] ELSE 0
    BY <2>3, <2>4, NodeAtIs DEF ListOf
  <2>7. \A i \in 1 .. n : NodeAt[i] = f[i]
    BY <2>5, <2>6
  <2>8. \A k \in Keys : table[k] # 0 => nodeKey[table[k]] = k
    BY <2>1 DEF LInv, Inv, Owned
  <2>9. {NodeAt[i] : i \in 1 .. n} = Entries
    BY <2>3, <2>7 DEF ListOf, Elems
  <2>10. \A i \in 1 .. n :
           /\ prev[NodeAt[i]] = IF i = 1 THEN 0 ELSE NodeAt[i - 1]
           /\ next[NodeAt[i]] = IF i = n THEN 0 ELSE NodeAt[i + 1]
    <3>1. \A i \in 1 .. n : /\ (i # 1 => i - 1 \in 1 .. n)
                            /\ (i # n => i + 1 \in 1 .. n)
      OBVIOUS
    <3> QED  BY <2>3, <2>7, <3>1 DEF ListOf, IsList
  <2>11. lruTail = IF n = 0 THEN 0 ELSE NodeAt[n]
    BY <2>3, <2>7 DEF ListOf, IsList
  <2> QED  BY <2>4, <2>8, <2>9, <2>10, <2>11 DEF ListIsTable
<1> QED  BY <1>1, <1>2, PTL

-----------------------------------------------------------------------------
(* The list as a sequence of keys, and LruCache                            *)

LEMMA MovedToFront ==
  ASSUME NEW S, NEW n \in Nat, NEW h \in [1 .. n -> S], NEW j \in 1 .. n
  PROVE  <<h[j]>> \o (SubSeq(h, 1, j - 1) \o SubSeq(h, j + 1, Len(h)))
           = ToFront(n, h, j)
<1> DEFINE ahead == SubSeq(h, 1, j - 1)
           behind == SubSeq(h, j + 1, n)
           g == [i \in 1 .. n |-> IF i = 1 THEN h[j] ELSE IF i <= j THEN h[i - 1] ELSE h[i]]
<1>1. Len(h) = n /\ h[j] \in S /\ <<h[j]>> \in Seq(S) /\ Len(<<h[j]>>) = 1
  OBVIOUS
<1>2. /\ ahead \in Seq(S) /\ Len(ahead) = j - 1
      /\ \A i \in 1 .. j - 1 : ahead[i] = h[i]
  <2>1. \A i \in 1 .. j - 1 : h[i] \in S
    OBVIOUS
  <2>2. /\ ahead \in Seq(S) /\ Len(ahead) = IF 1 <= j - 1 THEN j - 1 - 1 + 1 ELSE 0
        /\ \A i \in 1 .. j - 1 - 1 + 1 : ahead[i] = h[1 + i - 1]
    BY <2>1, SubSeqProperties
  <2> QED  BY <2>2
<1>3. /\ behind \in Seq(S) /\ Len(behind) = n - j
      /\ \A i \in 1 .. n - j : behind[i] = h[j + i]
  <2>1. \A i \in j + 1 .. n : h[i] \in S
    OBVIOUS
  <2>2. /\ behind \in Seq(S) /\ Len(behind) = IF j + 1 <= n THEN n - (j + 1) + 1 ELSE 0
        /\ \A i \in 1 .. n - (j + 1) + 1 : behind[i] = h[j + 1 + i - 1]
    BY <2>1, SubSeqProperties
  <2> QED  BY <2>2
<1> HIDE DEF ahead, behind
<1>4. /\ ahead \o behind \in Seq(S) /\ Len(ahead \o behind) = n - 1
      /\ \A i \in 1 .. n - 1 : (ahead \o behind)[i] = IF i <= j - 1 THEN h[i] ELSE h[i + 1]
  <2>1. /\ ahead \in Seq(S) /\ behind \in Seq(S)
        /\ Len(ahead) = j - 1 /\ Len(behind) = n - j
    BY <1>2, <1>3
  <2>2. /\ ahead \o behind \in Seq(S) /\ Len(ahead \o behind) = Len(ahead) + Len(behind)
        /\ \A i \in 1 .. Len(ahead) + Len(behind) :
             (ahead \o behind)[i] = IF i <= Len(ahead) THEN ahead[i]
                                    ELSE behind[i - Len(ahead)]
    BY <2>1, ConcatProperties
  <2>3. Len(ahead) + Len(behind) = n - 1
    BY <2>1
  <2>4. ASSUME NEW i \in 1 .. n - 1
        PROVE  (ahead \o behind)[i] = IF i <= j - 1 THEN h[i] ELSE h[i + 1]
    <3>1. (ahead \o behind)[i] = IF i <= j - 1 THEN ahead[i] ELSE behind[i - (j - 1)]
      BY <2>1, <2>2, <2>3
    <3>2. CASE i <= j - 1
      <4>1. i \in 1 .. j - 1
        BY <3>2
      <4> QED  BY <1>2, <3>1, <3>2, <4>1
    <3>3. CASE ~ (i <= j - 1)
      <4>1. i - (j - 1) \in 1 .. n - j /\ j + (i - (j - 1)) = i + 1
        BY <3>3
      <4> QED  BY <1>3, <3>1, <3>3, <4>1
    <3> QED  BY <3>2, <3>3
  <2> QED  BY <2>2, <2>3, <2>4
<1> DEFINE rest == ahead \o behind
<1> HIDE DEF rest
<1>5. /\ <<h[j]>> \o rest \in Seq(S) /\ Len(<<h[j]>> \o rest) = n
      /\ \A i \in 1 .. n : (<<h[j]>> \o rest)[i] = g[i]
  <2>1. rest \in Seq(S) /\ Len(rest) = n - 1
        /\ \A i \in 1 .. n - 1 : rest[i] = IF i <= j - 1 THEN h[i] ELSE h[i + 1]
    BY <1>4 DEF rest
  <2>2. /\ <<h[j]>> \o rest \in Seq(S) /\ Len(<<h[j]>> \o rest) = 1 + (n - 1)
        /\ \A i \in 1 .. 1 + (n - 1) :
             (<<h[j]>> \o rest)[i] = IF i <= 1 THEN <<h[j]>>[i] ELSE rest[i - 1]
    BY <1>1, <2>1, ConcatProperties
  <2>3. \A i \in 1 .. n : i # 1 => i - 1 \in 1 .. n - 1 /\ i - 1 + 1 = i
    OBVIOUS
  <2> QED  BY <2>1, <2>2, <2>3
<1>6. g \in Seq(S) /\ Len(g) = n
  <2>1. g \in [1 .. n -> S]
    OBVIOUS
  <2> QED  BY <2>1
<1>7. <<h[j]>> \o rest = g
  <2> HIDE DEF g
  <2> QED  BY <1>5, <1>6, SeqEqual
<1> QED  BY <1>1, <1>7 DEF rest, ahead, behind, ToFront

LEMMA PutInFront ==
  ASSUME NEW S, NEW n \in Nat, NEW h \in [1 .. n -> S], NEW k \in S
  PROVE  <<k>> \o h = WithHead(n, h, k)
<1> DEFINE g == [i \in 1 .. n + 1 |-> IF i = 1 THEN k ELSE h[i - 1]]
<1>1. h \in Seq(S) /\ Len(h) = n /\ <<k>> \in Seq(S) /\ Len(<<k>>) = 1
  OBVIOUS
<1>2. /\ <<k>> \o h \in Seq(S) /\ Len(<<k>> \o h) = 1 + n
      /\ \A i \in 1 .. 1 + n : (<<k>> \o h)[i] = IF i <= 1 THEN <<k>>[i] ELSE h[i - 1]
  BY <1>1, ConcatProperties
<1>3. g \in [1 .. n + 1 -> S]
  OBVIOUS
<1>4. g \in Seq(S) /\ Len(g) = n + 1
  <2> HIDE DEF g
  <2> QED  BY <1>3
<1>5. \A i \in 1 .. n + 1 : (<<k>> \o h)[i] = g[i]
  BY <1>2
<1> HIDE DEF g
<1>6. <<k>> \o h = g
  BY <1>2, <1>4, <1>5, SeqEqual
<1> QED  BY <1>6 DEF g, WithHead

LEMMA WithoutLast ==
  ASSUME NEW S, NEW n \in Nat, n > 1, NEW h \in [1 .. n -> S]
  PROVE  SubSeq(h, 1, Len(h) - 1) = WithoutTail(n, h)
<1> DEFINE g == [i \in 1 .. n - 1 |-> h[i]]
           front == SubSeq(h, 1, n - 1)
<1>1. Len(h) = n /\ \A i \in 1 .. n - 1 : h[i] \in S
  OBVIOUS
<1>2. /\ front \in Seq(S) /\ Len(front) = IF 1 <= n - 1 THEN n - 1 - 1 + 1 ELSE 0
      /\ \A i \in 1 .. n - 1 - 1 + 1 : front[i] = h[1 + i - 1]
  BY <1>1, SubSeqProperties
<1>3. g \in [1 .. n - 1 -> S] /\ n - 1 \in Nat
  OBVIOUS
<1>4. g \in Seq(S) /\ Len(g) = n - 1
  <2> HIDE DEF g
  <2> QED  BY <1>3
<1> HIDE DEF front
<1>5. Len(front) = n - 1 /\ \A i \in 1 .. n - 1 : front[i] = g[i]
  BY <1>2
<1> HIDE DEF g
<1>6. front = g
  BY <1>2, <1>4, <1>5, SeqEqual
<1> QED  BY <1>1, <1>6 DEF g, front, WithoutTail

KeysOf(n, f) == [i \in 1 .. n |-> nodeKey[f[i]]]

LEMMA KeyOrders ==
  \A n \in Nat : \A f : Inv /\ ListOf(n, f) => KeyOrder = KeysOf(n, f)
BY KeyOrderIs DEF KeysOf

LEMMA KeyOrdersNext ==
  (\A n \in Nat : \A f : Inv /\ ListOf(n, f) => KeyOrder = KeysOf(n, f))'
BY KeyOrders, PTL

LEMMA LruInit == LInv /\ Init => Lru!Init
<1> SUFFICES ASSUME LInv, Init PROVE Lru!Init
  OBVIOUS
<1>1. ListOf(0, [i \in 1 .. 0 |-> 0])
  BY DEF Init, ListOf, IsList, Elems, Entries
<1>2. KeyOrder = KeysOf(0, [i \in 1 .. 0 |-> 0])
  BY <1>1, KeyOrders DEF LInv
<1>3. KeyOrder = <<>>
  BY <1>2 DEF KeysOf
<1> QED  BY <1>3 DEF Init, Lru!Init

\* A step that leaves the keys of the list as they are.
LEMMA KeysKept ==
  ASSUME LInv, LInv', drops = 0, drops' = drops, lastUsed' = lastUsed,
         UNCHANGED <<table, next, prev, lruHead, lruTail>>,
         \A x \in 1 .. lastIndex : nodeKey'[x] = nodeKey[x]
  PROVE  UNCHANGED Lru!vars
<1>0. PICK n \in Nat : \E f : ListOf(n, f)
  BY DEF LInv, ListKnown
<1>1. PICK f : ListOf(n, f)
  BY <1>0
<1>2. ListOf(n, f)'
  BY <1>1 DEF ListOf, IsList, Entries
<1>3. KeyOrder = KeysOf(n, f) /\ KeyOrder' = KeysOf(n, f)'
  BY <1>1, <1>2, KeyOrders, KeyOrdersNext DEF LInv
<1>4. \A i \in 1 .. n : f[i] \in 1 .. lastIndex
  <2>1. \A i \in 1 .. n : f[i] \in Nodes /\ f[i] <= lastIndex
    BY <1>1, ListNodes DEF LInv
  <2>2. lastIndex \in Nat
    BY Typed DEF LInv, Inv
  <2> QED  BY <2>1, <2>2 DEF Nodes
<1>5. KeysOf(n, f)' = KeysOf(n, f)
  BY <1>4 DEF KeysOf
<1> QED  BY <1>3, <1>5 DEF Lru!vars

LEMMA LruStep == LInv /\ LInv' /\ [Next]_vars => [Lru!Next]_Lru!vars
<1> SUFFICES ASSUME LInv, LInv', [Next]_vars PROVE [Lru!Next]_Lru!vars
  OBVIOUS
<1> USE DEF listVars, diskVars, procVars, Goto
<1>1. Inv /\ Inv' /\ drops \in 0 .. MaxDrops
  BY DEF LInv, Inv, TypeOK
<1>2. CASE DropAll
  <2>1. drops' # 0 /\ lastUsed' = None
    BY <1>1, <1>2 DEF DropAll
  <2>2. Lru!Drop
    BY <2>1 DEF Lru!Drop
  <2> QED  BY <2>2 DEF Lru!Next
<1>3. ASSUME drops # 0, drops' = drops PROVE UNCHANGED Lru!vars
  BY <1>3 DEF Lru!vars
<1>4. CASE drops = 0 /\ drops' = drops
  <2>0. PICK n \in Nat : \E f : ListOf(n, f)
    BY <1>4 DEF LInv, ListKnown
  <2>1. PICK f : ListOf(n, f)
    BY <2>0
  <2> DEFINE h == KeysOf(n, f)
  <2>2. KeyOrder = h /\ f \in [1 .. n -> Nodes] /\ h \in [1 .. n -> Keys]
    <3>1. KeyOrder = h
      BY <1>1, <2>1, KeyOrders
    <3>2. f \in [1 .. n -> Nodes]
      BY <2>1 DEF ListOf, IsList
    <3>3. \A i \in 1 .. n : nodeKey[f[i]] \in Keys
      BY <1>1, <2>1, ListNodes
    <3> QED  BY <3>1, <3>2, <3>3 DEF KeysOf
  <2>3. \A x \in Nat : \A g : ListOf(x, g)' => KeyOrder' = KeysOf(x, g)'
    BY <1>1, KeyOrdersNext
  <2>4. ASSUME NEW k \in Keys, LookupHit(k) PROVE Lru!Use(k)
    <3>1. PICK j \in 1 .. n : f[j] = table[k] /\ ListOf(n, ToFront(n, f, j))'
      BY <1>1, <2>1, <2>4, LookupLists
    <3>2. KeyOrder' = [i \in 1 .. n |-> nodeKey'[ToFront(n, f, j)[i]]]
      BY <2>3, <3>1 DEF KeysOf
    <3>3. h[j] = k
      BY <1>1, <2>4, <3>1 DEF KeysOf, LookupHit, Inv, Owned
    <3>4. KeyOrder' = ToFront(n, h, j)
      <4>1. nodeKey' = nodeKey
        BY <2>4 DEF LookupHit
      <4>2. \A i \in 1 .. n : nodeKey[ToFront(n, f, j)[i]] = ToFront(n, h, j)[i]
        <5>1. \A i \in 1 .. n : i # 1 => i - 1 \in 1 .. n
          OBVIOUS
        <5> QED  BY <5>1 DEF ToFront, KeysOf
      <4>3. ToFront(n, h, j) = [i \in 1 .. n |-> ToFront(n, h, j)[i]]
        BY DEF ToFront
      <4> QED  BY <3>2, <4>1, <4>2, <4>3
    <3> HIDE DEF h
    <3>5. KeyOrder' = <<k>> \o (SubSeq(h, 1, j - 1) \o SubSeq(h, j + 1, Len(h)))
      BY <2>2, <3>3, <3>4, MovedToFront
    <3>6. lastUsed' = k /\ j \in DOMAIN KeyOrder /\ KeyOrder[j] = k
      BY <2>2, <2>4, <3>3 DEF LookupHit
    <3> QED  BY <1>4, <2>2, <3>5, <3>6 DEF Lru!Use, Lru!RemoveAt
  <2>5. ASSUME NEW p \in Workers, InsertEntry(p)
        PROVE  \E k \in Keys : Lru!Add(k)
    <3>1. \E y : y = node[p]
      OBVIOUS
    <3>2. PICK m : m = node[p]
      BY <3>1
    <3>3. ListOf(n + 1, WithHead(n, f, m))' /\ m \in Nodes /\ nodeKey[m] \in Keys
      BY <1>1, <1>4, <2>1, <2>5, <3>2, InsertLists DEF LInv
    <3>4. \E y : y = nodeKey[m]
      OBVIOUS
    <3>5. PICK k : k = nodeKey[m]
      BY <3>4
    <3>6. KeyOrder' = [i \in 1 .. n + 1 |-> nodeKey'[WithHead(n, f, m)[i]]]
      <4>1. n + 1 \in Nat
        OBVIOUS
      <4> QED  BY <2>3, <3>3, <4>1 DEF KeysOf
    <3>7. KeyOrder' = WithHead(n, h, k)
      <4>1. nodeKey' = nodeKey
        BY <2>5 DEF InsertEntry
      <4>2. \A i \in 1 .. n + 1 : nodeKey[WithHead(n, f, m)[i]] = WithHead(n, h, k)[i]
        <5>1. \A i \in 1 .. n + 1 : i # 1 => i - 1 \in 1 .. n
          OBVIOUS
        <5> QED  BY <3>5, <5>1 DEF WithHead, KeysOf
      <4>3. WithHead(n, h, k) = [i \in 1 .. n + 1 |-> WithHead(n, h, k)[i]]
        BY DEF WithHead
      <4> QED  BY <3>6, <4>1, <4>2, <4>3
    <3>8. \A i \in 1 .. n : h[i] # k
      <4>1. table[k] = 0
        BY <2>5, <3>2, <3>5 DEF InsertEntry
      <4>2. \A i \in 1 .. n : table[h[i]] = f[i] /\ f[i] # 0
        BY <1>1, <2>1, ListNodes DEF KeysOf, Nodes
      <4> QED  BY <4>1, <4>2
    <3> HIDE DEF h
    <3>9. KeyOrder' = <<k>> \o h
      BY <2>2, <3>3, <3>5, <3>7, PutInFront
    <3>10. lastUsed' = k /\ k \in Keys
      BY <2>5, <3>2, <3>3, <3>5 DEF InsertEntry
    <3>11. ~Lru!Cached(k)
      BY <1>4, <2>2, <3>8 DEF Lru!Cached, Lru!ToSet
    <3> QED  BY <1>4, <2>2, <3>9, <3>10, <3>11 DEF Lru!Add
  <2>6. ASSUME NEW p \in Procs, EvictTail(p) PROVE Lru!EvictOldest
    <3>1. n > 1 /\ n - 1 \in Nat /\ ListOf(n - 1, WithoutTail(n, f))'
      BY <1>1, <2>1, <2>6, EvictLists
    <3>2. KeyOrder' = [i \in 1 .. n - 1 |-> nodeKey'[WithoutTail(n, f)[i]]]
      BY <2>3, <3>1 DEF KeysOf
    <3>3. KeyOrder' = WithoutTail(n, h)
      <4>1. nodeKey' = nodeKey
        BY <2>6 DEF EvictTail
      <4>2. \A i \in 1 .. n - 1 : nodeKey[WithoutTail(n, f)[i]] = WithoutTail(n, h)[i]
        BY DEF WithoutTail, KeysOf
      <4>3. WithoutTail(n, h) = [i \in 1 .. n - 1 |-> WithoutTail(n, h)[i]]
        BY DEF WithoutTail
      <4> QED  BY <3>2, <4>1, <4>2, <4>3
    <3> HIDE DEF h
    <3>4. KeyOrder' = SubSeq(h, 1, Len(h) - 1)
      BY <2>2, <3>1, <3>3, WithoutLast
    <3>5. lastUsed' = lastUsed /\ Len(KeyOrder) > 1
      <4>1. Len(h) = n
        BY <2>2
      <4> QED  BY <2>2, <2>6, <3>1, <4>1 DEF EvictTail
    <3> QED  BY <1>4, <2>2, <3>4, <3>5 DEF Lru!EvictOldest, Lru!Front
  <2>7. ASSUME NEW p \in Workers, NEW k \in Keys, TakeIndex(p, k)
        PROVE  UNCHANGED Lru!vars
    <3>1. \A x \in 1 .. lastIndex : nodeKey'[x] = nodeKey[x]
      <4>1. nodeKey' = [nodeKey EXCEPT ![lastIndex + 1] = k] /\ lastIndex \in Nat
        BY <1>1, <2>7, Typed DEF TakeIndex, Inv
      <4>2. \A x \in 1 .. lastIndex : x # lastIndex + 1
        BY <4>1
      <4>3. \A x \in 1 .. lastIndex : x \in Nodes
        BY <1>1, <4>1, FileCacheAssumption DEF Inv, TypeOK, Ref, Nodes
      <4>4. nodeKey \in [Nodes -> Keys \cup {None}]
        BY <1>1 DEF Inv, TypeOK
      <4> QED  BY <4>1, <4>2, <4>3, <4>4
    <3> QED  BY <1>4, <2>7, <3>1, KeysKept DEF TakeIndex
  <2>8. ASSUME NEW p \in Procs,
               \/ LinkToCache(p) \/ FindEntry(p) \/ RemoveDuplicate(p) \/ StartPurge
               \/ CheckLimit(p) \/ NothingToEvict(p) \/ RemoveEvicted(p)
               \/ UNCHANGED vars
        PROVE  UNCHANGED Lru!vars
    <3>1. lastUsed' = lastUsed /\ UNCHANGED <<table, nodeKey, next, prev, lruHead, lruTail>>
      BY <2>8 DEF LinkToCache, FindEntry, RemoveDuplicate, StartPurge, CheckLimit,
           NothingToEvict, RemoveEvicted, vars
    <3> QED  BY <1>4, <3>1, KeysKept
  <2>9. CASE Next
    <3>1. CASE \E p \in Workers : SaveStep(p)
      BY <2>5, <2>8, <3>1 DEF SaveStep, Procs, Lru!Next
    <3>2. CASE \E p \in Procs : PurgeStep(p)
      BY <2>6, <2>8, <3>2 DEF PurgeStep, Lru!Next
    <3>3. Cron \in Procs
      BY DEF Procs
    <3> QED  BY <1>2, <2>4, <2>7, <2>8, <2>9, <3>1, <3>2, <3>3 DEF Next, Lru!Next
  <2>10. CASE UNCHANGED vars
    <3>1. Cron \in Procs
      BY DEF Procs
    <3> QED  BY <2>8, <2>10, <3>1
  <2> QED  BY <2>9, <2>10
<1>5. drops' = drops \/ DropAll
  BY DEF Next, LookupHit, TakeIndex, SaveStep, LinkToCache, InsertEntry, FindEntry,
     RemoveDuplicate, StartPurge, PurgeStep, CheckLimit, EvictTail, NothingToEvict,
     RemoveEvicted, vars
<1> QED  BY <1>2, <1>3, <1>4, <1>5

(* FileCache does what LruCache promises, every step of it being a step of *)
(* LruCache or none: the list moves a key to the front when it is looked   *)
(* up or saved, an eviction takes the key that was used least recently,    *)
(* and the one in use is never evicted.                                    *)
THEOREM FileCacheIsLru == Spec => ImplementsLru
<1>1. Spec => []LInv
  BY InitLInv, NextLInv, PTL DEF Spec
<1>2. Init => Lru!Init
  BY InitLInv, LruInit
<1> QED  BY <1>1, <1>2, LruStep, PTL DEF Spec, ImplementsLru, Lru!Spec

-----------------------------------------------------------------------------
(* Sums over sets of nodes                                                 *)

(***************************************************************************)
(* Among sets of subsets of a finite set some are smallest: induction over *)
(* a finite set by the minimal counterexample.                             *)
(***************************************************************************)
LEMMA SmallestOf ==
  ASSUME NEW S, IsFiniteSet(S), NEW C \in SUBSET (SUBSET S), C # {}
  PROVE  \E B \in C : \A D \in C : D \subseteq B => D = B
<1>1. FiniteSubsetsOf(S) = SUBSET S
  BY FS_FiniteSubsetsOfFinite
<1>2. IsWellFoundedOn(StrictSubsetOrdering(S), SUBSET S)
  BY <1>1, FS_StrictSubsetOrderingWellFounded
<1>3. PICK B \in C : \A D \in C : ~ (<<D, B>> \in StrictSubsetOrdering(S))
  BY <1>2, WFMin, Zenon
<1>4. ASSUME NEW D \in C, D \subseteq B, D # B PROVE FALSE
  <2>1. <<D, B>> \in StrictSubsetOrdering(S)
    BY <1>4 DEF StrictSubsetOrdering
  <2> QED  BY <2>1, <1>3
<1> QED  BY <1>4

\* SizeOf, of nodes whose keys are given.
SizeIn(keyOf, nodes) == MapThenSumSet(LAMBDA n : Size[keyOf[n]], nodes)

Some(nodes) == CHOOSE n \in nodes : TRUE

\* The recursive function it is the value of, by its equation.
SumStep(keyOf, nodes, sums) ==
  [s \in SUBSET nodes |->
     IF s = {} THEN 0 ELSE Size[keyOf[Some(s)]] + sums[s \ {Some(s)}]]

LEMMA SizeOfIs == \A nodes : SizeOf(nodes) = SizeIn(nodeKey, nodes)
BY DEF SizeOf, SizeIn

LEMMA SumsAre ==
  ASSUME NEW keyOf, NEW nodes, NEW sums, sums = SumStep(keyOf, nodes, sums)
  PROVE  \E iter : iter = SumStep(keyOf, nodes, iter) /\ SizeIn(keyOf, nodes) = iter[nodes]
<1> DEFINE iter == CHOOSE iter : iter = SumStep(keyOf, nodes, iter)
<1>1. SizeIn(keyOf, nodes) = iter[nodes]
  BY DEF SizeIn, MapThenSumSet, MapThenFoldSet, SumStep, Some
<1>2. iter = SumStep(keyOf, nodes, iter)
  BY Zenon
<1> QED  BY <1>1, <1>2

HasSums(keyOf, nodes) == \E sums : sums = SumStep(keyOf, nodes, sums)

LEMMA SomeIn == ASSUME NEW s, s # {} PROVE Some(s) \in s
BY DEF Some

\* Two such functions agree where both are defined.
LEMMA SumsAgree ==
  ASSUME NEW keyOf, NEW keyOf2, NEW S, NEW S2, NEW g, NEW h, NEW T, IsFiniteSet(T),
         g = SumStep(keyOf, S, g), h = SumStep(keyOf2, S2, h),
         T \subseteq S, T \subseteq S2, \A x \in T : keyOf[x] = keyOf2[x]
  PROVE  g[T] = h[T]
<1> DEFINE C == {s \in SUBSET T : g[s] # h[s]}
<1>1. SUFFICES ASSUME C # {} PROVE FALSE
  OBVIOUS
<1>2. PICK B \in C : \A D \in C : D \subseteq B => D = B
  <2>1. C \in SUBSET (SUBSET T)
    OBVIOUS
  <2> HIDE DEF C
  <2> QED  BY <1>1, <2>1, SmallestOf
<1>3. B \subseteq T /\ g[B] # h[B] /\ B \in SUBSET S /\ B \in SUBSET S2
  OBVIOUS
<1>4. /\ g[B] = IF B = {} THEN 0 ELSE Size[keyOf[Some(B)]] + g[B \ {Some(B)}]
      /\ h[B] = IF B = {} THEN 0 ELSE Size[keyOf2[Some(B)]] + h[B \ {Some(B)}]
  BY <1>3, Zenon DEF SumStep
<1>5. B # {} /\ Some(B) \in B
  BY <1>3, <1>4, SomeIn
<1>6. g[B \ {Some(B)}] = h[B \ {Some(B)}]
  <2>1. B \ {Some(B)} \in SUBSET T /\ B \ {Some(B)} \subseteq B /\ B \ {Some(B)} # B
    BY <1>3, <1>5
  <2> QED  BY <1>2, <2>1
<1> QED  BY <1>3, <1>4, <1>5, <1>6

Unfolds(keyOf, s) ==
  SizeIn(keyOf, s) = IF s = {} THEN 0 ELSE Size[keyOf[Some(s)]] + SizeIn(keyOf, s \ {Some(s)})

\* The equation holds for sets for which there are such functions.
LEMMA SumUnfolds ==
  ASSUME NEW keyOf, NEW s, IsFiniteSet(s), HasSums(keyOf, s), HasSums(keyOf, s \ {Some(s)})
  PROVE  Unfolds(keyOf, s)
<1>1. PICK g : g = SumStep(keyOf, s, g) /\ SizeIn(keyOf, s) = g[s]
  BY SumsAre, Zenon DEF HasSums
<1>2. g[s] = IF s = {} THEN 0 ELSE Size[keyOf[Some(s)]] + g[s \ {Some(s)}]
  <2>1. s \in SUBSET s
    OBVIOUS
  <2> QED  BY <1>1, <2>1, Zenon DEF SumStep
<1>3. CASE s = {}
  BY <1>1, <1>2, <1>3 DEF Unfolds
<1>4. CASE s # {}
  <2> DEFINE r == s \ {Some(s)}
  <2>1. PICK h : h = SumStep(keyOf, r, h) /\ SizeIn(keyOf, r) = h[r]
    BY SumsAre, Zenon DEF HasSums
  <2>2. IsFiniteSet(r) /\ r \subseteq s
    BY FS_Subset
  <2> HIDE DEF r
  <2>3. g[r] = h[r]
    BY <1>1, <2>1, <2>2, SumsAgree
  <2> QED  BY <1>1, <1>2, <1>4, <2>1, <2>3 DEF r, Unfolds
<1> QED  BY <1>3, <1>4

\* And there are, for all finite sets.
LEMMA SumsExist ==
  ASSUME NEW keyOf, NEW S, IsFiniteSet(S)
  PROVE  HasSums(keyOf, S)
<1> DEFINE C == {s \in SUBSET S : ~HasSums(keyOf, s)}
<1>1. SUFFICES ASSUME C # {} PROVE FALSE
  OBVIOUS
<1>2. PICK B \in C : \A D \in C : D \subseteq B => D = B
  <2>1. C \in SUBSET (SUBSET S)
    OBVIOUS
  <2> HIDE DEF C
  <2> QED  BY <1>1, <2>1, SmallestOf
<1>3. B \subseteq S /\ ~HasSums(keyOf, B)
  OBVIOUS
<1>4. \A D \in SUBSET B : D # B => HasSums(keyOf, D)
  BY <1>2, <1>3
<1>5. \A D \in SUBSET B : D # B => Unfolds(keyOf, D)
  <2>1. SUFFICES ASSUME NEW D \in SUBSET B, D # B PROVE Unfolds(keyOf, D)
    OBVIOUS
  <2>2. IsFiniteSet(D)
    BY <1>3, <2>1, FS_Subset
  <2>3. D \ {Some(D)} \in SUBSET B /\ D \ {Some(D)} # B
    BY <2>1
  <2> QED  BY <1>4, <2>1, <2>2, <2>3, SumUnfolds
<1> DEFINE g == [s \in SUBSET B |->
                   IF s = {} THEN 0
                   ELSE Size[keyOf[Some(s)]] + SizeIn(keyOf, s \ {Some(s)})]
<1>6. \A D \in SUBSET B : D # B => g[D] = SizeIn(keyOf, D)
  BY <1>5 DEF Unfolds
<1>7. \A s \in SUBSET B : s # {} => g[s \ {Some(s)}] = SizeIn(keyOf, s \ {Some(s)})
  <2>1. SUFFICES ASSUME NEW s \in SUBSET B, s # {}
                 PROVE  g[s \ {Some(s)}] = SizeIn(keyOf, s \ {Some(s)})
    OBVIOUS
  <2>2. Some(s) \in s
    BY <2>1, SomeIn
  <2>3. s \ {Some(s)} \in SUBSET B /\ s \ {Some(s)} # B
    BY <2>2
  <2> HIDE DEF g
  <2> QED  BY <1>6, <2>3
<1>8. g = SumStep(keyOf, B, g)
  <2>1. \A s \in SUBSET B :
          g[s] = IF s = {} THEN 0 ELSE Size[keyOf[Some(s)]] + g[s \ {Some(s)}]
    <3>1. \A s \in SUBSET B :
            g[s] = IF s = {} THEN 0
                   ELSE Size[keyOf[Some(s)]] + SizeIn(keyOf, s \ {Some(s)})
      OBVIOUS
    <3> HIDE DEF g
    <3> QED  BY <1>7, <3>1
  <2>2. g = [s \in SUBSET B |-> g[s]]
    OBVIOUS
  <2> HIDE DEF g
  <2> QED  BY <2>1, <2>2, Zenon DEF SumStep
<1> QED  BY <1>3, <1>8 DEF HasSums

LEMMA SizeUnfolds ==
  ASSUME NEW keyOf, NEW s, IsFiniteSet(s)
  PROVE  Unfolds(keyOf, s)
<1>1. IsFiniteSet(s \ {Some(s)})
  BY FS_Subset
<1> QED  BY <1>1, SumsExist, SumUnfolds

\* The nodes of the set have keys, and its size is a number.
Keyed(keyOf, s) == IsFiniteSet(s) /\ \A n \in s : keyOf[n] \in Keys

LEMMA SizeType ==
  ASSUME NEW keyOf, NEW S, Keyed(keyOf, S)
  PROVE  SizeIn(keyOf, S) \in Nat
<1> DEFINE C == {s \in SUBSET S : SizeIn(keyOf, s) \notin Nat}
<1>1. SUFFICES ASSUME C # {} PROVE FALSE
  OBVIOUS
<1>2. PICK B \in C : \A D \in C : D \subseteq B => D = B
  <2>1. C \in SUBSET (SUBSET S)
    OBVIOUS
  <2> HIDE DEF C
  <2> QED  BY <1>1, <2>1, SmallestOf DEF Keyed
<1>3. B \subseteq S /\ SizeIn(keyOf, B) \notin Nat
  OBVIOUS
<1>4. Unfolds(keyOf, B)
  BY <1>3, SizeUnfolds, FS_Subset DEF Keyed
<1>5. B # {} /\ Some(B) \in B
  BY <1>3, <1>4, SomeIn DEF Unfolds
<1>6. SizeIn(keyOf, B \ {Some(B)}) \in Nat
  <2>1. B \ {Some(B)} \in SUBSET S /\ B \ {Some(B)} \subseteq B /\ B \ {Some(B)} # B
    BY <1>3, <1>5
  <2> QED  BY <1>2, <2>1
<1>7. Size[keyOf[Some(B)]] \in Nat
  BY <1>3, <1>5, FileCacheAssumption DEF Keyed
<1> QED  BY <1>3, <1>4, <1>5, <1>6, <1>7 DEF Unfolds

\* The size of a set is that of any of its nodes and of the others.
LEMMA SizeSplits ==
  ASSUME NEW keyOf, NEW S, Keyed(keyOf, S), NEW m \in S
  PROVE  SizeIn(keyOf, S) = Size[keyOf[m]] + SizeIn(keyOf, S \ {m})
<1> DEFINE bad(s) == \E y \in s : SizeIn(keyOf, s) # Size[keyOf[y]] + SizeIn(keyOf, s \ {y})
           C == {s \in SUBSET S : bad(s)}
<1>1. SUFFICES ASSUME C # {} PROVE FALSE
  OBVIOUS
<1>2. PICK B \in C : \A D \in C : D \subseteq B => D = B
  <2>1. C \in SUBSET (SUBSET S)
    OBVIOUS
  <2> HIDE DEF C
  <2> QED  BY <1>1, <2>1, SmallestOf DEF Keyed
<1>3. PICK y \in B : SizeIn(keyOf, B) # Size[keyOf[y]] + SizeIn(keyOf, B \ {y})
  OBVIOUS
<1>4. B \subseteq S
  OBVIOUS
<1>5. \A D \in SUBSET B : D # B => \A z \in D : SizeIn(keyOf, D) = Size[keyOf[z]] + SizeIn(keyOf, D \ {z})
  BY <1>2, <1>4
<1> HIDE DEF C
<1>6. \A D \in SUBSET B : Keyed(keyOf, D) /\ SizeIn(keyOf, D) \in Nat
  <2>1. SUFFICES ASSUME NEW D \in SUBSET B PROVE Keyed(keyOf, D) /\ SizeIn(keyOf, D) \in Nat
    OBVIOUS
  <2>2. Keyed(keyOf, D)
    BY <1>4, FS_Subset DEF Keyed
  <2> QED  BY <2>2, SizeType
<1>7. \A z \in B : Size[keyOf[z]] \in Nat
  BY <1>4, FileCacheAssumption DEF Keyed
<1> DEFINE x == Some(B)
<1>8. x \in B /\ SizeIn(keyOf, B) = Size[keyOf[x]] + SizeIn(keyOf, B \ {x})
  <2>1. Unfolds(keyOf, B)
    <3>1. IsFiniteSet(B)
      BY <1>6 DEF Keyed
    <3> QED  BY <3>1, SizeUnfolds
  <2> QED  BY <1>3, <2>1, SomeIn DEF Unfolds
<1> HIDE DEF x
<1>9. x # y
  BY <1>3, <1>8
<1>10. SizeIn(keyOf, B \ {x}) = Size[keyOf[y]] + SizeIn(keyOf, (B \ {x}) \ {y})
  <2>1. B \ {x} \in SUBSET B /\ B \ {x} # B /\ y \in B \ {x}
    BY <1>8, <1>9
  <2> QED  BY <1>5, <2>1
<1>11. SizeIn(keyOf, B \ {y}) = Size[keyOf[x]] + SizeIn(keyOf, (B \ {y}) \ {x})
  <2>1. B \ {y} \in SUBSET B /\ B \ {y} # B /\ x \in B \ {y}
    BY <1>8, <1>9
  <2> QED  BY <1>5, <2>1
<1>12. (B \ {y}) \ {x} = (B \ {x}) \ {y} /\ (B \ {x}) \ {y} \in SUBSET B
  OBVIOUS
<1>13. /\ Size[keyOf[x]] \in Nat /\ Size[keyOf[y]] \in Nat
       /\ SizeIn(keyOf, (B \ {x}) \ {y}) \in Nat
  BY <1>6, <1>7, <1>8, <1>12
<1> DEFINE a == Size[keyOf[x]]
           b == Size[keyOf[y]]
           c == SizeIn(keyOf, (B \ {x}) \ {y})
<1>14. SizeIn(keyOf, B) = a + (b + c) /\ SizeIn(keyOf, B \ {y}) = a + c
  BY <1>8, <1>10, <1>11, <1>12
<1>15. a \in Nat /\ b \in Nat /\ c \in Nat
  BY <1>13
<1> HIDE DEF a, c
<1>16. SizeIn(keyOf, B) = b + SizeIn(keyOf, B \ {y})
  <2> HIDE DEF b
  <2> QED  BY <1>14, <1>15
<1> QED  BY <1>3, <1>16

\* It depends on the keys of its own nodes only.
LEMMA SizeSame ==
  ASSUME NEW keyOf, NEW keyOf2, NEW S, IsFiniteSet(S), \A n \in S : keyOf[n] = keyOf2[n]
  PROVE  SizeIn(keyOf, S) = SizeIn(keyOf2, S)
<1>0. HasSums(keyOf, S) /\ HasSums(keyOf2, S)
  BY SumsExist
<1>1. PICK g : g = SumStep(keyOf, S, g) /\ SizeIn(keyOf, S) = g[S]
  BY <1>0, SumsAre, Zenon DEF HasSums
<1>2. PICK h : h = SumStep(keyOf2, S, h) /\ SizeIn(keyOf2, S) = h[S]
  BY <1>0, SumsAre, Zenon DEF HasSums
<1>3. g[S] = h[S]
  BY <1>1, <1>2, SumsAgree
<1> QED  BY <1>1, <1>2, <1>3

Removing == InHand({"remove"})

SizeKnown ==
  drops = 0 => totalSizeOnDisk = SizeIn(nodeKey, Entries) + SizeIn(nodeKey, Removing)

LEMMA SizeKnownIs == SizeKnown <=> SizeAccounted
<1>1. SizeOf(Entries) = SizeIn(nodeKey, Entries) /\ SizeOf(Removing) = SizeIn(nodeKey, Removing)
  BY SizeOfIs
<1> QED  BY <1>1 DEF SizeKnown, SizeAccounted, Removing

\* The nodes it is about.
LEMMA CountedNodes ==
  ASSUME Inv
  PROVE  /\ Keyed(nodeKey, Entries) /\ Keyed(nodeKey, Removing)
         /\ Entries \subseteq 1 .. lastIndex /\ Removing \subseteq 1 .. lastIndex
         /\ lastIndex \in Nat
<1>1. lastIndex \in Nat /\ 1 .. lastIndex \subseteq Nodes
  BY FileCacheAssumption, Typed DEF Inv, TypeOK, Ref, Nodes
<1>2. Entries \subseteq 1 .. lastIndex
  BY Typed DEF Entries, Inv, Allocated
<1>3. Removing \subseteq 1 .. lastIndex
  <2>1. \A p \in Procs : pc[p] = "remove" => node[p] # 0
    BY DEF Inv, TypeOK
  <2> QED  BY <2>1, Typed DEF Removing, InHand, Inv, Allocated
<1>4. IsFiniteSet(1 .. lastIndex)
  BY <1>1, FS_Interval
<1> QED  BY <1>1, <1>2, <1>3, <1>4, FS_Subset DEF Keyed, Inv, Allocated

LEMMA SizeKept ==
  ASSUME Inv, SizeKnown, drops' = drops, totalSizeOnDisk' = totalSizeOnDisk,
         Entries' = Entries, Removing' = Removing,
         \A x \in 1 .. lastIndex : nodeKey'[x] = nodeKey[x]
  PROVE  SizeKnown'
<1>1. SizeIn(nodeKey', Entries) = SizeIn(nodeKey, Entries)
  BY CountedNodes, SizeSame DEF Keyed
<1>2. SizeIn(nodeKey', Removing) = SizeIn(nodeKey, Removing)
  BY CountedNodes, SizeSame DEF Keyed
<1> QED  BY <1>1, <1>2 DEF SizeKnown

LEMMA NextSizeKnown == LInv /\ LInv' /\ SizeKnown /\ [Next]_vars => SizeKnown'
<1> SUFFICES ASSUME LInv, LInv', SizeKnown, [Next]_vars PROVE SizeKnown'
  OBVIOUS
<1> USE DEF listVars, diskVars, procVars, Goto
<1>1. /\ Inv /\ Inv' /\ drops \in 0 .. MaxDrops
      /\ pc \in [Procs -> Stages] /\ node \in [Procs -> Ref]
  BY DEF LInv, Inv, TypeOK
<1>2. CASE DropAll
  BY <1>1, <1>2 DEF DropAll, SizeKnown
<1>3. CASE drops # 0 /\ drops' = drops
  BY <1>3 DEF SizeKnown
<1>4. CASE drops = 0 /\ drops' = drops
  <2>1. ASSUME NEW p \in Workers, InsertEntry(p) PROVE SizeKnown'
    <3>0. PICK n \in Nat : \E f : ListOf(n, f)
      BY <1>4 DEF LInv, ListKnown
    <3>1. PICK f : ListOf(n, f)
      BY <3>0
    <3>2. \E y : y = node[p]
      OBVIOUS
    <3>3. PICK m : m = node[p]
      BY <3>2
    <3>4. ListOf(n + 1, WithHead(n, f, m))' /\ m \in Nodes /\ nodeKey[m] \in Keys
      BY <1>1, <1>4, <2>1, <3>1, <3>3, InsertLists DEF LInv
    <3>5. /\ table' = [table EXCEPT ![nodeKey[m]] = m] /\ table[nodeKey[m]] = 0
          /\ totalSizeOnDisk' = totalSizeOnDisk + Size[nodeKey[m]]
          /\ nodeKey' = nodeKey /\ table \in [Keys -> Ref] /\ m # 0 /\ p \in Procs
          /\ pc[p] = "insert" /\ pc' = [pc EXCEPT ![p] = "check"]
          /\ node' = [node EXCEPT ![p] = 0]
      BY <1>1, <2>1, <3>3, <3>4 DEF InsertEntry, Inv, TypeOK, Nodes, Procs
    <3>6. Entries' = Entries \cup {m} /\ m \notin Entries
      <4>1. \A x \in Entries' : x \in Entries \cup {m}
        BY <3>4, <3>5 DEF Entries
      <4>2. \A x \in Entries : x \in Entries'
        BY <3>4, <3>5 DEF Entries
      <4>3. m \in Entries'
        BY <3>4, <3>5 DEF Entries
      <4>4. m \notin Entries
        BY <1>1, <3>3, <3>5 DEF Entries, Inv, Owned
      <4> QED  BY <4>1, <4>2, <4>3, <4>4
    <3>7. Removing' = Removing
      BY <1>1, <3>5 DEF Removing, InHand
    <3>8. SizeIn(nodeKey, Entries') = Size[nodeKey[m]] + SizeIn(nodeKey, Entries)
      <4> DEFINE S == Entries \cup {m}
      <4>1. Keyed(nodeKey, S)
        BY <1>1, <3>4, CountedNodes, FS_AddElement DEF Keyed
      <4>2. m \in S /\ S \ {m} = Entries
        BY <3>6
      <4> HIDE DEF S
      <4>3. SizeIn(nodeKey, S) = Size[nodeKey[m]] + SizeIn(nodeKey, S \ {m})
        BY <4>1, <4>2, SizeSplits
      <4> QED  BY <3>6, <4>2, <4>3 DEF S
    <3>9. /\ SizeIn(nodeKey, Entries) \in Nat /\ SizeIn(nodeKey, Removing) \in Nat
          /\ Size[nodeKey[m]] \in Nat
      BY <1>1, <3>4, CountedNodes, SizeType, FileCacheAssumption
    <3> QED  BY <1>4, <3>5, <3>7, <3>8, <3>9 DEF SizeKnown
  <2>2. ASSUME NEW p \in Procs, EvictTail(p) PROVE SizeKnown'
    <3>0. PICK n \in Nat : \E f : ListOf(n, f)
      BY <1>4 DEF LInv, ListKnown
    <3>1. PICK f : ListOf(n, f)
      BY <3>0
    <3>2. PICK e : e = f[n]
      OBVIOUS
    <3>3. lruTail = e /\ n \in 1 .. n
      <4>1. n # 0
        BY <1>1, <2>2, <3>1, EvictLists
      <4> QED  BY <3>1, <3>2, <4>1 DEF ListOf, IsList
    <3>4. /\ e \in Nodes /\ e # 0 /\ nodeKey[e] \in Keys /\ table[nodeKey[e]] = e
          /\ e \in Entries /\ \A q \in Procs : node[q] # e
      BY <1>1, <3>1, <3>2, <3>3, ListNodes DEF Nodes
    <3>5. /\ table' = [table EXCEPT ![nodeKey[e]] = 0] /\ table \in [Keys -> Ref]
          /\ totalSizeOnDisk' = totalSizeOnDisk /\ nodeKey' = nodeKey
          /\ pc[p] = "evict" /\ pc' = [pc EXCEPT ![p] = "remove"]
          /\ node' = [node EXCEPT ![p] = e]
      BY <1>1, <2>2, <3>3, <3>4 DEF EvictTail, Inv, TypeOK
    <3>6. Entries' = Entries \ {e}
      <4>1. \A j \in Keys : table[j] = e => j = nodeKey[e]
        BY <1>1, <3>4 DEF Inv, Owned
      <4>2. \A x \in Entries' : x \in Entries \ {e}
        BY <3>4, <3>5, <4>1 DEF Entries
      <4>3. \A x \in Entries \ {e} : x \in Entries'
        BY <3>4, <3>5 DEF Entries
      <4> QED  BY <4>2, <4>3
    <3>7. Removing' = Removing \cup {e} /\ e \notin Removing
      <4>1. \A x \in Removing' : x \in Removing \cup {e}
        BY <1>1, <3>5 DEF Removing, InHand
      <4>2. \A x \in Removing : x \in Removing'
        BY <1>1, <3>5 DEF Removing, InHand
      <4>3. e \in Removing'
        BY <1>1, <3>5 DEF Removing, InHand
      <4>4. e \notin Removing
        BY <3>4 DEF Removing, InHand
      <4> QED  BY <4>1, <4>2, <4>3, <4>4
    <3>8. SizeIn(nodeKey, Entries) = Size[nodeKey[e]] + SizeIn(nodeKey, Entries')
      <4>1. SizeIn(nodeKey, Entries) = Size[nodeKey[e]] + SizeIn(nodeKey, Entries \ {e})
        BY <1>1, <3>4, CountedNodes, SizeSplits
      <4> QED  BY <3>6, <4>1
    <3>9. SizeIn(nodeKey, Removing') = Size[nodeKey[e]] + SizeIn(nodeKey, Removing)
      <4> DEFINE S == Removing \cup {e}
      <4>1. Keyed(nodeKey, S)
        BY <1>1, <3>4, CountedNodes, FS_AddElement DEF Keyed
      <4>2. e \in S /\ S \ {e} = Removing
        BY <3>7
      <4> HIDE DEF S
      <4>3. SizeIn(nodeKey, S) = Size[nodeKey[e]] + SizeIn(nodeKey, S \ {e})
        BY <4>1, <4>2, SizeSplits
      <4> QED  BY <3>7, <4>2, <4>3 DEF S
    <3>10. /\ SizeIn(nodeKey, Entries') \in Nat /\ SizeIn(nodeKey, Removing) \in Nat
           /\ Size[nodeKey[e]] \in Nat
      <4>1. Keyed(nodeKey, Entries')
        BY <1>1, <3>6, CountedNodes, FS_RemoveElement DEF Keyed
      <4> QED  BY <1>1, <3>4, <4>1, CountedNodes, SizeType, FileCacheAssumption
    <3> QED  BY <1>4, <3>5, <3>8, <3>9, <3>10 DEF SizeKnown
  <2>3. ASSUME NEW p \in Procs, RemoveEvicted(p) PROVE SizeKnown'
    <3>1. \E y : y = node[p]
      OBVIOUS
    <3>2. PICK e : e = node[p]
      BY <3>1
    <3>3. /\ pc[p] = "remove" /\ pc' = [pc EXCEPT ![p] = "check"]
          /\ node' = [node EXCEPT ![p] = 0] /\ UNCHANGED <<table, nodeKey>>
          /\ totalSizeOnDisk' = totalSizeOnDisk - Size[nodeKey[e]] /\ e # 0
      BY <1>1, <2>3, <3>2 DEF RemoveEvicted, Inv, TypeOK
    <3>4. Entries' = Entries
      BY <3>3 DEF Entries
    <3>5. Removing' = Removing \ {e} /\ e \in Removing
      <4>1. \A q \in Procs : node[q] = e => q = p
        BY <1>1, <3>2, <3>3 DEF Inv, Owned
      <4>2. \A x \in Removing' : x \in Removing \ {e}
        BY <1>1, <3>3, <4>1 DEF Removing, InHand
      <4>3. \A x \in Removing \ {e} : x \in Removing'
        BY <1>1, <3>2, <3>3 DEF Removing, InHand
      <4>4. e \in Removing
        BY <3>2, <3>3 DEF Removing, InHand
      <4> QED  BY <4>2, <4>3, <4>4
    <3>6. SizeIn(nodeKey, Removing) = Size[nodeKey[e]] + SizeIn(nodeKey, Removing')
      <4>1. SizeIn(nodeKey, Removing) = Size[nodeKey[e]] + SizeIn(nodeKey, Removing \ {e})
        BY <1>1, <3>5, CountedNodes, SizeSplits
      <4> QED  BY <3>5, <4>1
    <3>7. /\ SizeIn(nodeKey, Entries) \in Nat /\ SizeIn(nodeKey, Removing') \in Nat
          /\ Size[nodeKey[e]] \in Nat
      <4>1. Keyed(nodeKey, Removing')
        BY <1>1, <3>5, CountedNodes, FS_RemoveElement DEF Keyed
      <4>2. nodeKey[e] \in Keys
        BY <1>1, <3>5, CountedNodes DEF Keyed
      <4> QED  BY <1>1, <4>1, <4>2, CountedNodes, SizeType, FileCacheAssumption
    <3> QED  BY <1>4, <3>3, <3>4, <3>6, <3>7 DEF SizeKnown
  <2>4. ASSUME UNCHANGED <<table, nodeKey, totalSizeOnDisk>>, Removing' = Removing
        PROVE  SizeKnown'
    <3>1. Entries' = Entries
      BY <2>4 DEF Entries
    <3> QED  BY <1>1, <1>4, <2>4, <3>1, SizeKept
  <2>5. ASSUME NEW p \in Workers, NEW k \in Keys, TakeIndex(p, k) PROVE SizeKnown'
    <3>1. \A x \in 1 .. lastIndex : nodeKey'[x] = nodeKey[x]
      <4>1. nodeKey' = [nodeKey EXCEPT ![lastIndex + 1] = k] /\ lastIndex \in Nat
        BY <1>1, <2>5, Typed DEF TakeIndex, Inv
      <4>2. \A x \in 1 .. lastIndex : x # lastIndex + 1
        BY <4>1
      <4>3. \A x \in 1 .. lastIndex : x \in Nodes
        BY <1>1, <4>1, FileCacheAssumption DEF Inv, TypeOK, Ref, Nodes
      <4>4. nodeKey \in [Nodes -> Keys \cup {None}]
        BY <1>1 DEF Inv, TypeOK
      <4> QED  BY <4>1, <4>2, <4>3, <4>4
    <3>2. Entries' = Entries /\ totalSizeOnDisk' = totalSizeOnDisk
      BY <2>5 DEF TakeIndex, Entries
    <3>3. Removing' = Removing
      BY <1>1, <2>5 DEF TakeIndex, Removing, InHand, Procs
    <3> QED  BY <1>1, <1>4, <3>1, <3>2, <3>3, SizeKept
  <2>6. ASSUME NEW p \in Procs,
               \/ LinkToCache(p) \/ FindEntry(p) \/ RemoveDuplicate(p)
               \/ CheckLimit(p) \/ NothingToEvict(p)
        PROVE  SizeKnown'
    <3>1. UNCHANGED <<table, nodeKey, totalSizeOnDisk>>
      BY <2>6 DEF LinkToCache, FindEntry, RemoveDuplicate, CheckLimit, NothingToEvict
    <3>2. Removing' = Removing
      <4>1. /\ pc[p] # "remove" /\ pc'[p] # "remove"
            /\ \A q \in Procs : q # p => pc'[q] = pc[q] /\ node'[q] = node[q]
        BY <1>1, <2>6 DEF LinkToCache, FindEntry, RemoveDuplicate, CheckLimit, NothingToEvict
      <4> QED  BY <4>1 DEF Removing, InHand
    <3> QED  BY <2>4, <3>1, <3>2
  <2>7. ASSUME NEW k \in Keys, LookupHit(k) PROVE SizeKnown'
    <3>1. UNCHANGED <<table, nodeKey, totalSizeOnDisk, pc, node>>
      BY <2>7 DEF LookupHit
    <3>2. Removing' = Removing
      BY <3>1 DEF Removing, InHand
    <3> QED  BY <2>4, <3>1, <3>2
  <2>8. CASE StartPurge
    <3>1. UNCHANGED <<table, nodeKey, totalSizeOnDisk, node>>
      BY <2>8 DEF StartPurge
    <3>2. Removing' = Removing
      BY <1>1, <2>8, <3>1 DEF StartPurge, Removing, InHand, Procs
    <3> QED  BY <2>4, <3>1, <3>2
  <2>9. CASE UNCHANGED vars
    <3>1. Removing' = Removing
      BY <2>9 DEF vars, Removing, InHand
    <3> QED  BY <2>4, <2>9, <3>1 DEF vars
  <2>10. CASE \E p \in Workers : SaveStep(p)
    BY <2>1, <2>6, <2>10 DEF SaveStep, Procs
  <2>11. CASE \E p \in Procs : PurgeStep(p)
    BY <2>2, <2>3, <2>6, <2>11 DEF PurgeStep
  <2> QED  BY <1>2, <2>5, <2>7, <2>8, <2>9, <2>10, <2>11 DEF Next
<1>5. drops' = drops \/ DropAll
  BY DEF Next, LookupHit, TakeIndex, SaveStep, LinkToCache, InsertEntry, FindEntry,
     RemoveDuplicate, StartPurge, PurgeStep, CheckLimit, EvictTail, NothingToEvict,
     RemoveEvicted, vars
<1> QED  BY <1>2, <1>3, <1>4, <1>5

(* Until a DropAll totalSizeOnDisk is the size of the entries and of what  *)
(* is just being removed: whoever enters, finds twice, evicts or removes   *)
(* files, and though the total changes outside of the mutex, no file is    *)
(* counted twice or forgotten, however many there are.                     *)
THEOREM TotalSizeIsRight == Spec => []SizeAccounted
<1>1. Spec => []LInv
  BY InitLInv, NextLInv, PTL DEF Spec
<1>2. Init => SizeKnown
  <2> SUFFICES ASSUME Init PROVE SizeKnown
    OBVIOUS
  <2>1. Entries = {} /\ Removing = {} /\ totalSizeOnDisk = 0
    BY DEF Init, Entries, Removing, InHand
  <2>2. SizeIn(nodeKey, {}) = 0
    <3>1. IsFiniteSet({})
      BY FS_EmptySet
    <3>2. Unfolds(nodeKey, {})
      BY <3>1, SizeUnfolds
    <3> QED  BY <3>2 DEF Unfolds
  <2> QED  BY <2>1, <2>2 DEF SizeKnown
<1>3. Spec => []SizeKnown
  BY <1>1, <1>2, NextSizeKnown, PTL DEF Spec
<1> QED  BY <1>3, SizeKnownIs, PTL
=============================================================================
