----------------------------- MODULE FileCache ------------------------------
(***************************************************************************)
(* FileCache, the base of nocc-server's src cache and obj cache: files     *)
(* under cacheDir, a table of them by sha256, and a doubly linked list in  *)
(* which lruHead is the entry last used and lruTail the first to be        *)
(* removed when the cache outgrows its limit.                              *)
(*                                                                         *)
(* The mutex covers the table and the list, one section of it being one    *)
(* action.  Links to files, their removal and the total size are handled   *)
(* outside of it, and every goroutine that saves a file may purge, beside  *)
(* the cron.  A node of the list and its file share a number, the unique   *)
(* index the file got; 0 is nil.                                           *)
(***************************************************************************)
EXTENDS Integers, FiniteSets, FiniteSetsExt

CONSTANTS
  Keys,        \* sha256 of files
  Size,        \* Size[k]: bytes of the file with that sha256
  Workers,     \* goroutines that save files
  Cron,        \* the one that purges down to the soft limit
  HardLimit,   \* limitBytes
  SoftLimit,   \* 80 per cent of it
  MaxSaves,    \* bound: calls of SaveFileToCache
  MaxDrops,    \* bound: calls of DropAll
  None         \* "no key"

ASSUME FileCacheAssumption ==
  /\ Size \in [Keys -> Nat]
  /\ HardLimit \in Nat /\ SoftLimit \in Nat
  /\ MaxSaves \in Nat /\ MaxDrops \in Nat
  /\ Cron \notin Workers /\ None \notin Keys

Procs == Workers \cup {Cron}
Nodes == 1 .. MaxSaves
Ref == Nodes \cup {0}

VARIABLES
  table,            \* node of the entry of a key, 0 if there is none
  nodeKey,          \* lruNode.key
  next, prev,       \* lruNode.next, lruNode.prev
  lruHead, lruTail,
  lastIndex,
  totalSizeOnDisk,
  onDisk,           \* files under cacheDir
  dirs,             \* whether the directories under cacheDir exist
  pc, node,         \* of a goroutine: its stage, and the file it has in hand
  lastUsed,         \* history: the key last looked up or entered
  drops             \* history: calls of DropAll

listVars == <<nodeKey, next, prev, lruHead, lruTail>>
procVars == <<pc, node>>
diskVars == <<onDisk, dirs>>
vars == <<table, listVars, lastIndex, totalSizeOnDisk, diskVars, procVars, lastUsed,
          drops>>

Stages == {"idle", "link", "insert", "duplicate", "check", "evict", "remove"}

TypeOK ==
  /\ table \in [Keys -> Ref]
  /\ nodeKey \in [Nodes -> Keys \cup {None}]
  /\ next \in [Nodes -> Ref] /\ prev \in [Nodes -> Ref]
  /\ lruHead \in Ref /\ lruTail \in Ref
  /\ lastIndex \in Ref
  /\ totalSizeOnDisk \in Int
  /\ onDisk \subseteq Nodes
  /\ dirs \in BOOLEAN
  /\ pc \in [Procs -> Stages]
  /\ node \in [Procs -> Ref]
  /\ \A p \in Procs : node[p] = 0 <=> pc[p] \in {"idle", "check", "evict"}
  /\ lastUsed \in Keys \cup {None}
  /\ drops \in 0 .. MaxDrops

Init ==
  /\ table = [k \in Keys |-> 0]
  /\ nodeKey = [n \in Nodes |-> None]
  /\ next = [n \in Nodes |-> 0] /\ prev = [n \in Nodes |-> 0]
  /\ lruHead = 0 /\ lruTail = 0
  /\ lastIndex = 0
  /\ totalSizeOnDisk = 0
  /\ onDisk = {}
  /\ dirs = TRUE
  /\ pc = [p \in Procs |-> "idle"]
  /\ node = [p \in Procs |-> 0]
  /\ lastUsed = None
  /\ drops = 0

Goto(p, stage) == pc' = [pc EXCEPT ![p] = stage]

\* f with the values of g where g is defined: assignments through pointers.
Assign(f, g) == [n \in DOMAIN f |-> IF n \in DOMAIN g THEN g[n] ELSE f[n]]
Field(n, ref) == [m \in {n} \ {0} |-> ref]

-----------------------------------------------------------------------------
(* LookupInCache: a miss changes nothing                                   *)

\* Mutant of MoveToFront: the list keeps its tail.
MoveToFrontOnly(n) ==
  /\ next' = Assign(Assign(next, Field(prev[n], next[n])), Field(n, lruHead))
  /\ prev' = Assign(Assign(Assign(prev, Field(next[n], prev[n])),
                           Field(n, 0)), Field(lruHead, n))
  /\ lruHead' = n
  /\ UNCHANGED lruTail

\* A node other than the head leaves its place and becomes the head.
MoveToFront(n) ==
  /\ next' = Assign(Assign(next, Field(prev[n], next[n])), Field(n, lruHead))
  /\ prev' = Assign(Assign(Assign(prev, Field(next[n], prev[n])),
                           Field(n, 0)), Field(lruHead, n))
  /\ lruTail' = IF next[n] = 0 THEN prev[n] ELSE lruTail
  /\ lruHead' = n

\* Mutant of LookupHit: it reads the table only.
LookupHitOnly(k) ==
  /\ table[k] # 0
  /\ lastUsed' = k
  /\ UNCHANGED <<table, listVars, lastIndex, totalSizeOnDisk, diskVars,
                 procVars, drops>>

LookupHit(k) ==
  /\ table[k] # 0
  /\ IF table[k] # lruHead
       THEN MoveToFront(table[k])
       ELSE UNCHANGED <<next, prev, lruHead, lruTail>>
  /\ lastUsed' = k
  /\ UNCHANGED <<table, nodeKey, lastIndex, totalSizeOnDisk, diskVars, procVars,
                 drops>>

-----------------------------------------------------------------------------
(* SaveFileToCache                                                         *)

TakeIndex(p, k) ==
  /\ p \in Workers /\ pc[p] = "idle" /\ lastIndex < MaxSaves
  /\ lastIndex' = lastIndex + 1
  /\ nodeKey' = [nodeKey EXCEPT ![lastIndex'] = k]
  /\ node' = [node EXCEPT ![p] = lastIndex']
  /\ Goto(p, "link")
  /\ UNCHANGED <<table, next, prev, lruHead, lruTail, totalSizeOnDisk, diskVars,
                 lastUsed, drops>>

\* os.Link to pathInCache may fail, and does if its directory is gone.
LinkToCache(p) ==
  /\ pc[p] = "link"
  /\ \/ /\ dirs
        /\ onDisk' = onDisk \cup {node[p]}
        /\ Goto(p, "insert")
        /\ UNCHANGED node
     \/ /\ Goto(p, "idle")
        /\ node' = [node EXCEPT ![p] = 0]
        /\ UNCHANGED onDisk
  /\ UNCHANGED <<table, listVars, lastIndex, totalSizeOnDisk, dirs, lastUsed, drops>>

NewHead(n) ==
  /\ next' = Assign(next, Field(n, lruHead))
  /\ prev' = Assign(prev, Field(lruHead, n))
  /\ lruHead' = n
  /\ lruTail' = IF lruTail = 0 THEN n ELSE lruTail

\* Mutant of InsertEntry: a file which the cache has no room for is not entered.
InsertIfRoom(p) ==
  /\ pc[p] = "insert" /\ table[nodeKey[node[p]]] = 0
  /\ IF totalSizeOnDisk + Size[nodeKey[node[p]]] <= HardLimit
       THEN /\ table' = [table EXCEPT ![nodeKey[node[p]]] = node[p]]
            /\ totalSizeOnDisk' = totalSizeOnDisk + Size[nodeKey[node[p]]]
            /\ NewHead(node[p])
            /\ node' = [node EXCEPT ![p] = 0]
            /\ Goto(p, "check")
       ELSE /\ Goto(p, "duplicate")
            /\ UNCHANGED <<table, totalSizeOnDisk, next, prev, lruHead, lruTail, node>>
  /\ lastUsed' = nodeKey[node[p]]
  /\ UNCHANGED <<nodeKey, lastIndex, diskVars, drops>>

InsertEntry(p) ==
  /\ pc[p] = "insert" /\ table[nodeKey[node[p]]] = 0
  /\ table' = [table EXCEPT ![nodeKey[node[p]]] = node[p]]
  /\ totalSizeOnDisk' = totalSizeOnDisk + Size[nodeKey[node[p]]]
  /\ NewHead(node[p])
  /\ lastUsed' = nodeKey[node[p]]
  /\ node' = [node EXCEPT ![p] = 0]
  /\ Goto(p, "check")
  /\ UNCHANGED <<nodeKey, lastIndex, diskVars, drops>>

\* Mutant of FindEntry: the size of a duplicate counts.
FindAndCount(p) ==
  /\ pc[p] = "insert" /\ table[nodeKey[node[p]]] # 0
  /\ totalSizeOnDisk' = totalSizeOnDisk + Size[nodeKey[node[p]]]
  /\ Goto(p, "duplicate")
  /\ UNCHANGED <<table, listVars, lastIndex, diskVars, node,
                 lastUsed, drops>>

\* Another goroutine has saved the same content: its entry stays.
FindEntry(p) ==
  /\ pc[p] = "insert" /\ table[nodeKey[node[p]]] # 0
  /\ Goto(p, "duplicate")
  /\ UNCHANGED <<table, listVars, lastIndex, totalSizeOnDisk, diskVars, node,
                 lastUsed, drops>>

\* Mutant of RemoveDuplicate: the second file stays.
KeepDuplicate(p) ==
  /\ pc[p] = "duplicate"
  /\ node' = [node EXCEPT ![p] = 0]
  /\ Goto(p, "check")
  /\ UNCHANGED <<table, listVars, lastIndex, totalSizeOnDisk, diskVars, lastUsed, drops>>

RemoveDuplicate(p) ==
  /\ pc[p] = "duplicate"
  /\ onDisk' = onDisk \ {node[p]}
  /\ node' = [node EXCEPT ![p] = 0]
  /\ Goto(p, "check")
  /\ UNCHANGED <<table, listVars, lastIndex, totalSizeOnDisk, dirs, lastUsed, drops>>

-----------------------------------------------------------------------------
(* purgeLastElementsTillLimit                                              *)

\* PurgeLastElementsIfRequired, at a tick of the cron.
StartPurge ==
  /\ pc[Cron] = "idle"
  /\ Goto(Cron, "check")
  /\ UNCHANGED <<table, listVars, lastIndex, totalSizeOnDisk, diskVars, node,
                 lastUsed, drops>>

Limit(p) == IF p = Cron THEN SoftLimit ELSE HardLimit

CheckLimit(p) ==
  /\ pc[p] = "check"
  /\ Goto(p, IF totalSizeOnDisk > Limit(p) THEN "evict" ELSE "idle")
  /\ UNCHANGED <<table, listVars, lastIndex, totalSizeOnDisk, diskVars, node,
                 lastUsed, drops>>

\* The last node leaves the list, and the entry of its key the table.
EvictTail(p) ==
  /\ pc[p] = "evict"
  /\ lruTail # 0 /\ prev[lruTail] # 0
  /\ LET k == nodeKey[lruTail] IN
       /\ table' = [table EXCEPT ![k] = 0]
       /\ node' = [node EXCEPT ![p] = table[k]]
       /\ Goto(p, IF table[k] # 0 THEN "remove" ELSE "check")
  /\ lruTail' = prev[lruTail]
  /\ next' = Assign(next, Field(prev[lruTail], 0))
  /\ UNCHANGED <<nodeKey, prev, lruHead, lastIndex, totalSizeOnDisk, diskVars,
                 lastUsed, drops>>

\* There is no second last node: the loop goes on without progress.
NothingToEvict(p) ==
  /\ pc[p] = "evict"
  /\ lruTail = 0 \/ prev[lruTail] = 0
  /\ Goto(p, "check")
  /\ UNCHANGED <<table, listVars, lastIndex, totalSizeOnDisk, diskVars, node,
                 lastUsed, drops>>

\* Mutant of RemoveEvicted: the total stays as it is.
RemoveUncounted(p) ==
  /\ pc[p] = "remove"
  /\ onDisk' = onDisk \ {node[p]}
  /\ node' = [node EXCEPT ![p] = 0]
  /\ Goto(p, "check")
  /\ UNCHANGED <<table, listVars, lastIndex, totalSizeOnDisk, dirs, lastUsed, drops>>

RemoveEvicted(p) ==
  /\ pc[p] = "remove"
  /\ onDisk' = onDisk \ {node[p]}
  /\ totalSizeOnDisk' = totalSizeOnDisk - Size[nodeKey[node[p]]]
  /\ node' = [node EXCEPT ![p] = 0]
  /\ Goto(p, "check")
  /\ UNCHANGED <<table, listVars, lastIndex, dirs, lastUsed, drops>>

-----------------------------------------------------------------------------
\* cacheDir is removed with all that is in it.  createSubdirsForFileCache then
\* fails, as os.Mkdir makes no parents, and its error is dropped; lruHead is
\* reset twice and lruTail not at all.
DropAll ==
  /\ drops < MaxDrops
  /\ drops' = drops + 1
  /\ totalSizeOnDisk' = 0
  /\ table' = [k \in Keys |-> 0]
  /\ lruHead' = 0
  /\ onDisk' = {}
  /\ dirs' = FALSE
  /\ lastUsed' = None
  /\ UNCHANGED <<nodeKey, next, prev, lruTail, lastIndex, procVars>>

SaveStep(p) ==
  \/ LinkToCache(p)
  \/ InsertEntry(p)
  \/ FindEntry(p)
  \/ RemoveDuplicate(p)

PurgeStep(p) ==
  \/ CheckLimit(p)
  \/ EvictTail(p)
  \/ NothingToEvict(p)
  \/ RemoveEvicted(p)

Next ==
  \/ \E k \in Keys : LookupHit(k)
  \/ \E p \in Workers, k \in Keys : TakeIndex(p, k)
  \/ \E p \in Workers : SaveStep(p)
  \/ StartPurge
  \/ \E p \in Procs : PurgeStep(p)
  \/ DropAll

Spec == Init /\ [][Next]_vars

\* Goroutines are scheduled; the mutex of Go does not starve them.
Fairness ==
  /\ \A p \in Workers : WF_vars(SaveStep(p))
  /\ \A p \in Procs : WF_vars(PurgeStep(p))

FairSpec == Spec /\ Fairness

-----------------------------------------------------------------------------
(* Properties                                                              *)

Entries == {table[k] : k \in Keys} \ {0}

\* The list, from the head on: as many nodes as there are entries.
NodeAt[i \in Nodes] ==
  IF i = 1 THEN lruHead
  ELSE IF NodeAt[i - 1] = 0 THEN 0 ELSE next[NodeAt[i - 1]]

(* The list and the table hold the same entries: the list is well linked   *)
(* both ways, and lruTail is its last node, whichever of its nodes lookups *)
(* move and whoever purges.                                                *)
ListIsTable ==
  drops = 0 =>
    LET len == Cardinality(Entries) IN
    /\ \A k \in Keys : table[k] # 0 => nodeKey[table[k]] = k
    /\ {NodeAt[i] : i \in 1 .. len} = Entries
    /\ \A i \in 1 .. len :
         /\ prev[NodeAt[i]] = IF i = 1 THEN 0 ELSE NodeAt[i - 1]
         /\ next[NodeAt[i]] = IF i = len THEN 0 ELSE NodeAt[i + 1]
    /\ lruTail = IF len = 0 THEN 0 ELSE NodeAt[len]

SizeOf(nodes) == MapThenSumSet(LAMBDA n : Size[nodeKey[n]], nodes)
InHand(stages) == {node[p] : p \in {q \in Procs : pc[q] \in stages}}

(* totalSizeOnDisk is the size of the entries, and of those which somebody *)
(* is just removing, though it changes outside of the mutex: no file is    *)
(* counted twice or forgotten, which would shrink the cache for good.      *)
SizeAccounted ==
  drops = 0 => totalSizeOnDisk = SizeOf(Entries) + SizeOf(InHand({"remove"}))

(* A file under cacheDir belongs to an entry or is in the hands of one     *)
(* goroutine, so that it will be purged some day, and an entry has its     *)
(* file.  DropAll breaks the latter for a file whose entry is not made     *)
(* yet: the entry it gets then is never served.                            *)
FilesMatchTable ==
  /\ onDisk \subseteq Entries \cup InHand({"insert", "duplicate", "remove"})
  /\ drops = 0 => Entries \subseteq onDisk

(* The limit is enforced in a bounded number of steps: "its size exceeds a *)
(* limit, the oldest accessed file is deleted" leaves no goroutine of an   *)
(* upload, and not the cron, in the purge for good.  It needs files that   *)
(* fit the soft limit, since the last entry is never removed.              *)
PurgeEnds ==
  \A p \in Procs :
    (pc[p] \in {"check", "evict", "remove"}) ~> (pc[p] = "idle" \/ drops > 0)

(* What is linked into the cache gets into its table, whoever else saves   *)
(* the same, purges or drops the caches meanwhile.                         *)
SavedIsCached ==
  \A p \in Workers, k \in Keys :
    (pc[p] = "insert" /\ nodeKey[node[p]] = k) ~> (table[k] # 0)

(* The comment on DropAllCaches says this takes no restart: what is saved  *)
(* afterwards finds the directory for it.                                  *)
SavedFindsItsDirectory ==
  \A p \in Workers : pc[p] = "link" => dirs

\* Keys in the order in which they would be evicted, the last one first.
KeyOrder ==
  [i \in 1 .. Cardinality(Entries) |->
     IF NodeAt[i] = 0 THEN None ELSE nodeKey[NodeAt[i]]]

(* The list is what an LRU cache promises, up to the first DropAll: it     *)
(* always evicts the key that was looked up or saved least recently, and   *)
(* never the one in use.                                                   *)
Lru == INSTANCE LruCache
         WITH order <- IF drops = 0 THEN KeyOrder ELSE <<>>,
              lastUsed <- IF drops = 0 THEN lastUsed ELSE None

ImplementsLru == Lru!Spec

=============================================================================
