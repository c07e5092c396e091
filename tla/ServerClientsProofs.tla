------------------------ MODULE ServerClientsProofs -------------------------
(***************************************************************************)
(* What the clients of a server can rely on: while it lets them and their  *)
(* sessions in, for any number of StartClient and StopClient calls and of  *)
(* sessions; and of an own pch, for any number of clients and uploads: it  *)
(* is compiled once and nobody gets half of it, as long as no two uploads  *)
(* are busy in its directory at the same time.                             *)
(***************************************************************************)
EXTENDS SessionAdmission, PchCompilation, FiniteSetTheorems, TLAPS

-----------------------------------------------------------------------------
(* Admission                                                               *)

(***************************************************************************)
(* Who is connected, and who may delete whom: a client is closed at most   *)
(* after it has left the table, and it is entered once, by its StartClient,*)
(* so it never comes back.                                                 *)
(***************************************************************************)
StorageInv ==
  /\ \A c \in Connected : pc[c] = "done"
  /\ table \in Connected \cup {None}
  /\ closed \subseteq Connected
  /\ \A p \in Deleters : victim[p] \in Connected \cup {None}
  /\ \A p \in Deleters : pc[p] = "close" => table # victim[p]
  /\ ListedIsOpen

(***************************************************************************)
(* A client that isn't at risk has been alone from its StartClient on.     *)
(***************************************************************************)
AloneInv ==
  /\ inactive \subseteq atRisk
  /\ \A c \in Starts \ atRisk :
       /\ c \in Busy \cup Connected => Busy \subseteq {c}
       /\ pc[c] = "insert" => workingDir = c
       /\ pc[c] \in {"close", "rename", "mkdir", "insert"} => table = None
       /\ c \in Connected => table \in {c, None}
  /\ ConnectedIsServed

(***************************************************************************)
(* What is known of the compiler was found by looking, and who probes for  *)
(* coverage holds the mutex until the outcome is stored.                   *)
(***************************************************************************)
CapabilityInv ==
  /\ byName = "unknown" \/ byName \in detected
  /\ AdmittedOnEvidence
  /\ \A s \in Sessions : step[s] \in {"probe", "probing"} => coverageMu = s
  /\ \A s \in Sessions : step[s] = "probing" => coverageByName = "unknown"
  /\ \/ probes = 0
     \/ probes = 1 /\ coverageByName # "unknown"
     \/ probes = 1 /\ \E s \in Sessions : step[s] = "probing"

Inv == TypeOK /\ StorageInv /\ AloneInv /\ CapabilityInv

-----------------------------------------------------------------------------
(***************************************************************************)
(* The types, action by action.                                            *)
(***************************************************************************)
LEMMA InitTypeOK == Init => TypeOK
<1> SUFFICES ASSUME Init PROVE TypeOK
  OBVIOUS
<1>1. StorageTypeOK
  BY ClientsStorageAssumption DEF Init, StorageInit, StorageTypeOK, Deleters
<1>2. \A s \in Sessions : step[s] = "idle"
  BY DEF Init
<1> QED
  BY <1>1, <1>2 DEF Init, TypeOK

LEMMA StorageTypes ==
  ASSUME TypeOK, StorageNext, UNCHANGED admissionVars
  PROVE  TypeOK'
<1>1. StorageTypeOK'
  <2> USE ClientsStorageAssumption DEF TypeOK, StorageTypeOK, Deleters, Connected, Busy, Go
  <2>1. CASE \E p \in Starts : StartClient(p)
    BY <2>1 DEF StartClient
  <2>2. CASE \E p \in Starts : Mkdir(p)
    BY <2>2 DEF Mkdir
  <2>3. CASE \E p \in Starts : Insert(p)
    BY <2>3 DEF Insert
  <2>4. CASE \E p \in Stops : StopClient(p)
    BY <2>4 DEF StopClient
  <2>5. CASE \E p \in Deleters : Unlist(p)
    BY <2>5 DEF Unlist
  <2>6. CASE \E p \in Deleters : CloseChan(p)
    BY <2>6 DEF CloseChan
  <2>7. CASE \E p \in Deleters : RemoveWorkingDir(p)
    BY <2>7 DEF RemoveWorkingDir
  <2>8. CASE \E c \in Starts : BecomeInactive(c)
    BY <2>8 DEF BecomeInactive
  <2>9. CASE DeleteInactiveClients
    BY <2>9 DEF DeleteInactiveClients
  <2>10. CASE \E d \in oldDirs : RemoveOldDir(d)
    BY <2>10 DEF RemoveOldDir
  <2>11. CASE StopAllClients
    BY <2>11 DEF StopAllClients
  <2> QED
    BY <2>1, <2>2, <2>3, <2>4, <2>5, <2>6, <2>7, <2>8, <2>9, <2>10, <2>11 DEF StorageNext
<1> QED
  BY <1>1 DEF TypeOK, admissionVars

LEMMA SessionTypes ==
  ASSUME TypeOK, NEW s \in Sessions, SessionStep(s)
  PROVE  TypeOK'
<1> USE SessionAdmissionAssumption, ClientsStorageAssumption
    DEF TypeOK, StorageTypeOK, storageVars, Step
<1>1. CASE FindClient(s)
  BY <1>1 DEF FindClient
<1>2. CASE CheckKnownCompiler(s)
  BY <1>2 DEF CheckKnownCompiler, AfterCxx, Suits
<1>3. CASE StartDetecting(s)
  BY <1>3 DEF StartDetecting
<1>4. CASE Detect(s)
  BY <1>4 DEF Detect, AfterCxx, Suits
<1>5. CASE EnterCoverage(s)
  BY <1>5 DEF EnterCoverage
<1>6. CASE CheckKnownCoverage(s)
  BY <1>6 DEF CheckKnownCoverage, AfterCoverage
<1>7. CASE StartProbingCoverage(s)
  BY <1>7 DEF StartProbingCoverage
<1>8. CASE EndProbingCoverage(s)
  BY <1>8 DEF EndProbingCoverage, AfterCoverage
<1>9. CASE CreateSession(s)
  BY <1>9 DEF CreateSession
<1>11. CASE MkdirAllForSession(s)
  <2>1. /\ step' = [step EXCEPT ![s] = "created"] /\ step[s] = "mkdir"
        /\ dirsMade' = dirsMade \cup {client[s]}
        /\ workingDir' = workingDir \/ workingDir' = Stray
        /\ UNCHANGED <<table, closed, oldDirs, inactive, pc, victim, reply, stopping, panicked,
                       atRisk, client, byName, detected, coverageMu, coverageByName, probes>>
    BY <1>11 DEF MkdirAllForSession
  <2>2. client[s] \in Starts
    BY <2>1
  <2> QED
    BY <2>1, <2>2
<1>10. CASE SeeClient(s)
  BY <1>10 DEF SeeClient, admissionVars
<1> QED
  BY <1>1, <1>2, <1>3, <1>4, <1>5, <1>6, <1>7, <1>8, <1>9, <1>10, <1>11 DEF SessionStep

LEMMA TypeOKNext == TypeOK /\ [Next]_vars => TypeOK'
<1> SUFFICES ASSUME TypeOK, [Next]_vars PROVE TypeOK'
  OBVIOUS
<1>1. CASE StorageNext /\ UNCHANGED admissionVars
  BY <1>1, StorageTypes
<1>2. CASE \E s \in Sessions : SessionStep(s)
  BY <1>2, SessionTypes
<1>3. CASE UNCHANGED vars
  BY <1>3 DEF vars, storageVars, admissionVars, TypeOK, StorageTypeOK
<1> QED
  BY <1>1, <1>2, <1>3 DEF Next

-----------------------------------------------------------------------------
(***************************************************************************)
(* Steps of the storage.  The table and the channels:                      *)
(***************************************************************************)
LEMMA StorageStaysListed ==
  ASSUME TypeOK, StorageInv, StorageNext
  PROVE  StorageInv'
<1> USE ClientsStorageAssumption
    DEF TypeOK, StorageTypeOK, StorageInv, ListedIsOpen, Connected, Deleters, Go
<1>1. CASE \E p \in Starts : StartClient(p)
  BY <1>1 DEF StartClient
<1>2. CASE \E p \in Starts : Mkdir(p)
  BY <1>2 DEF Mkdir
<1>3. CASE \E p \in Starts : Insert(p)
  BY <1>3 DEF Insert
<1>4. CASE \E p \in Stops : StopClient(p)
  BY <1>4 DEF StopClient
<1>5. CASE \E p \in Deleters : Unlist(p)
  BY <1>5 DEF Unlist
<1>6. CASE \E p \in Deleters : CloseChan(p)
  BY <1>6 DEF CloseChan
<1>7. CASE \E p \in Deleters : RemoveWorkingDir(p)
  BY <1>7 DEF RemoveWorkingDir
<1>8. CASE \E c \in Starts : BecomeInactive(c)
  BY <1>8 DEF BecomeInactive
<1>9. CASE DeleteInactiveClients
  BY <1>9 DEF DeleteInactiveClients
<1>10. CASE \E d \in oldDirs : RemoveOldDir(d)
  BY <1>10 DEF RemoveOldDir
<1>11. CASE StopAllClients
  BY <1>11 DEF StopAllClients
<1> QED
  BY <1>1, <1>2, <1>3, <1>4, <1>5, <1>6, <1>7, <1>8, <1>9, <1>10, <1>11 DEF StorageNext

(***************************************************************************)
(* The table and the working directory of who isn't at risk:               *)
(***************************************************************************)
LEMMA StorageLeavesAlone ==
  ASSUME TypeOK, StorageInv, AloneInv, StorageNext
  PROVE  AloneInv'
<1> USE ClientsStorageAssumption
    DEF TypeOK, StorageTypeOK, StorageInv, AloneInv, ConnectedIsServed, Connected, Busy,
        Deleters, Go
<1>1. CASE \E p \in Starts : StartClient(p)
  BY <1>1 DEF StartClient
<1>2. CASE \E p \in Starts : Mkdir(p)
  BY <1>2 DEF Mkdir
<1>3. CASE \E p \in Starts : Insert(p)
  BY <1>3 DEF Insert
<1>4. CASE \E p \in Stops : StopClient(p)
  BY <1>4 DEF StopClient
<1>5. CASE \E p \in Deleters : Unlist(p)
  BY <1>5 DEF Unlist
<1>6. CASE \E p \in Deleters : CloseChan(p)
  BY <1>6 DEF CloseChan
<1>7. CASE \E p \in Deleters : RemoveWorkingDir(p)
  BY <1>7 DEF RemoveWorkingDir
<1>8. CASE \E c \in Starts : BecomeInactive(c)
  BY <1>8 DEF BecomeInactive
<1>9. CASE DeleteInactiveClients
  BY <1>9 DEF DeleteInactiveClients
<1>10. CASE \E d \in oldDirs : RemoveOldDir(d)
  BY <1>10 DEF RemoveOldDir
<1>11. CASE StopAllClients
  BY <1>11 DEF StopAllClients
<1> QED
  BY <1>1, <1>2, <1>3, <1>4, <1>5, <1>6, <1>7, <1>8, <1>9, <1>10, <1>11 DEF StorageNext

-----------------------------------------------------------------------------
(***************************************************************************)
(* Steps of a session: of what the storage keeps they change the working   *)
(* directory, where there is none, and who is inactive.                    *)
(***************************************************************************)
LEMMA SessionsLeaveStorage ==
  ASSUME TypeOK, NEW s \in Sessions, SessionStep(s)
  PROVE  /\ UNCHANGED <<table, closed, oldDirs, pc, victim, reply, stopping, panicked, atRisk>>
         /\ inactive' \subseteq inactive
         /\ workingDir' = workingDir \/ workingDir = None
<1> USE DEF storageVars, SessionStep, FindClient, CheckKnownCompiler, StartDetecting, Detect,
            EnterCoverage, CheckKnownCoverage, StartProbingCoverage, EndProbingCoverage,
            CreateSession, MkdirAllForSession, SeeClient
<1> QED
  OBVIOUS

LEMMA SessionsLeaveClients ==
  ASSUME TypeOK, StorageInv, AloneInv, NEW s \in Sessions, SessionStep(s)
  PROVE  StorageInv' /\ AloneInv'
<1>1. StorageInv'
  BY SessionsLeaveStorage DEF StorageInv, ListedIsOpen, Connected
<1>2. inactive' \subseteq atRisk'
  BY SessionsLeaveStorage DEF AloneInv
<1>3. ConnectedIsServed'
  BY SessionsLeaveStorage, ClientsStorageAssumption
     DEF AloneInv, ConnectedIsServed, Connected
<1>4. ASSUME NEW c \in (Starts \ atRisk)'
      PROVE  (/\ c \in Busy \cup Connected => Busy \subseteq {c}
              /\ pc[c] = "insert" => workingDir = c
              /\ pc[c] \in {"close", "rename", "mkdir", "insert"} => table = None
              /\ c \in Connected => table \in {c, None})'
  BY <1>4, SessionsLeaveStorage, ClientsStorageAssumption DEF AloneInv, Busy, Connected
<1> QED
  BY <1>1, <1>2, <1>3, <1>4 DEF AloneInv

(***************************************************************************)
(* What a session's step does to the two caches of capabilities:           *)
(***************************************************************************)
LEMMA SessionsKeepCapabilities ==
  ASSUME TypeOK, CapabilityInv, NEW s \in Sessions, SessionStep(s)
  PROVE  CapabilityInv'
<1> USE SessionAdmissionAssumption DEF TypeOK, CapabilityInv, AdmittedOnEvidence, Step
<1>1. CASE FindClient(s)
  BY <1>1 DEF FindClient
<1>2. CASE CheckKnownCompiler(s)
  BY <1>2 DEF CheckKnownCompiler, AfterCxx, Suits
<1>3. CASE StartDetecting(s)
  BY <1>3 DEF StartDetecting
<1>4. CASE Detect(s)
  BY <1>4 DEF Detect, AfterCxx, Suits
<1>5. CASE EnterCoverage(s)
  BY <1>5 DEF EnterCoverage
<1>6. CASE CheckKnownCoverage(s)
  BY <1>6 DEF CheckKnownCoverage, AfterCoverage
<1>7. CASE StartProbingCoverage(s)
  BY <1>7 DEF StartProbingCoverage
<1>8. CASE EndProbingCoverage(s)
  BY <1>8 DEF EndProbingCoverage, AfterCoverage
<1>9. CASE CreateSession(s) \/ MkdirAllForSession(s)
  BY <1>9 DEF CreateSession, MkdirAllForSession
<1>10. CASE SeeClient(s)
  BY <1>10 DEF SeeClient, admissionVars
<1> QED
  BY <1>1, <1>2, <1>3, <1>4, <1>5, <1>6, <1>7, <1>8, <1>9, <1>10 DEF SessionStep

-----------------------------------------------------------------------------
(***************************************************************************)
(* The inductive invariant, and what it implies.                           *)
(***************************************************************************)
LEMMA InitInv == Init => Inv
<1> SUFFICES ASSUME Init PROVE Inv
  OBVIOUS
<1>1. Connected = {} /\ Busy = {}
  BY ClientsStorageAssumption DEF Init, StorageInit, Connected, Busy, Deleters
<1>2. StorageInv
  BY <1>1, ClientsStorageAssumption
     DEF Init, StorageInit, StorageInv, ListedIsOpen, Deleters
<1>3. AloneInv
  BY <1>1, ClientsStorageAssumption
     DEF Init, StorageInit, AloneInv, ConnectedIsServed, Deleters
<1>4. CapabilityInv
  BY DEF Init, CapabilityInv, AdmittedOnEvidence
<1> QED
  BY <1>2, <1>3, <1>4, InitTypeOK DEF Inv

LEMMA InvNext == Inv /\ [Next]_vars => Inv'
<1> SUFFICES ASSUME Inv, [Next]_vars PROVE Inv'
  OBVIOUS
<1>1. TypeOK'
  BY TypeOKNext DEF Inv
<1>2. CASE StorageNext /\ UNCHANGED admissionVars
  <2>1. CapabilityInv'
    BY <1>2 DEF Inv, CapabilityInv, AdmittedOnEvidence, admissionVars
  <2> QED
    BY <1>1, <1>2, <2>1, StorageStaysListed, StorageLeavesAlone DEF Inv
<1>3. CASE \E s \in Sessions : SessionStep(s)
  BY <1>1, <1>3, SessionsLeaveClients, SessionsKeepCapabilities DEF Inv
<1>4. CASE UNCHANGED vars
  BY <1>1, <1>4 DEF Inv, vars, storageVars, admissionVars, StorageInv, AloneInv,
     CapabilityInv, ListedIsOpen, ConnectedIsServed, AdmittedOnEvidence, Connected, Busy
<1> QED
  BY <1>2, <1>3, <1>4 DEF Next

LEMMA Invariance == Spec => []Inv
  BY InitInv, InvNext, PTL DEF Spec

(***************************************************************************)
(* For any number of StartClient, StopClient calls and sessions: whatever  *)
(* runs beside them, a client that a request finds has an open channel.    *)
(***************************************************************************)
THEOREM ListedAreOpen == Spec => []ListedIsOpen
<1>1. Inv => ListedIsOpen
  BY DEF Inv, StorageInv
<1> QED
  BY Invariance, <1>1, PTL

(***************************************************************************)
(* A client whose StartClient ran alone, and that was not stopped,         *)
(* replaced or inactive since, is the one in the table, with a working     *)
(* directory of its own.                                                   *)
(***************************************************************************)
THEOREM ConnectedAreServed == Spec => []ConnectedIsServed
<1>1. Inv => ConnectedIsServed
  BY DEF Inv, AloneInv
<1> QED
  BY Invariance, <1>1, PTL

(***************************************************************************)
(* No session is admitted while each look at the server's compiler has     *)
(* told that it is for another target, or that it is missing.              *)
(***************************************************************************)
THEOREM AdmissionNeedsEvidence == Spec => []AdmittedOnEvidence
<1>1. Inv => AdmittedOnEvidence
  BY DEF Inv, CapabilityInv
<1> QED
  BY Invariance, <1>1, PTL

(***************************************************************************)
(* The server's compiler is probed for coverage at most once, however many *)
(* coverage sessions come together.                                        *)
(***************************************************************************)
THEOREM OneCoverageProbe == Spec => []CoverageProbedOnce
<1>1. Inv => CoverageProbedOnce
  BY DEF Inv, CapabilityInv, CoverageProbedOnce
<1> QED
  BY Invariance, <1>1, PTL

-----------------------------------------------------------------------------
(* Own precompiled headers                                                 *)

(***************************************************************************)
(* Where the compilation stands.  Who is in rootDir is alone there; until  *)
(* a compiler has ended well there is no .gch, or only the one that is     *)
(* being written; from then on nobody enters rootDir any more.             *)
(***************************************************************************)
AloneInRootDir ==
  /\ \A u, v \in InRootDir : u = v
  /\ listed => InRootDir = {} /\ rootDir /\ pchFile \in finished
  /\ \A u \in Uploads :
       /\ stage[u] \in {"remove", "extract", "compile", "compiling"} => finished = {}
       /\ stage[u] \in {"extract", "compile"} => pchFile = NoPch
       /\ stage[u] \in {"compiling", "list"} => pchFile = u /\ u \in writers[u] /\ rootDir
       /\ stage[u] = "list" => u \in finished
       /\ writers[u] \subseteq {u}
  /\ \A u \in finished : finished = {u} /\ u \in writers[u] /\ (stage[u] = "list" \/ listed)

(***************************************************************************)
(* What clients have got of it.                                            *)
(***************************************************************************)
ClientsHavePch ==
  /\ \A c \in Clients : linked[c] # NoPch => linked[c] \in finished
  /\ \A c \in Clients \ linking : fileState[c] = "uploaded" => linked[c] # NoPch
  /\ again = {}

(***************************************************************************)
(* Whatever has crossed: src cache has the file, a session links it, and   *)
(* an upload gets beyond its link, only when it is listed.                 *)
(***************************************************************************)
UsedIsListed ==
  /\ inSrcCache \/ linking # {} => listed
  /\ \A u \in Uploads :
       stage[u] \in {"linked", "save"} => listed /\ linked[ClientOf[u]] # NoPch

PchInv ==
  /\ PchTypeOK
  /\ UsedIsListed
  /\ ~ crossed => AloneInRootDir /\ ClientsHavePch

-----------------------------------------------------------------------------
LEMMA PchInitInv == PchInit => PchInv
<1> SUFFICES ASSUME PchInit PROVE PchInv
  OBVIOUS
<1> USE PchAssumption DEF PchInit
<1>1. PchTypeOK
  BY DEF PchTypeOK
<1>2. InRootDir = {}
  BY DEF InRootDir
<1>3. AloneInRootDir
  BY <1>2 DEF AloneInRootDir
<1>4. ClientsHavePch
  BY DEF ClientsHavePch
<1>5. UsedIsListed
  BY DEF UsedIsListed
<1> QED
  BY <1>1, <1>3, <1>4, <1>5 DEF PchInv

LEMMA PchTypes ==
  ASSUME PchTypeOK, [PchNext]_pchVars
  PROVE  PchTypeOK'
<1> USE PchAssumption DEF PchTypeOK, Proceed, Fail
<1>1. CASE \E c \in Clients : StartFromSrcCache(c) \/ LinkFromSrcCache(c)
  BY <1>1 DEF StartFromSrcCache, LinkFromSrcCache, CanLink
<1>2. ASSUME NEW u \in Uploads, Receive(u) PROVE PchTypeOK'
  BY <1>2 DEF Receive
<1>3. ASSUME NEW u \in Uploads, Compile(u) PROVE PchTypeOK'
  <2>1. CASE StatRootDir(u)
    BY <2>1 DEF StatRootDir
  <2>2. CASE SeeListed(u)
    BY <2>2 DEF SeeListed
  <2>3. CASE GiveUpWaiting(u)
    BY <2>3 DEF GiveUpWaiting
  <2>4. CASE RemoveRootDir(u)
    BY <2>4 DEF RemoveRootDir
  <2>5. CASE ExtractAllDeps(u)
    BY <2>5 DEF ExtractAllDeps
  <2>6. CASE StartCompiling(u)
    BY <2>6 DEF StartCompiling
  <2>7. CASE CannotStart(u)
    BY <2>7 DEF CannotStart
  <2>8. CASE EndCompiling(u)
    BY <2>8 DEF EndCompiling
  <2>9. CASE AddToList(u)
    BY <2>9 DEF AddToList
  <2>10. CASE CreateHardLink(u)
    <3>1. ClientOf[u] \in Clients
      OBVIOUS
    <3>2. linked' \in [Clients -> Uploads \cup {NoPch}]
      BY <2>10, <3>1 DEF CreateHardLink, CanLink
    <3>3. fileState' \in [Clients -> {"created", "uploading", "uploaded", "error"}]
      BY <2>10, <3>1 DEF CreateHardLink, CanLink
    <3> QED
      BY <2>10, <3>2, <3>3 DEF CreateHardLink
  <2>11. CASE ParseFails(u)
    BY <2>11 DEF ParseFails
  <2>12. CASE FileUploaded(u)
    BY <2>12 DEF FileUploaded
  <2>13. CASE SaveFileToCache(u)
    BY <2>13 DEF SaveFileToCache
  <2> QED
    BY <1>3, <2>1, <2>2, <2>3, <2>4, <2>5, <2>6, <2>7, <2>8, <2>9, <2>10, <2>11, <2>12,
       <2>13 DEF Compile
<1>4. CASE UNCHANGED pchVars
  BY <1>4 DEF pchVars
<1> QED
  BY <1>1, <1>2, <1>3, <1>4 DEF PchNext

(***************************************************************************)
(* A history variable that is set stays set.                               *)
(***************************************************************************)
LEMMA CrossedStays ==
  ASSUME [PchNext]_pchVars, ~ crossed'
  PROVE  ~ crossed
  BY DEF PchNext, pchVars, Compile, StartFromSrcCache, LinkFromSrcCache, Receive,
     ParseFails, StatRootDir, SeeListed, GiveUpWaiting, RemoveRootDir, ExtractAllDeps,
     StartCompiling, CannotStart, EndCompiling, AddToList, CreateHardLink, FileUploaded,
     SaveFileToCache

-----------------------------------------------------------------------------
(***************************************************************************)
(* The directory, step by step.                                            *)
(***************************************************************************)
LEMMA AloneNext ==
  ASSUME PchInv, ~ crossed, ~ crossed', [PchNext]_pchVars
  PROVE  AloneInRootDir'
<1> USE PchAssumption DEF PchInv, PchTypeOK, Proceed, Fail, AloneInRootDir, InRootDir
<1>1. CASE \E c \in Clients : StartFromSrcCache(c) \/ LinkFromSrcCache(c)
  BY <1>1 DEF StartFromSrcCache, LinkFromSrcCache, CanLink
<1>2. ASSUME NEW u \in Uploads, Receive(u) PROVE AloneInRootDir'
  BY <1>2 DEF Receive
<1>3. ASSUME NEW u \in Uploads, Compile(u) PROVE AloneInRootDir'
  <2>1. CASE StatRootDir(u)
    <3>1. CASE rootDir
      BY <2>1, <3>1 DEF StatRootDir
    <3>2. CASE ~ rootDir
      <4>1. InRootDir = {} /\ ~ listed
        BY <2>1, <3>2 DEF StatRootDir
      <4>2. finished = {} /\ pchFile = NoPch
        BY <3>2, <4>1
      <4>3. stage' = [stage EXCEPT ![u] = "extract"]
        BY <2>1, <3>2 DEF StatRootDir
      <4>4. UNCHANGED <<rootDir, pchFile, writers, finished, listed>>
        BY <2>1 DEF StatRootDir
      <4>5. \A v \in Uploads \ {u} : stage'[v] \notin {"remove", "extract", "compile",
                                                   "compiling", "list"}
        BY <4>1, <4>3
      <4> QED
        BY <4>1, <4>2, <4>3, <4>4, <4>5
    <3> QED
      BY <3>1, <3>2
  <2>2. CASE SeeListed(u)
    BY <2>2 DEF SeeListed
  <2>3. CASE GiveUpWaiting(u)
    <3>1. InRootDir = {} /\ ~ listed
      BY <2>3 DEF GiveUpWaiting
    <3>2. finished = {}
      BY <3>1
    <3>3. stage' = [stage EXCEPT ![u] = "remove"]
      BY <2>3 DEF GiveUpWaiting
    <3>4. UNCHANGED <<rootDir, pchFile, writers, finished, listed>>
      BY <2>3 DEF GiveUpWaiting
    <3>5. \A v \in Uploads \ {u} : stage'[v] \notin {"remove", "extract", "compile",
                                                 "compiling", "list"}
      BY <3>1, <3>3
    <3> QED
      BY <3>1, <3>2, <3>3, <3>4, <3>5
  <2>4. CASE RemoveRootDir(u)
    BY <2>4 DEF RemoveRootDir
  <2>5. CASE ExtractAllDeps(u)
    BY <2>5 DEF ExtractAllDeps
  <2>6. CASE StartCompiling(u)
    BY <2>6 DEF StartCompiling
  <2>7. CASE CannotStart(u)
    BY <2>7 DEF CannotStart
  <2>8. CASE EndCompiling(u)
    BY <2>8 DEF EndCompiling
  <2>9. CASE AddToList(u)
    BY <2>9 DEF AddToList
  <2>10. CASE CreateHardLink(u)
    BY <2>10 DEF CreateHardLink, CanLink
  <2>11. CASE ParseFails(u)
    BY <2>11 DEF ParseFails
  <2>12. CASE FileUploaded(u)
    BY <2>12 DEF FileUploaded
  <2>13. CASE SaveFileToCache(u)
    BY <2>13 DEF SaveFileToCache
  <2> QED
    BY <1>3, <2>1, <2>2, <2>3, <2>4, <2>5, <2>6, <2>7, <2>8, <2>9, <2>10, <2>11, <2>12,
       <2>13 DEF Compile
<1>4. CASE UNCHANGED pchVars
  BY <1>4 DEF pchVars
<1> QED
  BY <1>1, <1>2, <1>3, <1>4 DEF PchNext

(***************************************************************************)
(* What clients get, step by step: finished never loses an upload.         *)
(***************************************************************************)
LEMMA ClientsNext ==
  ASSUME PchInv, ~ crossed, ~ crossed', [PchNext]_pchVars
  PROVE  ClientsHavePch'
<1> USE PchAssumption DEF PchInv, PchTypeOK, Proceed, Fail, AloneInRootDir, ClientsHavePch,
        UsedIsListed
<1>1. CASE \E c \in Clients : StartFromSrcCache(c) \/ LinkFromSrcCache(c)
  BY <1>1 DEF StartFromSrcCache, LinkFromSrcCache, CanLink
<1>2. ASSUME NEW u \in Uploads, Receive(u) PROVE ClientsHavePch'
  BY <1>2 DEF Receive
<1>3. ASSUME NEW u \in Uploads, Compile(u) PROVE ClientsHavePch'
  <2>1. CASE StatRootDir(u)
    BY <2>1 DEF StatRootDir
  <2>2. CASE SeeListed(u)
    BY <2>2 DEF SeeListed
  <2>3. CASE GiveUpWaiting(u)
    BY <2>3 DEF GiveUpWaiting
  <2>4. CASE RemoveRootDir(u)
    BY <2>4 DEF RemoveRootDir
  <2>5. CASE ExtractAllDeps(u)
    BY <2>5 DEF ExtractAllDeps
  <2>6. CASE StartCompiling(u)
    BY <2>6 DEF StartCompiling
  <2>7. CASE CannotStart(u)
    BY <2>7 DEF CannotStart
  <2>8. CASE EndCompiling(u)
    BY <2>8 DEF EndCompiling
  <2>9. CASE AddToList(u)
    BY <2>9 DEF AddToList
  <2>10. CASE CreateHardLink(u)
    BY <2>10 DEF CreateHardLink, CanLink
  <2>11. CASE ParseFails(u)
    BY <2>11 DEF ParseFails
  <2>12. CASE FileUploaded(u)
    BY <2>12 DEF FileUploaded
  <2>13. CASE SaveFileToCache(u)
    BY <2>13 DEF SaveFileToCache
  <2> QED
    BY <1>3, <2>1, <2>2, <2>3, <2>4, <2>5, <2>6, <2>7, <2>8, <2>9, <2>10, <2>11, <2>12,
       <2>13 DEF Compile
<1>4. CASE UNCHANGED pchVars
  BY <1>4 DEF pchVars
<1> QED
  BY <1>1, <1>2, <1>3, <1>4 DEF PchNext

(***************************************************************************)
(* The list only grows, and a link is never taken away.                    *)
(***************************************************************************)
LEMMA UsedNext ==
  ASSUME PchInv, [PchNext]_pchVars
  PROVE  UsedIsListed'
<1> USE PchAssumption DEF PchInv, PchTypeOK, UsedIsListed, Proceed, Fail
<1>1. CASE \E c \in Clients : StartFromSrcCache(c) \/ LinkFromSrcCache(c)
  BY <1>1 DEF StartFromSrcCache, LinkFromSrcCache, CanLink
<1>2. ASSUME NEW u \in Uploads, Receive(u) PROVE UsedIsListed'
  BY <1>2 DEF Receive
<1>3. ASSUME NEW u \in Uploads, Compile(u) PROVE UsedIsListed'
  <2>1. CASE ParseFails(u) \/ StatRootDir(u) \/ SeeListed(u) \/ GiveUpWaiting(u)
               \/ RemoveRootDir(u) \/ ExtractAllDeps(u)
    BY <2>1 DEF ParseFails, StatRootDir, SeeListed, GiveUpWaiting, RemoveRootDir,
       ExtractAllDeps
  <2>2. CASE StartCompiling(u) \/ CannotStart(u) \/ EndCompiling(u) \/ AddToList(u)
    BY <2>2 DEF StartCompiling, CannotStart, EndCompiling, AddToList
  <2>3. CASE CreateHardLink(u)
    BY <2>3 DEF CreateHardLink, CanLink
  <2>4. CASE FileUploaded(u) \/ SaveFileToCache(u)
    BY <2>4 DEF FileUploaded, SaveFileToCache
  <2> QED
    BY <1>3, <2>1, <2>2, <2>3, <2>4 DEF Compile
<1>4. CASE UNCHANGED pchVars
  BY <1>4 DEF pchVars
<1> QED
  BY <1>1, <1>2, <1>3, <1>4 DEF PchNext

LEMMA PchInvariance == PchSpec => []PchInv
<1>1. PchInv /\ [PchNext]_pchVars => PchInv'
  <2> SUFFICES ASSUME PchInv, [PchNext]_pchVars PROVE PchInv'
    OBVIOUS
  <2>1. PchTypeOK'
    BY PchTypes DEF PchInv
  <2>2. ~ crossed' => AloneInRootDir' /\ ClientsHavePch'
    BY CrossedStays, AloneNext, ClientsNext
  <2> QED
    BY <2>1, <2>2, UsedNext DEF PchInv
<1> QED
  BY PchInitInv, <1>1, PTL DEF PchSpec

-----------------------------------------------------------------------------
(***************************************************************************)
(* Unless two uploads were busy in rootDir at the same time, a .gch linked *)
(* into the directory of a client is the whole work of one compiler.       *)
(***************************************************************************)
THEOREM LinkedAreComplete == PchSpec => []LinkedIsComplete
<1>1. PchInv => LinkedIsComplete
  BY DEF PchInv, PchTypeOK, AloneInRootDir, ClientsHavePch, LinkedIsComplete
<1> QED
  BY PchInvariance, <1>1, PTL

(***************************************************************************)
(* Under the same condition a .nocc-pch that is taken for uploaded has its *)
(* .gch beside it, except while the session that took it from src cache    *)
(* has yet to make the link (nocc-server.go:188-191).                      *)
(***************************************************************************)
THEOREM UploadedHavePch == PchSpec => []UploadedHasPch
<1>1. PchInv => UploadedHasPch
  BY DEF PchInv, ClientsHavePch, UploadedHasPch
<1> QED
  BY PchInvariance, <1>1, PTL

(***************************************************************************)
(* Under the same condition one compiler at most ends well, however many   *)
(* clients upload the file, and nobody compiles what is listed.            *)
(***************************************************************************)
THEOREM OnlyCompiledOnce == PchSpec => []CompiledOnce
<1>1. PchInv => CompiledOnce
  <2> SUFFICES ASSUME PchInv, ~ crossed PROVE Cardinality(finished) <= 1 /\ again = {}
    BY DEF CompiledOnce
  <2>1. CASE finished = {}
    BY <2>1, FS_EmptySet DEF PchInv, ClientsHavePch
  <2>2. ASSUME NEW u \in finished PROVE Cardinality(finished) <= 1 /\ again = {}
    <3>1. finished = {u} /\ again = {}
      BY <2>2 DEF PchInv, AloneInRootDir, ClientsHavePch
    <3>2. Cardinality({u}) = 1
      BY FS_Singleton
    <3> QED
      BY <3>1, <3>2
  <2> QED
    BY <2>1, <2>2
<1> QED
  BY PchInvariance, <1>1, PTL

=============================================================================
