------------------------ MODULE RemoteAttemptsProofs ------------------------
(***************************************************************************)
(* Attempts on one remote, for any number of attempts, files, failed       *)
(* uploads and broken streams, and any capacity of the queue.              *)
(***************************************************************************)
EXTENDS RemoteAttempts, FiniteSetTheorems, TLAPS

Unregistered == {"new", "chosen", "ended"}
NoSession == {"new", "chosen", "registered", "collecting", "asking"}
NothingQueued == NoSession \cup {"started", "checked", "counted"}
NotAdded == {"new", "chosen", "registered"}

Typed == TypeOK /\ IsFiniteSet(active)

(***************************************************************************)
(* What the two goroutines have in hand, and when the remote is known to   *)
(* be down.                                                                *)
(***************************************************************************)
Hands ==
  /\ uploading # None
       <=> upload \in {"sending", "recreating", "unauthenticated", "givenUp"}
  /\ receiving # None <=> recv = "saving"
  /\ isCleared => isUnavailable
  /\ upload \in {"unauthenticated", "givenUp"} => isUnavailable

Registered == \A i \in Attempts : i \in active <=> pc[i] \notin Unregistered

(***************************************************************************)
(* Only attempts that are registered are interrupted: Daemon.mu is held.   *)
(***************************************************************************)
Interrupts ==
  /\ \A p \in Interrupters : interrupting[p] \in Seq(active)
  /\ interrupting["recv"] # <<>> => recv \in {"recreating", "quitting"}
  /\ "recv" \in marking => recv = "quitting"

(***************************************************************************)
(* Files of an attempt that the server has, or which are on their way.     *)
(***************************************************************************)
OnTheWay(i) == uploaded[i] + InQueue(i) + InHand(i)

Files ==
  \A i \in Attempts :
    /\ pc[i] \in NothingQueued => queued[i] = 0 /\ wgUpload[i] = 0
    /\ OnTheWay(i) <= queued[i] /\ queued[i] <= nFiles[i]

Sessions ==
  \A i \in Attempts :
    /\ pc[i] \in NoSession => session[i] = "none"
    /\ pc[i] \notin NoSession \cup {"leaving", "ended"} => session[i] # "none"
    /\ session[i] = "over" => uploaded[i] = nFiles[i]

(***************************************************************************)
(* wgRecv is what doneRecv says, once it was added to.                     *)
(***************************************************************************)
Groups ==
  Running =>
    \A i \in Attempts :
      /\ pc[i] \in NotAdded => wgRecv[i] = 0 /\ ~ doneRecv[i]
      /\ pc[i] \notin NotAdded \cup {"ended"} => (wgRecv[i] = 0 <=> doneRecv[i])
      /\ doneRecv[i] => wgRecv[i] = 0 /\ (err[i] \/ i \in received)

(***************************************************************************)
(* A session has one reply at most.                                        *)
(***************************************************************************)
Replies ==
  /\ \A i \in Attempts :
       i \in inFlight \cup lost \cup received \/ i = receiving => session[i] = "over"
  /\ receiving \notin inFlight \cup lost \cup received
  /\ inFlight \cap lost = {} /\ inFlight \cap received = {} /\ lost \cap received = {}

(***************************************************************************)
(* An attempt is replied to only with a reply.                             *)
(***************************************************************************)
Replied ==
  \A i \in Attempts :
    /\ result[i] = "replied" => i \in received
    /\ result[i] = "none" <=> pc[i] \notin {"leaving", "ended"}

(***************************************************************************)
(* Whoever lost its .o has failed by itself, has been told, or is about to *)
(* be told by the goroutine that receives.                                 *)
(***************************************************************************)
InterruptedBy(p, i) == \E k \in DOMAIN interrupting[p] : interrupting[p][k] = i

Told(i) == result[i] = "failed" \/ doneRecv[i]

Losing ==
  Running =>
    \A i \in lost :
      /\ recv \in {"listening", "saving"} => Told(i)
      /\ recv = "broken" => Told(i) \/ i \in active
      /\ recv = "recreating" => Told(i) \/ InterruptedBy("recv", i)

Inv ==
  /\ Typed /\ Hands /\ Registered /\ Interrupts /\ Files /\ Sessions /\ Groups
  /\ Replies /\ Losing /\ Replied /\ UploadsAreOwed

-----------------------------------------------------------------------------
(***************************************************************************)
(* How often an attempt is in the queue.                                   *)
(***************************************************************************)
LEMMA Counted ==
  ASSUME NEW s \in Seq(Attempts), NEW i
  PROVE  /\ IsFiniteSet({k \in DOMAIN s : s[k] = i})
         /\ Cardinality({k \in DOMAIN s : s[k] = i}) \in Nat
<1>1. IsFiniteSet(DOMAIN s)
  BY FS_Interval
<1>2. IsFiniteSet({k \in DOMAIN s : s[k] = i})
  BY <1>1, FS_Subset
<1> QED
  BY <1>2, FS_CardinalityType

LEMMA Appended ==
  ASSUME chanToUpload \in Seq(Attempts), NEW j \in Attempts, NEW i \in Attempts,
         chanToUpload' = Append(chanToUpload, j)
  PROVE  /\ chanToUpload' \in Seq(Attempts) /\ Len(chanToUpload') = Len(chanToUpload) + 1
         /\ InQueue(i)' = InQueue(i) + (IF i = j THEN 1 ELSE 0)
<1> DEFINE at == {k \in DOMAIN chanToUpload : chanToUpload[k] = i}
           n == Len(chanToUpload) + 1
<1>1. /\ Len(chanToUpload') = n /\ chanToUpload'[n] = j /\ chanToUpload' \in Seq(Attempts)
      /\ DOMAIN chanToUpload' = DOMAIN chanToUpload \cup {n} /\ n \notin DOMAIN chanToUpload
  OBVIOUS
<1>2. \A k \in DOMAIN chanToUpload : chanToUpload'[k] = chanToUpload[k]
  OBVIOUS
<1>3. IsFiniteSet(at) /\ Cardinality(at) \in Nat /\ InQueue(i) = Cardinality(at)
  BY Counted DEF InQueue
<1>4. InQueue(i)' = Cardinality({k \in DOMAIN chanToUpload' : chanToUpload'[k] = i})
  BY DEF InQueue
<1>5. {k \in DOMAIN chanToUpload' : chanToUpload'[k] = i} = IF i = j THEN at \cup {n} ELSE at
  BY <1>1, <1>2
<1>6. n \notin at
  BY <1>1
<1> HIDE DEF at, n
<1>7. Cardinality(at \cup {n}) = Cardinality(at) + 1
  BY <1>3, <1>6, FS_AddElement
<1>8. InQueue(i)' = InQueue(i) + (IF i = j THEN 1 ELSE 0)
  <2>1. CASE i = j
    BY <1>3, <1>4, <1>5, <1>7, <2>1
  <2>2. CASE i # j
    <3>1. InQueue(i)' = Cardinality(at)
      BY <1>4, <1>5, <2>2
    <3> QED
      BY <1>3, <3>1, <2>2
  <2> QED
    BY <2>1, <2>2
<1> QED
  BY <1>1, <1>8 DEF n

LEMMA Shortened ==
  ASSUME chanToUpload \in Seq(Attempts), chanToUpload # <<>>, NEW i \in Attempts,
         chanToUpload' = Tail(chanToUpload)
  PROVE  /\ chanToUpload' \in Seq(Attempts) /\ Len(chanToUpload') = Len(chanToUpload) - 1
         /\ Head(chanToUpload) \in Attempts
         /\ InQueue(i) = InQueue(i)' + (IF i = Head(chanToUpload) THEN 1 ELSE 0)
<1> DEFINE at == {k \in DOMAIN chanToUpload : chanToUpload[k] = i}
           rest == {k \in DOMAIN Tail(chanToUpload) : Tail(chanToUpload)[k] = i}
           shift == [k \in rest |-> k + 1]
<1>1. /\ Len(chanToUpload) \in Nat \ {0} /\ Head(chanToUpload) = chanToUpload[1]
      /\ DOMAIN chanToUpload = 1 .. Len(chanToUpload)
      /\ DOMAIN Tail(chanToUpload) = 1 .. Len(chanToUpload) - 1
      /\ Tail(chanToUpload) \in Seq(Attempts)
      /\ Len(Tail(chanToUpload)) = Len(chanToUpload) - 1
      /\ Head(chanToUpload) \in Attempts
  OBVIOUS
<1>2. \A k \in DOMAIN Tail(chanToUpload) : Tail(chanToUpload)[k] = chanToUpload[k + 1]
  BY <1>1
<1>3. /\ IsFiniteSet(at) /\ Cardinality(at) \in Nat /\ InQueue(i) = Cardinality(at)
      /\ IsFiniteSet(rest) /\ Cardinality(rest) \in Nat
  BY <1>1, Counted DEF InQueue
<1>4. InQueue(i)' = Cardinality(rest)
  BY DEF InQueue
<1>5. shift \in [rest -> at \ {1}]
  BY <1>1, <1>2
<1>6. \A k \in rest, l \in rest : shift[k] = shift[l] => k = l
  BY <1>1
<1>7. ASSUME NEW m \in at \ {1} PROVE m - 1 \in rest /\ shift[m - 1] = m
  BY <1>1, <1>2
<1>8. shift \in Bijection(rest, at \ {1})
  BY <1>5, <1>6, <1>7 DEF Bijection, Injection, Surjection, IsInjective
<1> HIDE DEF shift, rest
<1>9. Cardinality(at \ {1}) = Cardinality(rest)
  BY <1>3, <1>8, FS_Bijection DEF ExistsBijection
<1>10. 1 \in at <=> i = Head(chanToUpload)
  BY <1>1
<1> HIDE DEF at
<1>11. Cardinality(at \ {1}) = IF 1 \in at THEN Cardinality(at) - 1 ELSE Cardinality(at)
  BY <1>3, FS_RemoveElement
<1> QED
  BY <1>1, <1>3, <1>4, <1>9, <1>10, <1>11

(***************************************************************************)
(* Every order of a set has all of it.                                     *)
(***************************************************************************)
LEMMA Ordered ==
  ASSUME NEW S, IsFiniteSet(S), NEW order \in SetToSeqs(S)
  PROVE  order \in Seq(S) /\ \A x \in S : \E k \in DOMAIN order : order[k] = x
<1> DEFINE D == 1 .. Cardinality(S)
<1>1. Cardinality(S) \in Nat
  BY FS_CardinalityType
<1>2. order \in [D -> S] /\ \A i, j \in D : i # j => order[i] # order[j]
  BY DEF SetToSeqs
<1>3. order \in Seq(S)
  BY <1>1, <1>2
<1>4. order \in Injection(D, S)
  BY <1>2 DEF Injection, IsInjective
<1>5. Cardinality(D) = Cardinality(S)
  BY <1>1, FS_Interval
<1>6. order \in Surjection(D, S)
  BY <1>4, <1>5, FS_Injection
<1> QED
  BY <1>3, <1>6 DEF Surjection

-----------------------------------------------------------------------------
GroupTypes ==
  /\ waitUploads \in [Attempts -> 0 .. MaxFiles]
  /\ wgUpload \in [Attempts -> 0 .. MaxFiles]
  /\ wgRecv \in [Attempts -> 0 .. 1]
  /\ doneRecv \in [Attempts -> BOOLEAN]
  /\ err \in [Attempts -> BOOLEAN]
  /\ panicked \in {"no", "upload", "recv"}

(***************************************************************************)
(* What the two calls that release a WaitGroup do.                         *)
(***************************************************************************)
LEMMA UploadReleased ==
  ASSUME GroupTypes, NEW i \in Attempts, NEW failed \in BOOLEAN, DoneUploadFile(i, failed)
  PROVE  /\ GroupTypes'
         /\ UNCHANGED <<wgRecv, doneRecv>>
         /\ err' = [err EXCEPT ![i] = @ \/ failed]
         /\ waitUploads'[i] = (IF waitUploads[i] = 0 THEN 0 ELSE waitUploads[i] - 1)
         /\ \A j \in Attempts : j # i => waitUploads'[j] = waitUploads[j]
         /\ \A j \in Attempts : wgUpload[j] = 0 => wgUpload'[j] = 0
<1> USE RemoteAttemptsAssumption DEF GroupTypes, DoneUploadFile
<1>1. CASE waitUploads[i] = 0 /\ UNCHANGED <<waitUploads, wgUpload, panicked>>
  BY <1>1
<1>2. CASE waitUploads[i] > 0
  BY <1>2
<1> QED
  BY <1>1, <1>2

LEMMA ObjReleased ==
  ASSUME GroupTypes, NEW i \in Attempts, NEW failed \in BOOLEAN, DoneRecvObj(i, failed)
  PROVE  /\ GroupTypes'
         /\ UNCHANGED <<waitUploads, wgUpload>>
         /\ doneRecv' = [doneRecv EXCEPT ![i] = TRUE]
         /\ doneRecv[i] => UNCHANGED <<err, wgRecv, panicked>>
         /\ ~ doneRecv[i] => /\ err' = [err EXCEPT ![i] = @ \/ failed]
                             /\ wgRecv'[i] = 0
                             /\ wgRecv[i] = 0 => panicked' = "recv"
                             /\ wgRecv[i] # 0 => UNCHANGED panicked
         /\ \A j \in Attempts : j # i => wgRecv'[j] = wgRecv[j]
<1> USE RemoteAttemptsAssumption DEF GroupTypes, DoneRecvObj
<1>1. CASE doneRecv[i]
  BY <1>1
<1>2. CASE ~ doneRecv[i] /\ wgRecv[i] = 0
  <2>1. doneRecv' = [doneRecv EXCEPT ![i] = TRUE] /\ err' = [err EXCEPT ![i] = @ \/ failed]
    BY <1>2
  <2>2. doneRecv' \in [Attempts -> BOOLEAN] /\ err' \in [Attempts -> BOOLEAN]
    BY <2>1
  <2>3. panicked' = "recv" /\ UNCHANGED wgRecv
    BY <1>2
  <2> QED
    BY <1>2, <2>1, <2>2, <2>3
<1>3. CASE ~ doneRecv[i] /\ wgRecv[i] > 0
  <2>1. wgRecv[i] = 1 /\ wgRecv' = [wgRecv EXCEPT ![i] = @ - 1] /\ panicked' = panicked
    BY <1>3
  <2>2. /\ wgRecv' \in [Attempts -> 0 .. 1] /\ wgRecv'[i] = 0
        /\ \A j \in Attempts : j # i => wgRecv'[j] = wgRecv[j]
    BY <2>1
  <2>3. doneRecv' = [doneRecv EXCEPT ![i] = TRUE] /\ err' = [err EXCEPT ![i] = @ \/ failed]
    BY <1>3
  <2>4. doneRecv' \in [Attempts -> BOOLEAN] /\ err' \in [Attempts -> BOOLEAN]
    BY <2>3
  <2> QED
    BY <1>3, <2>1, <2>2, <2>3, <2>4
<1> QED
  BY <1>1, <1>2, <1>3

LEMMA TypesOf ==
  ASSUME Typed, NEW i \in Attempts
  PROVE  /\ pc[i] \in Stages
         /\ nFiles[i] \in 0 .. MaxFiles /\ nFiles[i] \in Nat
         /\ queued[i] \in 0 .. MaxFiles /\ queued[i] \in Nat
         /\ uploaded[i] \in 0 .. MaxFiles /\ uploaded[i] \in Nat
         /\ waitUploads[i] \in 0 .. MaxFiles /\ waitUploads[i] \in Nat
         /\ reporting[i] \in Nat
         /\ wgRecv[i] \in {0, 1}
         /\ doneRecv[i] \in BOOLEAN /\ err[i] \in BOOLEAN
         /\ session[i] \in {"none", "open", "over"}
<1>1. /\ nFiles[i] \in 0 .. MaxFiles /\ queued[i] \in 0 .. MaxFiles
      /\ uploaded[i] \in 0 .. MaxFiles /\ waitUploads[i] \in 0 .. MaxFiles
      /\ wgRecv[i] \in 0 .. 1
  BY DEF Typed, TypeOK
<1>2. /\ pc[i] \in Stages /\ session[i] \in {"none", "open", "over"}
      /\ doneRecv[i] \in BOOLEAN /\ err[i] \in BOOLEAN /\ reporting[i] \in Nat
  BY DEF Typed, TypeOK
<1> QED
  BY <1>1, <1>2, RemoteAttemptsAssumption

LEMMA OnTheWayIs ==
  ASSUME Typed, NEW i \in Attempts
  PROVE  InQueue(i) \in Nat /\ InHand(i) \in {0, 1} /\ OnTheWay(i) \in Nat
<1>1. InQueue(i) \in Nat
  BY Counted DEF InQueue, Typed, TypeOK
<1>2. InHand(i) \in {0, 1}
  BY DEF InHand
<1>3. uploaded[i] \in Nat
  BY TypesOf
<1> QED
  BY <1>1, <1>2, <1>3 DEF OnTheWay

(***************************************************************************)
(* A file in hand is not yet counted.                                      *)
(***************************************************************************)
LEMMA InHandIs ==
  ASSUME Inv, uploading # None
  PROVE  uploading \in Attempts /\ uploaded[uploading] < nFiles[uploading]
<1>1. Typed /\ uploading \in Attempts
  BY DEF Inv, Typed, TypeOK
<1>2. InHand(uploading) = 1
  BY DEF InHand
<1>3. OnTheWay(uploading) <= queued[uploading] /\ queued[uploading] <= nFiles[uploading]
  BY <1>1 DEF Inv, Files
<1>4. /\ queued[uploading] \in Nat /\ nFiles[uploading] \in Nat
      /\ uploaded[uploading] \in Nat
  BY <1>1, TypesOf
<1>5. InQueue(uploading) \in Nat
  BY <1>1, OnTheWayIs
<1> QED
  BY <1>1, <1>2, <1>3, <1>4, <1>5 DEF OnTheWay

(***************************************************************************)
(* Whoever interrupts has all attempts it is to interrupt before it.       *)
(***************************************************************************)
LEMMA InterruptIs ==
  ASSUME Typed, NEW p \in Interrupters, NEW S, S \subseteq active, Interrupt(p, S)
  PROVE  /\ interrupting' \in [Interrupters -> Seq(Attempts)]
         /\ interrupting'[p] \in Seq(S)
         /\ \A q \in Interrupters : q # p => interrupting'[q] = interrupting[q]
         /\ \A x \in S : InterruptedBy(p, x)'
<1>1. IsFiniteSet(S) /\ S \subseteq Attempts
  BY FS_Subset DEF Typed, TypeOK
<1>2. PICK order \in SetToSeqs(S) : interrupting' = [interrupting EXCEPT ![p] = order]
  BY DEF Interrupt
<1>3. order \in Seq(S) /\ \A x \in S : \E k \in DOMAIN order : order[k] = x
  BY <1>1, <1>2, Ordered
<1>4. order \in Seq(Attempts)
  BY <1>1, <1>3
<1>5. interrupting \in [Interrupters -> Seq(Attempts)]
  BY DEF Typed, TypeOK
<1>6. interrupting'[p] = order
  BY <1>2, <1>5
<1> QED
  BY <1>2, <1>3, <1>4, <1>5, <1>6 DEF InterruptedBy

LEMMA BecameUnavailable ==
  ASSUME Typed, NEW p \in Interrupters, OnRemoteBecameUnavailable(p)
  PROVE  /\ isUnavailable' = TRUE
         /\ marking' \subseteq Interrupters /\ marking' \subseteq marking \cup {p}
<1>1. isUnavailable \in BOOLEAN /\ marking \subseteq Interrupters
  BY DEF Typed, TypeOK
<1> QED
  BY <1>1 DEF OnRemoteBecameUnavailable

(***************************************************************************)
(* Types.                                                                  *)
(***************************************************************************)
LEMMA GroupsTyped == Typed => GroupTypes
  BY DEF Typed, TypeOK, GroupTypes

LEMMA AttemptTyped ==
  ASSUME Inv, NEW i \in Attempts, Attempt(i) \/ Register(i) \/ Unregister(i)
  PROVE  Typed'
<1> USE DEF attemptVars, groupVars, uploadVars, recvVars, remoteVars, serverVars
<1>1. Typed /\ TypeOK /\ IsFiniteSet(active)
  BY DEF Inv, Typed
<1>2. CASE \/ Choose(i) \/ IncludesCollected(i) \/ SessionNotStarted(i)
           \/ CheckAvailable(i) \/ WaitUploads(i) \/ WaitForCompiledObj(i)
  BY <1>1, <1>2 DEF Choose, IncludesCollected, SessionNotStarted, CheckAvailable,
     WaitUploads, WaitForCompiledObj, Fail, Goto, Typed, TypeOK, Stages
<1>3. CASE Register(i)
  <2>1. active' = active \cup {i}
    BY <1>3 DEF Register
  <2>2. IsFiniteSet(active') /\ active' \subseteq Attempts
    BY <1>1, <2>1, FS_AddElement DEF TypeOK
  <2> QED
    BY <1>1, <1>3, <2>2 DEF Register, Goto, Typed, TypeOK, Stages
<1>4. CASE Unregister(i)
  <2>1. active' = active \ {i}
    BY <1>4 DEF Unregister
  <2>2. IsFiniteSet(active') /\ active' \subseteq Attempts
    BY <1>1, <2>1, FS_RemoveElement DEF TypeOK
  <2> QED
    BY <1>1, <1>4, <2>2 DEF Unregister, Goto, Typed, TypeOK, Stages
<1>5. CASE AddRecv(i)
  <2>1. Running /\ wgRecv[i] = 0
    BY <1>5 DEF AddRecv, At, Inv, Groups, NotAdded
  <2>2. wgRecv' = [wgRecv EXCEPT ![i] = @ + 1]
    BY <1>5 DEF AddRecv
  <2>3. wgRecv' \in [Attempts -> 0 .. 1]
    BY <1>1, <2>1, <2>2 DEF TypeOK
  <2> QED
    BY <1>1, <1>5, <2>3 DEF AddRecv, Goto, Typed, TypeOK, Stages
<1>6. CASE StartCompilationSession(i)
  <2>1. nFiles' \in [Attempts -> 0 .. MaxFiles]
    BY <1>1, <1>6 DEF StartCompilationSession, TypeOK
  <2>2. session' \in [Attempts -> {"none", "open", "over"}]
    BY <1>1, <1>6 DEF StartCompilationSession, TypeOK
  <2> QED
    BY <1>1, <1>6, <2>1, <2>2 DEF StartCompilationSession, Goto, Typed, TypeOK, Stages
<1>7. CASE SetWaitUploads(i)
  BY <1>1, <1>7 DEF SetWaitUploads, Goto, Typed, TypeOK, Stages
<1>8. CASE AddUploads(i)
  <2>1. wgUpload[i] = 0
    BY <1>8 DEF AddUploads, At, Inv, Files, NothingQueued
  <2>2. waitUploads[i] \in 0 .. MaxFiles /\ wgUpload[i] + waitUploads[i] = waitUploads[i]
    BY <1>1, <2>1, TypesOf
  <2>3. wgUpload' = [wgUpload EXCEPT ![i] = waitUploads[i]]
    BY <1>8, <2>2 DEF AddUploads
  <2>4. wgUpload' \in [Attempts -> 0 .. MaxFiles]
    BY <1>1, <2>2, <2>3 DEF TypeOK
  <2> QED
    BY <1>1, <1>8, <2>4 DEF AddUploads, Goto, Typed, TypeOK, Stages
<1>9. CASE StartUploadingFile(i)
  <2>1. chanToUpload' = Append(chanToUpload, i) /\ Len(chanToUpload) < QueueCap
    BY <1>9 DEF StartUploadingFile
  <2>2. chanToUpload' \in Seq(Attempts) /\ Len(chanToUpload') = Len(chanToUpload) + 1
    BY <1>1, <2>1, Appended DEF TypeOK
  <2>3. chanToUpload \in Seq(Attempts)
    BY <1>1 DEF TypeOK
  <2>4. Len(chanToUpload') <= QueueCap
    BY <2>1, <2>2, <2>3, RemoteAttemptsAssumption
  <2>5. queued' = [queued EXCEPT ![i] = @ + 1] /\ queued[i] < nFiles[i]
    BY <1>9 DEF StartUploadingFile
  <2>6. queued[i] + 1 \in 0 .. MaxFiles
    BY <1>1, <2>5, TypesOf, RemoteAttemptsAssumption
  <2>7. queued' \in [Attempts -> 0 .. MaxFiles]
    BY <1>1, <2>5, <2>6 DEF TypeOK
  <2> QED
    BY <1>1, <1>9, <2>2, <2>4, <2>7 DEF StartUploadingFile, Typed, TypeOK
<1> QED
  BY <1>2, <1>3, <1>4, <1>5, <1>6, <1>7, <1>8, <1>9 DEF Attempt

LEMMA UploadingTyped ==
  ASSUME Inv, Uploading
  PROVE  Typed'
<1> USE DEF attemptVars, uploadVars, recvVars, remoteVars, serverVars, UploadAt
<1>1. Typed /\ TypeOK /\ IsFiniteSet(active) /\ GroupTypes /\ Interrupts
  BY GroupsTyped DEF Inv, Typed
<1>2. CASE TakeRequest
  <2>1. chanToUpload \in Seq(Attempts) /\ Len(chanToUpload) <= QueueCap
    BY <1>1 DEF TypeOK
  <2>2. chanToUpload # <<>> /\ chanToUpload' = Tail(chanToUpload)
    BY <1>2 DEF TakeRequest
  <2>3. chanToUpload' \in Seq(Attempts) /\ Len(chanToUpload') <= QueueCap
    BY <2>1, <2>2, RemoteAttemptsAssumption
  <2>4. Head(chanToUpload) \in Attempts
    BY <2>1, <2>2
  <2> QED
    BY <1>1, <1>2, <2>3, <2>4 DEF TakeRequest, groupVars, Typed, TypeOK, UploadStages
<1>3. CASE UploadSucceeds
  <2>1. uploading \in Attempts /\ uploaded[uploading] < nFiles[uploading]
    BY <1>3, InHandIs DEF UploadSucceeds, Inv, Hands
  <2>2. GroupTypes' /\ uploaded' = [uploaded EXCEPT ![uploading] = @ + 1]
    BY <1>1, <1>3, <2>1, UploadReleased DEF UploadSucceeds
  <2>3. uploaded[uploading] + 1 \in 0 .. MaxFiles
    BY <1>1, <2>1, TypesOf, RemoteAttemptsAssumption
  <2>4. uploaded' \in [Attempts -> 0 .. MaxFiles]
    BY <1>1, <2>2, <2>3 DEF TypeOK
  <2> QED
    BY <1>1, <1>3, <2>2, <2>4 DEF UploadSucceeds, GroupTypes, Typed, TypeOK, UploadStages
<1>4. CASE UploadOfCleared \/ ReportUploadGivenUp
  <2>1. uploading \in Attempts
    BY <1>4, InHandIs DEF UploadOfCleared, ReportUploadGivenUp, Inv, Hands
  <2>2. GroupTypes'
    BY <1>1, <1>4, <2>1, UploadReleased DEF UploadOfCleared, ReportUploadGivenUp
  <2> QED
    BY <1>1, <1>4, <2>2 DEF UploadOfCleared, ReportUploadGivenUp,
       GroupTypes, Typed, TypeOK, UploadStages
<1>5. CASE UploadUnauthenticated \/ UploadStreamNotRecreated
  <2>1. OnRemoteBecameUnavailable("upload")
    BY <1>5 DEF UploadUnauthenticated, UploadStreamNotRecreated
  <2>2. isUnavailable' \in BOOLEAN /\ marking' \subseteq Interrupters
    BY <1>1, <2>1, BecameUnavailable DEF Interrupters
  <2> QED
    BY <1>1, <1>5, <2>2 DEF UploadUnauthenticated, UploadStreamNotRecreated, groupVars,
       Typed, TypeOK, UploadStages
<1>6. CASE UploadFails
  <2>1. uploadErrs' \in 0 .. MaxUploadErrs
    BY <1>1, <1>6, RemoteAttemptsAssumption DEF UploadFails, TypeOK
  <2> QED
    BY <1>1, <1>6, <2>1 DEF UploadFails, groupVars, Typed, TypeOK, UploadStages
<1>7. CASE QuitUploading
  BY <1>1, <1>7 DEF QuitUploading, groupVars, Typed, TypeOK, UploadStages
<1>8. CASE RecreateUploadStream
  <2>1. /\ reporting' = [reporting EXCEPT ![uploading] = @ + 1]
        /\ reporting \in [Attempts -> Nat] /\ uploading \in Attempts
    BY <1>1, <1>8, InHandIs DEF RecreateUploadStream, Inv, Hands, TypeOK
  <2>2. reporting' \in [Attempts -> Nat]
    BY <2>1
  <2> QED
    BY <1>1, <1>8, <2>2 DEF RecreateUploadStream, groupVars, Typed, TypeOK, UploadStages
<1>9. ASSUME NEW i \in Attempts, ReportUploadFailed(i)
      PROVE  Typed'
  <2>1. GroupTypes'
    BY <1>1, <1>9, UploadReleased DEF ReportUploadFailed
  <2>2. /\ reporting' = [reporting EXCEPT ![i] = @ - 1] /\ reporting[i] > 0
        /\ reporting \in [Attempts -> Nat]
    BY <1>1, <1>9 DEF ReportUploadFailed, TypeOK
  <2>3. reporting' \in [Attempts -> Nat]
    BY <2>2
  <2> QED
    BY <1>1, <1>9, <2>1, <2>3 DEF ReportUploadFailed, GroupTypes, Typed, TypeOK
<1> QED
  BY <1>2, <1>3, <1>4, <1>5, <1>6, <1>7, <1>8, <1>9 DEF Uploading

LEMMA ReceivingTyped ==
  ASSUME Inv, Receiving
  PROVE  Typed'
<1> USE DEF attemptVars, uploadVars, recvVars, remoteVars, serverVars, RecvAt
<1>1. Typed /\ TypeOK /\ IsFiniteSet(active) /\ GroupTypes /\ Interrupts
  BY GroupsTyped DEF Inv, Typed
<1>2. ASSUME NEW i \in Attempts, DiscardReply(i) \/ ReceiveFirstChunk(i)
      PROVE  Typed'
  BY <1>1, <1>2 DEF DiscardReply, ReceiveFirstChunk, groupVars, Typed, TypeOK, RecvStages
<1>3. CASE ObjReceived \/ ObjNotUsable
  <2>1. receiving \in Attempts
    BY <1>1, <1>3 DEF ObjReceived, ObjNotUsable, Inv, Hands, TypeOK
  <2>2. GroupTypes'
    BY <1>1, <1>3, <2>1, ObjReleased DEF ObjReceived, ObjNotUsable
  <2> QED
    BY <1>1, <1>3, <2>1, <2>2 DEF ObjReceived, ObjNotUsable, GroupTypes, Typed, TypeOK,
       RecvStages
<1>4. CASE ObjCutShort \/ RecvBreaks
  <2>1. breaks < MaxBreaks /\ breaks' = breaks + 1
    BY <1>4 DEF ObjCutShort, RecvBreaks
  <2>2. breaks' \in 0 .. MaxBreaks
    BY <1>1, <2>1, RemoteAttemptsAssumption DEF TypeOK
  <2>3. GroupTypes'
    <3>1. CASE ObjCutShort
      <4>1. receiving \in Attempts
        BY <1>1, <3>1 DEF ObjCutShort, Inv, Hands, TypeOK
      <4> QED
        BY <1>1, <3>1, <4>1, ObjReleased DEF ObjCutShort
    <3>2. CASE RecvBreaks
      BY <1>1, <3>2 DEF RecvBreaks, GroupTypes, groupVars
    <3> QED
      BY <1>4, <3>1, <3>2
  <2> QED
    BY <1>1, <1>4, <2>2, <2>3 DEF ObjCutShort, RecvBreaks, GroupTypes, Typed, TypeOK,
       RecvStages
<1>5. CASE OnRecvStreamBroke
  <2>1. interrupting' \in [Interrupters -> Seq(Attempts)]
    BY <1>1, <1>5, InterruptIs DEF OnRecvStreamBroke, Interrupters
  <2> QED
    BY <1>1, <1>5, <2>1 DEF OnRecvStreamBroke, groupVars, Typed, TypeOK, RecvStages
<1>6. CASE StreamEndedByServer
  <2>1. GroupTypes'
    <3>1. trailer \in Attempts
      <4>1. trailer # None
        BY <1>6 DEF StreamEndedByServer
      <4> QED
        BY <1>1, <4>1 DEF TypeOK
    <3>2. CASE DoneRecvObj(trailer, TRUE)
      BY <1>1, <3>1, <3>2, ObjReleased
    <3>3. CASE UNCHANGED groupVars
      BY <1>1, <3>3 DEF groupVars, GroupTypes
    <3> QED
      BY <1>6, <3>2, <3>3 DEF StreamEndedByServer
  <2> QED
    BY <1>1, <1>6, <2>1 DEF StreamEndedByServer, GroupTypes, Typed, TypeOK, RecvStages
<1>7. CASE ReceivingGivenUp
  <2>1. isUnavailable' \in BOOLEAN /\ marking' \subseteq Interrupters
    BY <1>1, <1>7, BecameUnavailable DEF ReceivingGivenUp, Interrupters
  <2> QED
    BY <1>1, <1>7, <2>1 DEF ReceivingGivenUp, groupVars, Typed, TypeOK, RecvStages
<1>8. CASE RecreateReceiveStream \/ QuitReceiving
  BY <1>1, <1>8 DEF RecreateReceiveStream, QuitReceiving, groupVars, Typed, TypeOK,
     RecvStages
<1> QED
  BY <1>2, <1>3, <1>4, <1>5, <1>6, <1>7, <1>8 DEF Receiving

(***************************************************************************)
(* The attempt an interrupter is at.                                       *)
(***************************************************************************)
LEMMA HeadIs ==
  ASSUME Inv, NEW p \in Interrupters, interrupting[p] # <<>>
  PROVE  /\ Head(interrupting[p]) \in active /\ Head(interrupting[p]) \in Attempts
         /\ InterruptedBy(p, Head(interrupting[p]))
         /\ Tail(interrupting[p]) \in Seq(active) /\ Tail(interrupting[p]) \in Seq(Attempts)
         /\ \A i : InterruptedBy(p, i) =>
              \/ i = Head(interrupting[p])
              \/ \E k \in DOMAIN Tail(interrupting[p]) : Tail(interrupting[p])[k] = i
<1> DEFINE s == interrupting[p]
<1>1. s \in Seq(active) /\ s \in Seq(Attempts) /\ s # <<>>
  BY DEF Inv, Interrupts, Typed, TypeOK
<1>2. ASSUME NEW i, NEW k \in DOMAIN s, s[k] = i
      PROVE  i = Head(s) \/ \E l \in DOMAIN Tail(s) : Tail(s)[l] = i
  <2>1. k = 1 \/ (k - 1 \in DOMAIN Tail(s) /\ Tail(s)[k - 1] = s[k])
    BY <1>1
  <2> QED
    BY <1>1, <1>2, <2>1
<1>3. 1 \in DOMAIN s /\ s[1] = Head(s)
  BY <1>1
<1>4. /\ Head(s) \in active /\ Head(s) \in Attempts
      /\ Tail(s) \in Seq(active) /\ Tail(s) \in Seq(Attempts)
  BY <1>1
<1> QED
  BY <1>2, <1>3, <1>4 DEF InterruptedBy

LEMMA OtherTyped ==
  ASSUME Inv,
         \/ \E p \in Interrupters : Interrupting(p)
         \/ \E late \in SUBSET active : Tick(late)
         \/ Clear \/ Server
  PROVE  Typed'
<1> USE DEF attemptVars, uploadVars, recvVars, remoteVars, serverVars
<1>1. Typed /\ TypeOK /\ IsFiniteSet(active) /\ GroupTypes
  BY GroupsTyped DEF Inv, Typed
<1>2. ASSUME NEW p \in Interrupters, DrainUpload(p)
      PROVE  Typed'
  <2>1. PICK i \in Attempts : DoneUploadFile(i, TRUE)
    BY <1>2, HeadIs DEF DrainUpload
  <2>2. GroupTypes'
    BY <1>1, <2>1, UploadReleased
  <2> QED
    BY <1>1, <1>2, <2>2 DEF DrainUpload, GroupTypes, Typed, TypeOK
<1>3. ASSUME NEW p \in Interrupters, EndInterrupt(p)
      PROVE  Typed'
  <2>1. PICK i \in Attempts : DoneRecvObj(i, TRUE)
    BY <1>3, HeadIs DEF EndInterrupt
  <2>2. GroupTypes'
    BY <1>1, <2>1, ObjReleased
  <2>3. Tail(interrupting[p]) \in Seq(Attempts)
    BY <1>3, HeadIs DEF EndInterrupt
  <2>4. interrupting' \in [Interrupters -> Seq(Attempts)]
    BY <1>1, <1>3, <2>3 DEF EndInterrupt, TypeOK
  <2> QED
    BY <1>1, <1>3, <2>2, <2>4 DEF EndInterrupt, GroupTypes, Typed, TypeOK
<1>4. ASSUME NEW late \in SUBSET active, Tick(late)
      PROVE  Typed'
  <2>1. interrupting' \in [Interrupters -> Seq(Attempts)]
    BY <1>1, <1>4, InterruptIs DEF Tick, Interrupters
  <2> QED
    BY <1>1, <1>4, <2>1 DEF Tick, groupVars, Typed, TypeOK
<1>5. CASE Clear
  BY <1>1, <1>5 DEF Clear, groupVars, Typed, TypeOK
<1>6. CASE Server
  <2>1. PICK i \in Attempts :
          ServerReplies(i) \/ ServerEndsStream(i) \/ ServerSendsIntoBroken(i)
    BY <1>6 DEF Server
  <2>2. session' \in [Attempts -> {"none", "open", "over"}]
    BY <1>1, <2>1 DEF ServerReplies, ServerEndsStream, ServerSendsIntoBroken, TypeOK
  <2> QED
    BY <1>1, <2>1, <2>2 DEF ServerReplies, ServerEndsStream, ServerSendsIntoBroken,
       groupVars, Typed, TypeOK
<1>7. ASSUME NEW p \in Interrupters, InterruptInvocations(p)
      PROVE  Typed'
  <2>1. interrupting' \in [Interrupters -> Seq(Attempts)]
    BY <1>1, <1>7, InterruptIs DEF InterruptInvocations
  <2> QED
    BY <1>1, <1>7, <2>1 DEF InterruptInvocations, groupVars, Typed, TypeOK
<1> QED
  BY <1>2, <1>3, <1>4, <1>5, <1>6, <1>7 DEF Interrupting

LEMMA TypesKept ==
  ASSUME Inv, Next
  PROVE  Typed'
  BY AttemptTyped, UploadingTyped, ReceivingTyped, OtherTyped DEF Next

-----------------------------------------------------------------------------
(***************************************************************************)
(* What each goroutine leaves alone.                                       *)
(***************************************************************************)
LEMMA AttemptFrame ==
  ASSUME NEW i \in Attempts, Attempt(i) \/ Register(i) \/ Unregister(i)
  PROVE  /\ UNCHANGED <<doneRecv, err, panicked, upload, uploading, reporting, uploadErrs,
                        recvVars, remoteVars, uploaded, inFlight, trailer, interrupting>>
         /\ Running
<1> USE DEF attemptVars, groupVars, uploadVars, recvVars, remoteVars, serverVars, At
<1>1. CASE \/ Choose(i) \/ AddRecv(i) \/ IncludesCollected(i) \/ SessionNotStarted(i)
           \/ StartCompilationSession(i) \/ CheckAvailable(i) \/ SetWaitUploads(i)
  BY <1>1 DEF Choose, AddRecv, IncludesCollected, SessionNotStarted,
     StartCompilationSession, CheckAvailable, SetWaitUploads
<1>2. CASE \/ AddUploads(i) \/ StartUploadingFile(i) \/ WaitUploads(i)
           \/ WaitForCompiledObj(i) \/ Register(i) \/ Unregister(i)
  BY <1>2 DEF AddUploads, StartUploadingFile, WaitUploads, WaitForCompiledObj, Register,
     Unregister
<1> QED
  BY <1>1, <1>2 DEF Attempt

LEMMA UploadingFrame ==
  ASSUME Uploading
  PROVE  /\ UNCHANGED <<attemptVars, recvVars, isCleared, session, inFlight, trailer,
                        wgRecv, doneRecv, interrupting>>
         /\ Running
<1> USE DEF groupVars, uploadVars, remoteVars, serverVars, UploadAt, DoneUploadFile
<1>1. CASE TakeRequest \/ UploadSucceeds \/ UploadFails \/ UploadUnauthenticated
  BY <1>1 DEF TakeRequest, UploadSucceeds, UploadFails, UploadUnauthenticated
<1>2. CASE UploadOfCleared \/ RecreateUploadStream \/ UploadStreamNotRecreated
  BY <1>2 DEF UploadOfCleared, RecreateUploadStream, UploadStreamNotRecreated
<1>3. CASE ReportUploadGivenUp \/ QuitUploading
  BY <1>3 DEF ReportUploadGivenUp, QuitUploading
<1>4. CASE \E i \in Attempts : ReportUploadFailed(i)
  BY <1>4 DEF ReportUploadFailed
<1> QED
  BY <1>1, <1>2, <1>3, <1>4 DEF Uploading

LEMMA ReceivingFrame ==
  ASSUME Receiving
  PROVE  /\ UNCHANGED <<attemptVars, uploadVars, isCleared, session, uploaded,
                        waitUploads, wgUpload>>
         /\ Running
<1> USE DEF groupVars, recvVars, remoteVars, serverVars, RecvAt, DoneRecvObj
<1>1. ASSUME NEW i \in Attempts, DiscardReply(i) \/ ReceiveFirstChunk(i)
      PROVE  /\ UNCHANGED <<attemptVars, uploadVars, isCleared, session, uploaded,
                            waitUploads, wgUpload>>
             /\ Running
  BY <1>1 DEF DiscardReply, ReceiveFirstChunk
<1>2. CASE ObjReceived \/ ObjNotUsable \/ ObjCutShort \/ RecvBreaks
  BY <1>2 DEF ObjReceived, ObjNotUsable, ObjCutShort, RecvBreaks
<1>3. CASE OnRecvStreamBroke \/ StreamEndedByServer \/ RecreateReceiveStream
  BY <1>3 DEF OnRecvStreamBroke, StreamEndedByServer, RecreateReceiveStream
<1>4. CASE ReceivingGivenUp \/ QuitReceiving
  BY <1>4 DEF ReceivingGivenUp, QuitReceiving
<1> QED
  BY <1>1, <1>2, <1>3, <1>4 DEF Receiving

Others == \/ \E p \in Interrupters : Interrupting(p)
          \/ \E late \in SUBSET active : Tick(late)
          \/ Clear \/ Server

LEMMA OthersFrame ==
  ASSUME Others
  PROVE  /\ UNCHANGED <<attemptVars, uploadVars, recvVars, isUnavailable, uploaded>>
         /\ Running
<1> USE DEF groupVars, remoteVars, serverVars
<1>1. ASSUME NEW p \in Interrupters, Interrupting(p)
      PROVE  /\ UNCHANGED <<attemptVars, uploadVars, recvVars, isUnavailable, uploaded>>
             /\ Running
  BY <1>1 DEF Interrupting, InterruptInvocations, DrainUpload, EndInterrupt
<1>2. ASSUME NEW late \in SUBSET active, Tick(late)
      PROVE  /\ UNCHANGED <<attemptVars, uploadVars, recvVars, isUnavailable, uploaded>>
             /\ Running
  BY <1>2 DEF Tick
<1>3. CASE Clear
  BY <1>3 DEF Clear
<1>4. CASE Server
  BY <1>4 DEF Server, ServerReplies, ServerEndsStream, ServerSendsIntoBroken, HasReply
<1> QED
  BY <1>1, <1>2, <1>3, <1>4 DEF Others

LEMMA HandsKept ==
  ASSUME Inv, Next
  PROVE  Hands'
<1> USE DEF attemptVars, groupVars, uploadVars, recvVars, remoteVars, serverVars
<1>1. Hands /\ Typed /\ Interrupts
  BY DEF Inv
<1>2. ASSUME NEW i \in Attempts, Attempt(i) \/ Register(i) \/ Unregister(i)
      PROVE  Hands'
  BY <1>1, <1>2, AttemptFrame DEF Hands
<1>3. CASE Uploading
  <2>1. UNCHANGED <<receiving, recv, isCleared>>
    BY <1>3, UploadingFrame
  <2>2. chanToUpload # <<>> => Head(chanToUpload) # None
    <3>1. chanToUpload \in Seq(Attempts) /\ None \notin Attempts
      BY <1>1, RemoteAttemptsAssumption DEF Typed, TypeOK
    <3> QED
      BY <3>1
  <2>3. CASE TakeRequest \/ UploadSucceeds \/ UploadFails
    BY <1>1, <2>1, <2>2, <2>3
       DEF TakeRequest, UploadSucceeds, UploadFails, UploadAt, Hands
  <2>4. CASE UploadUnauthenticated \/ UploadStreamNotRecreated
    <3>1. isUnavailable' = TRUE
      BY <1>1, <2>4, BecameUnavailable
         DEF UploadUnauthenticated, UploadStreamNotRecreated, Interrupters
    <3> QED
      BY <1>1, <2>1, <2>4, <3>1
         DEF UploadUnauthenticated, UploadStreamNotRecreated, UploadAt, Hands
  <2>5. CASE UploadOfCleared \/ RecreateUploadStream \/ ReportUploadGivenUp \/ QuitUploading
    BY <1>1, <2>1, <2>5
       DEF UploadOfCleared, RecreateUploadStream, ReportUploadGivenUp, QuitUploading,
           UploadAt, Hands
  <2>6. CASE \E i \in Attempts : ReportUploadFailed(i)
    BY <1>1, <2>1, <2>6 DEF ReportUploadFailed, Hands
  <2> QED
    BY <1>3, <2>3, <2>4, <2>5, <2>6 DEF Uploading
<1>4. CASE Receiving
  <2>1. UNCHANGED <<uploading, upload, isCleared>>
    BY <1>4, ReceivingFrame
  <2>2. ASSUME NEW i \in Attempts, DiscardReply(i) \/ ReceiveFirstChunk(i)
        PROVE  Hands'
    BY <1>1, <2>1, <2>2, RemoteAttemptsAssumption
       DEF DiscardReply, ReceiveFirstChunk, RecvAt, Hands
  <2>3. CASE ReceivingGivenUp
    <3>1. isUnavailable' = TRUE
      BY <1>1, <2>3, BecameUnavailable DEF ReceivingGivenUp, Interrupters
    <3> QED
      BY <1>1, <2>1, <2>3, <3>1 DEF ReceivingGivenUp, RecvAt, Hands
  <2>4. CASE ObjReceived \/ ObjNotUsable \/ ObjCutShort \/ RecvBreaks
    BY <1>1, <2>1, <2>4
       DEF ObjReceived, ObjNotUsable, ObjCutShort, RecvBreaks, RecvAt, Hands
  <2>5. CASE \/ OnRecvStreamBroke \/ StreamEndedByServer \/ RecreateReceiveStream
             \/ QuitReceiving
    BY <1>1, <2>1, <2>5
       DEF OnRecvStreamBroke, StreamEndedByServer, RecreateReceiveStream, QuitReceiving,
           RecvAt, Hands
  <2> QED
    BY <1>4, <2>2, <2>3, <2>4, <2>5 DEF Receiving
<1>5. CASE Others
  <2>1. UNCHANGED <<upload, uploading, recv, receiving, isUnavailable>>
    BY <1>5, OthersFrame
  <2>2. isCleared' => isCleared \/ isUnavailable
    <3>1. ASSUME NEW p \in Interrupters, Interrupting(p)
          PROVE  isCleared' = isCleared
      BY <3>1 DEF Interrupting, InterruptInvocations, DrainUpload, EndInterrupt
    <3>2. ASSUME NEW late \in SUBSET active, Tick(late)
          PROVE  isCleared' = isCleared
      BY <3>2 DEF Tick
    <3>3. CASE Clear
      BY <3>3 DEF Clear
    <3>4. CASE Server
      BY <3>4 DEF Server, ServerReplies, ServerEndsStream, ServerSendsIntoBroken
    <3> QED
      BY <1>5, <3>1, <3>2, <3>3, <3>4 DEF Others
  <2> QED
    BY <1>1, <2>1, <2>2 DEF Hands
<1> QED
  BY <1>2, <1>3, <1>4, <1>5 DEF Next, Others

LEMMA RegisteredKept ==
  ASSUME Inv, Next
  PROVE  Registered'
<1>1. Registered /\ pc \in [Attempts -> Stages]
  BY DEF Inv, Typed, TypeOK
<1>2. CASE UNCHANGED attemptVars
  BY <1>1, <1>2 DEF attemptVars, Registered
<1>3. ASSUME NEW i \in Attempts, Attempt(i)
      PROVE  Registered'
  <2>1. /\ active' = active /\ \A j \in Attempts : j # i => pc'[j] = pc[j]
        /\ pc[i] \in Unregistered <=> pc'[i] \in Unregistered
    <3> USE DEF attemptVars, At, Fail, Goto, Unregistered
    <3>1. CASE \/ Choose(i) \/ AddRecv(i) \/ IncludesCollected(i) \/ SessionNotStarted(i)
               \/ StartCompilationSession(i) \/ CheckAvailable(i)
      BY <1>1, <3>1 DEF Choose, AddRecv, IncludesCollected, SessionNotStarted,
         StartCompilationSession, CheckAvailable
    <3>2. CASE \/ SetWaitUploads(i) \/ AddUploads(i) \/ StartUploadingFile(i)
               \/ WaitUploads(i) \/ WaitForCompiledObj(i)
      BY <1>1, <3>2 DEF SetWaitUploads, AddUploads, StartUploadingFile, WaitUploads,
         WaitForCompiledObj
    <3> QED
      BY <1>3, <3>1, <3>2 DEF Attempt
  <2> QED
    BY <1>1, <2>1 DEF Registered
<1>4. ASSUME NEW i \in Attempts, Register(i)
      PROVE  Registered'
  BY <1>1, <1>4 DEF Register, At, Goto, Registered, Unregistered
<1>5. ASSUME NEW i \in Attempts, Unregister(i)
      PROVE  Registered'
  BY <1>1, <1>5 DEF Unregister, At, Goto, Registered, Unregistered
<1> QED
  BY <1>2, <1>3, <1>4, <1>5, UploadingFrame, ReceivingFrame, OthersFrame DEF Next, Others

LEMMA InterruptsKept ==
  ASSUME Inv, Next
  PROVE  Interrupts'
<1> USE DEF attemptVars, groupVars, uploadVars, recvVars, remoteVars, serverVars
<1>1. /\ Typed /\ Interrupts /\ active \subseteq Attempts
      /\ interrupting \in [Interrupters -> Seq(Attempts)]
  BY DEF Inv, Typed, TypeOK
<1>2. ASSUME NEW i \in Attempts, Attempt(i)
      PROVE  Interrupts'
  <2>1. UNCHANGED <<interrupting, marking, recv>>
    BY <1>2, AttemptFrame
  <2>2. active' = active
    BY <1>2 DEF Attempt, Choose, AddRecv, IncludesCollected, SessionNotStarted,
       StartCompilationSession, CheckAvailable, SetWaitUploads, AddUploads,
       StartUploadingFile, WaitUploads, WaitForCompiledObj
  <2> QED
    BY <1>1, <2>1, <2>2 DEF Interrupts
<1>3. ASSUME NEW i \in Attempts, Register(i) \/ Unregister(i)
      PROVE  Interrupts'
  <2>1. UNCHANGED <<interrupting, marking, recv>>
    BY <1>3, AttemptFrame
  <2>2. \A p \in Interrupters : interrupting'[p] = <<>>
    BY <1>3, <2>1 DEF Register, Unregister, MayWrite
  <2> QED
    BY <1>1, <2>1, <2>2 DEF Interrupts
<1>4. CASE Uploading
  <2>1. UNCHANGED <<active, recv, interrupting>>
    BY <1>4, UploadingFrame
  <2>2. marking' \subseteq marking \cup {"upload"}
    <3>1. CASE UploadUnauthenticated \/ UploadStreamNotRecreated
      BY <1>1, <3>1, BecameUnavailable
         DEF UploadUnauthenticated, UploadStreamNotRecreated, Interrupters
    <3>2. CASE ~ (UploadUnauthenticated \/ UploadStreamNotRecreated)
      BY <1>4, <3>2
         DEF Uploading, TakeRequest, UploadSucceeds, UploadFails, UploadOfCleared,
             RecreateUploadStream, ReportUploadGivenUp, QuitUploading, ReportUploadFailed
    <3> QED
      BY <3>1, <3>2
  <2> QED
    BY <1>1, <2>1, <2>2 DEF Interrupts
<1>5. CASE Receiving
  <2>1. UNCHANGED active
    BY <1>5, ReceivingFrame
  <2>2. ASSUME NEW i \in Attempts, DiscardReply(i) \/ ReceiveFirstChunk(i)
        PROVE  Interrupts'
    BY <1>1, <2>1, <2>2 DEF DiscardReply, ReceiveFirstChunk, RecvAt, Interrupts
  <2>3. CASE ReceivingGivenUp
    BY <1>1, <2>1, <2>3 DEF ReceivingGivenUp, Interrupts
  <2>4. CASE OnRecvStreamBroke
    <3>1. Interrupt("recv", active) /\ "recv" \in Interrupters
      BY <2>4 DEF OnRecvStreamBroke, Interrupters
    <3>2. /\ interrupting'["recv"] \in Seq(active)
          /\ \A q \in Interrupters : q # "recv" => interrupting'[q] = interrupting[q]
      BY <1>1, <3>1, InterruptIs
    <3>3. recv = "broken" /\ recv' = "recreating" /\ UNCHANGED marking
      BY <2>4 DEF OnRecvStreamBroke, RecvAt
    <3> QED
      BY <1>1, <2>1, <3>2, <3>3 DEF Interrupts, Interrupters
  <2>5. CASE ObjReceived \/ ObjNotUsable \/ ObjCutShort \/ RecvBreaks \/ StreamEndedByServer
    BY <1>1, <2>1, <2>5
       DEF ObjReceived, ObjNotUsable, ObjCutShort, RecvBreaks, StreamEndedByServer, RecvAt,
           Interrupts
  <2>6. CASE RecreateReceiveStream \/ QuitReceiving
    BY <1>1, <2>1, <2>6
       DEF RecreateReceiveStream, QuitReceiving, HasTold, RecvAt, Interrupts
  <2> QED
    BY <1>5, <2>2, <2>3, <2>4, <2>5, <2>6 DEF Receiving
<1>6. CASE Others
  <2>1. UNCHANGED <<active, recv>>
    BY <1>6, OthersFrame
  <2>2. ASSUME NEW p \in Interrupters, DrainUpload(p)
        PROVE  Interrupts'
    BY <1>1, <2>1, <2>2 DEF DrainUpload, Interrupts
  <2>3. ASSUME NEW p \in Interrupters, EndInterrupt(p)
        PROVE  Interrupts'
    <3>1. /\ interrupting[p] # <<>> /\ Tail(interrupting[p]) \in Seq(active)
          /\ interrupting' = [interrupting EXCEPT ![p] = Tail(@)]
      BY <2>3, HeadIs DEF EndInterrupt
    <3>2. \A q \in Interrupters : /\ interrupting'[q] \in Seq(active)
                                  /\ interrupting'[q] # <<>> => interrupting[q] # <<>>
      BY <1>1, <3>1 DEF Interrupts
    <3>3. UNCHANGED marking
      BY <2>3 DEF EndInterrupt
    <3> QED
      BY <1>1, <2>1, <3>2, <3>3 DEF Interrupts, Interrupters
  <2>4. ASSUME NEW late \in SUBSET active, Tick(late)
        PROVE  Interrupts'
    <3>1. /\ interrupting'["ticker"] \in Seq(late)
          /\ \A q \in Interrupters : q # "ticker" => interrupting'[q] = interrupting[q]
      BY <1>1, <2>4, InterruptIs DEF Tick, Interrupters
    <3>2. interrupting'["ticker"] \in Seq(active)
      BY <3>1
    <3>3. UNCHANGED marking
      BY <2>4 DEF Tick
    <3> QED
      BY <1>1, <2>1, <3>1, <3>2, <3>3 DEF Interrupts, Interrupters
  <2>5. CASE Clear \/ Server
    BY <1>1, <2>1, <2>5 DEF Clear, Server, ServerReplies, ServerEndsStream,
       ServerSendsIntoBroken, Interrupts
  <2>6. ASSUME NEW p \in Interrupters, InterruptInvocations(p)
        PROVE  Interrupts'
    <3>1. p \in marking /\ marking' = marking \ {p}
      BY <2>6 DEF InterruptInvocations
    <3>2. /\ interrupting'[p] \in Seq(active)
          /\ \A q \in Interrupters : q # p => interrupting'[q] = interrupting[q]
      BY <1>1, <2>6, InterruptIs DEF InterruptInvocations
    <3> QED
      BY <1>1, <2>1, <3>1, <3>2 DEF Interrupts, Interrupters
  <2> QED
    BY <1>6, <2>2, <2>3, <2>4, <2>5, <2>6 DEF Others, Interrupting
<1> QED
  BY <1>2, <1>3, <1>4, <1>5, <1>6 DEF Next, Others

-----------------------------------------------------------------------------
(***************************************************************************)
(* The goroutine that uploads moves a file on, or drops it, and then it or *)
(* the goroutine of the stream before says so.                             *)
(***************************************************************************)
FileMovedOn(i) ==
  /\ OnTheWay(i)' \in Nat /\ OnTheWay(i)' <= OnTheWay(i)
  /\ uploaded'[i] = uploaded[i] \/ uploaded[i] < nFiles[i]
  /\ wgUpload[i] = 0 => wgUpload'[i] = 0

WaitedFor(i) == InQueue(i) + InHand(i) + reporting[i]

LessIsAwaited(i) ==
  \/ isUnavailable'
  \/ WaitedFor(i)' = WaitedFor(i) /\ waitUploads'[i] <= waitUploads[i]
  \/ WaitedFor(i)' = WaitedFor(i) - 1 /\ waitUploads'[i] = waitUploads[i] - 1
  \/ WaitedFor(i)' = WaitedFor(i) - 1 /\ waitUploads'[i] = 0

LEMMA QueueKept ==
  ASSUME UNCHANGED <<chanToUpload, uploading, reporting>>, NEW i \in Attempts
  PROVE  /\ InQueue(i)' = InQueue(i) /\ InHand(i)' = InHand(i)
         /\ WaitedFor(i)' = WaitedFor(i)
         /\ UNCHANGED uploaded => OnTheWay(i)' = OnTheWay(i)
  BY DEF InQueue, InHand, WaitedFor, OnTheWay

LEMMA Emptied ==
  ASSUME Inv, uploading # None, uploading' = None, UNCHANGED chanToUpload,
         NEW i \in Attempts
  PROVE  /\ InQueue(i)' = InQueue(i) /\ InHand(i)' = 0
         /\ InHand(i) = (IF i = uploading THEN 1 ELSE 0)
         /\ UNCHANGED reporting => WaitedFor(i)' = WaitedFor(i) - InHand(i)
         /\ UNCHANGED uploaded => OnTheWay(i)' = OnTheWay(i) - InHand(i)
<1>1. /\ uploaded[i] \in Nat /\ InQueue(i) \in Nat /\ InHand(i) \in {0, 1}
      /\ reporting[i] \in Nat
  BY OnTheWayIs, TypesOf DEF Inv
<1>2. InQueue(i)' = InQueue(i)
  BY DEF InQueue
<1>3. InHand(i)' = 0 /\ InHand(i) = (IF i = uploading THEN 1 ELSE 0)
  BY RemoteAttemptsAssumption DEF InHand
<1>4. UNCHANGED reporting => WaitedFor(i)' = InQueue(i)' + InHand(i)' + reporting[i]
  BY DEF WaitedFor
<1>5. UNCHANGED uploaded => OnTheWay(i)' = uploaded[i] + InQueue(i)' + InHand(i)'
  BY DEF OnTheWay
<1> QED
  BY <1>1, <1>2, <1>3, <1>4, <1>5 DEF OnTheWay, WaitedFor

LEMMA UploadDropped ==
  ASSUME Inv, uploading # None, uploading' = None,
         UNCHANGED <<chanToUpload, reporting, uploaded>>,
         DoneUploadFile(uploading, TRUE), NEW i \in Attempts
  PROVE  FileMovedOn(i) /\ LessIsAwaited(i)
<1>1. Typed /\ GroupTypes /\ uploading \in Attempts
  BY GroupsTyped, InHandIs DEF Inv
<1>2. /\ OnTheWay(i) \in Nat /\ waitUploads[i] \in Nat
      /\ uploaded[i] \in Nat /\ InQueue(i) \in Nat /\ InHand(i) \in {0, 1}
      /\ reporting[i] \in Nat
  BY <1>1, OnTheWayIs, TypesOf
<1>3. /\ waitUploads'[uploading] = (IF waitUploads[uploading] = 0 THEN 0
                                    ELSE waitUploads[uploading] - 1)
      /\ \A j \in Attempts : j # uploading => waitUploads'[j] = waitUploads[j]
      /\ \A j \in Attempts : wgUpload[j] = 0 => wgUpload'[j] = 0
  BY <1>1, UploadReleased
<1>4. /\ OnTheWay(i)' = OnTheWay(i) - InHand(i)
      /\ WaitedFor(i)' = WaitedFor(i) - InHand(i)
      /\ InHand(i) = (IF i = uploading THEN 1 ELSE 0)
  BY Emptied
<1>5. WaitedFor(i) \in Nat
  BY <1>2 DEF WaitedFor
<1>6. OnTheWay(i)' \in Nat
  BY <1>2, <1>4 DEF OnTheWay
<1>7. FileMovedOn(i)
  BY <1>2, <1>3, <1>4, <1>6 DEF FileMovedOn
<1>8. LessIsAwaited(i)
  BY <1>2, <1>3, <1>4, <1>5 DEF LessIsAwaited
<1> QED
  BY <1>7, <1>8

(***************************************************************************)
(* As a new stream is there, the goroutine of the old one has the file.    *)
(***************************************************************************)
LEMMA ErrorKept ==
  ASSUME Inv, RecreateUploadStream, NEW i \in Attempts
  PROVE  FileMovedOn(i) /\ LessIsAwaited(i)
<1>1. /\ Typed /\ reporting \in [Attempts -> Nat] /\ uploading \in Attempts
      /\ uploading # None /\ uploading' = None
      /\ UNCHANGED <<chanToUpload, uploaded, wgUpload, waitUploads>>
      /\ reporting' = [reporting EXCEPT ![uploading] = @ + 1]
  BY InHandIs DEF RecreateUploadStream, UploadAt, Inv, Hands, Typed, TypeOK, groupVars,
     serverVars
<1>2. /\ OnTheWay(i) \in Nat /\ waitUploads[i] \in Nat
      /\ uploaded[i] \in Nat /\ InQueue(i) \in Nat /\ InHand(i) \in {0, 1}
      /\ reporting[i] \in Nat
  BY <1>1, OnTheWayIs, TypesOf
<1>3. /\ InQueue(i)' = InQueue(i) /\ InHand(i)' = 0
      /\ InHand(i) = (IF i = uploading THEN 1 ELSE 0)
      /\ OnTheWay(i)' = OnTheWay(i) - InHand(i)
  BY <1>1, Emptied
<1>4. OnTheWay(i)' \in Nat
  BY <1>2, <1>3 DEF OnTheWay
<1>5. reporting'[i] = reporting[i] + InHand(i)
  BY <1>1, <1>2, <1>3
<1>6. WaitedFor(i)' = InQueue(i)' + InHand(i)' + reporting'[i]
  BY DEF WaitedFor
<1>7. WaitedFor(i)' = WaitedFor(i)
  BY <1>2, <1>3, <1>5, <1>6 DEF WaitedFor
<1> QED
  BY <1>1, <1>2, <1>3, <1>4, <1>7 DEF FileMovedOn, LessIsAwaited

LEMMA ErrorReported ==
  ASSUME Inv, NEW k \in Attempts, ReportUploadFailed(k), NEW i \in Attempts
  PROVE  FileMovedOn(i) /\ LessIsAwaited(i)
<1>1. /\ Typed /\ GroupTypes /\ reporting \in [Attempts -> Nat]
      /\ UNCHANGED <<chanToUpload, uploading, uploaded>> /\ DoneUploadFile(k, TRUE)
      /\ reporting[k] > 0 /\ reporting' = [reporting EXCEPT ![k] = @ - 1]
  BY GroupsTyped DEF ReportUploadFailed, Inv, Typed, TypeOK, serverVars
<1>2. /\ OnTheWay(i) \in Nat /\ waitUploads[i] \in Nat
      /\ InQueue(i) \in Nat /\ InHand(i) \in {0, 1} /\ reporting[i] \in Nat
  BY <1>1, OnTheWayIs, TypesOf
<1>3. /\ waitUploads'[k] = (IF waitUploads[k] = 0 THEN 0 ELSE waitUploads[k] - 1)
      /\ \A j \in Attempts : j # k => waitUploads'[j] = waitUploads[j]
      /\ \A j \in Attempts : wgUpload[j] = 0 => wgUpload'[j] = 0
  BY <1>1, UploadReleased
<1>4. InQueue(i)' = InQueue(i) /\ InHand(i)' = InHand(i) /\ OnTheWay(i)' = OnTheWay(i)
  BY <1>1 DEF InQueue, InHand, OnTheWay
<1>5. reporting'[i] = reporting[i] - (IF i = k THEN 1 ELSE 0)
  BY <1>1, <1>2
<1>6. WaitedFor(i)' = InQueue(i)' + InHand(i)' + reporting'[i]
  BY DEF WaitedFor
<1>7. WaitedFor(i)' = WaitedFor(i) - (IF i = k THEN 1 ELSE 0) /\ WaitedFor(i) \in Nat
  BY <1>2, <1>4, <1>5, <1>6 DEF WaitedFor
<1>8. FileMovedOn(i)
  BY <1>1, <1>2, <1>3, <1>4 DEF FileMovedOn
<1>9. LessIsAwaited(i)
  BY <1>2, <1>3, <1>7 DEF LessIsAwaited
<1> QED
  BY <1>8, <1>9

LEMMA UploadDone ==
  ASSUME Inv, UploadSucceeds, NEW i \in Attempts
  PROVE  FileMovedOn(i) /\ LessIsAwaited(i)
<1> DEFINE one == IF i = uploading THEN 1 ELSE 0
<1>1. Typed /\ GroupTypes /\ uploaded \in [Attempts -> 0 .. MaxFiles]
  BY GroupsTyped DEF Inv, Typed, TypeOK
<1>2. /\ uploading # None /\ uploading' = None /\ UNCHANGED <<chanToUpload, reporting>>
      /\ DoneUploadFile(uploading, FALSE)
      /\ uploaded' = [uploaded EXCEPT ![uploading] = @ + 1]
  BY DEF UploadSucceeds, UploadAt, Inv, Hands
<1>3. uploading \in Attempts /\ uploaded[uploading] < nFiles[uploading]
  BY <1>2, InHandIs
<1>4. /\ uploaded[i] \in Nat /\ InQueue(i) \in Nat /\ InHand(i) = one
      /\ waitUploads[i] \in Nat /\ reporting[i] \in Nat
  BY <1>1, OnTheWayIs, TypesOf DEF InHand
<1>5. /\ waitUploads'[uploading] = (IF waitUploads[uploading] = 0 THEN 0
                                    ELSE waitUploads[uploading] - 1)
      /\ \A j \in Attempts : j # uploading => waitUploads'[j] = waitUploads[j]
      /\ \A j \in Attempts : wgUpload[j] = 0 => wgUpload'[j] = 0
  BY <1>1, <1>2, <1>3, UploadReleased
<1>6. uploaded'[i] = uploaded[i] + one
  BY <1>1, <1>2, <1>3, <1>4
<1>7. InQueue(i)' = InQueue(i) /\ InHand(i)' = 0 /\ WaitedFor(i)' = WaitedFor(i) - one
  BY <1>2, <1>4, Emptied
<1>8. WaitedFor(i) \in Nat
  BY <1>4 DEF WaitedFor
<1>9. OnTheWay(i)' = uploaded'[i] + InQueue(i)' + InHand(i)'
  BY DEF OnTheWay
<1>10. OnTheWay(i)' = OnTheWay(i) /\ OnTheWay(i)' \in Nat
  BY <1>4, <1>6, <1>7, <1>9 DEF OnTheWay
<1>11. FileMovedOn(i)
  BY <1>3, <1>4, <1>5, <1>6, <1>10 DEF FileMovedOn
<1>12. LessIsAwaited(i)
  BY <1>4, <1>5, <1>7, <1>8 DEF LessIsAwaited
<1> QED
  BY <1>11, <1>12

LEMMA RequestTaken ==
  ASSUME Inv, TakeRequest, NEW i \in Attempts
  PROVE  FileMovedOn(i) /\ LessIsAwaited(i)
<1> DEFINE one == IF i = Head(chanToUpload) THEN 1 ELSE 0
<1>1. Typed /\ chanToUpload \in Seq(Attempts)
  BY DEF Inv, Typed, TypeOK
<1>2. /\ chanToUpload # <<>> /\ chanToUpload' = Tail(chanToUpload)
      /\ uploading' = Head(chanToUpload) /\ uploading = None
      /\ UNCHANGED <<uploaded, wgUpload, waitUploads, reporting>>
  BY DEF TakeRequest, UploadAt, Inv, Hands, groupVars, serverVars
<1>3. chanToUpload' \in Seq(Attempts) /\ InQueue(i) = InQueue(i)' + one
  BY <1>1, <1>2, Shortened
<1>4. InHand(i) = 0 /\ InHand(i)' = one
  BY <1>2, RemoteAttemptsAssumption DEF InHand
<1>5. /\ InQueue(i)' \in Nat /\ uploaded[i] \in Nat /\ waitUploads[i] \in Nat
      /\ reporting[i] \in Nat
  BY <1>1, <1>3, Counted, TypesOf DEF InQueue
<1>6. OnTheWay(i)' = uploaded[i] + InQueue(i)' + InHand(i)'
  BY <1>2 DEF OnTheWay
<1>7. OnTheWay(i)' = OnTheWay(i) /\ OnTheWay(i)' \in Nat
  BY <1>3, <1>4, <1>5, <1>6 DEF OnTheWay
<1>8. WaitedFor(i)' = InQueue(i)' + InHand(i)' + reporting[i]
  BY <1>2 DEF WaitedFor
<1>9. WaitedFor(i)' = WaitedFor(i)
  BY <1>3, <1>4, <1>5, <1>8 DEF WaitedFor
<1> QED
  BY <1>2, <1>5, <1>7, <1>9 DEF FileMovedOn, LessIsAwaited

LEMMA UploadingMoves ==
  ASSUME Inv, Uploading, NEW i \in Attempts
  PROVE  FileMovedOn(i) /\ LessIsAwaited(i)
<1> USE DEF uploadVars, recvVars, remoteVars, serverVars, UploadAt
<1>1. Typed /\ Hands /\ OnTheWay(i) \in Nat /\ waitUploads[i] \in Nat
  BY OnTheWayIs, TypesOf DEF Inv
<1>2. CASE UploadOfCleared \/ ReportUploadGivenUp
  <2>1. /\ uploading # None /\ uploading' = None
        /\ UNCHANGED <<chanToUpload, reporting, uploaded>>
        /\ DoneUploadFile(uploading, TRUE)
    BY <1>1, <1>2 DEF UploadOfCleared, ReportUploadGivenUp, Hands
  <2> QED
    BY <2>1, UploadDropped
<1>3. CASE UploadFails \/ UploadUnauthenticated \/ UploadStreamNotRecreated
  <2>1. UNCHANGED <<chanToUpload, uploading, reporting, uploaded, wgUpload, waitUploads>>
    BY <1>3 DEF UploadFails, UploadUnauthenticated, UploadStreamNotRecreated, groupVars
  <2>2. OnTheWay(i)' = OnTheWay(i) /\ WaitedFor(i)' = WaitedFor(i)
    BY <2>1, QueueKept
  <2> QED
    BY <1>1, <2>1, <2>2 DEF FileMovedOn, LessIsAwaited
<1>4. CASE QuitUploading
  <2>1. /\ UNCHANGED <<chanToUpload, reporting, uploaded, wgUpload, waitUploads>>
        /\ isUnavailable' /\ uploading' = None
    BY <1>1, <1>4 DEF QuitUploading, groupVars, Hands
  <2>2. OnTheWay(i)' \in Nat /\ OnTheWay(i)' <= OnTheWay(i)
    <3>1. CASE uploading = None
      BY <1>1, <2>1, <3>1, QueueKept
    <3>2. CASE uploading # None
      <4>1. OnTheWay(i)' = OnTheWay(i) - InHand(i)
        BY <2>1, <3>2, Emptied
      <4>2. OnTheWay(i) - InHand(i) \in Nat /\ InHand(i) \in {0, 1}
        BY <1>1, OnTheWayIs, TypesOf DEF OnTheWay
      <4> QED
        BY <1>1, <4>1, <4>2
    <3> QED
      BY <3>1, <3>2
  <2> QED
    BY <2>1, <2>2 DEF FileMovedOn, LessIsAwaited
<1> QED
  BY <1>2, <1>3, <1>4, UploadDone, RequestTaken, ErrorKept, ErrorReported DEF Uploading

(***************************************************************************)
(* A step of one attempt.                                                  *)
(***************************************************************************)
LEMMA OtherAttempts ==
  ASSUME Inv, NEW i \in Attempts, Attempt(i) \/ Register(i) \/ Unregister(i),
         NEW j \in Attempts, j # i
  PROVE  /\ pc'[j] = pc[j] /\ nFiles'[j] = nFiles[j] /\ queued'[j] = queued[j]
         /\ result'[j] = result[j] /\ session'[j] = session[j] /\ wgRecv'[j] = wgRecv[j]
         /\ waitUploads'[j] = waitUploads[j] /\ wgUpload'[j] = wgUpload[j]
<1> USE DEF attemptVars, groupVars, serverVars, At, Goto, Fail
<1>1. /\ pc \in [Attempts -> Stages] /\ nFiles \in [Attempts -> 0 .. MaxFiles]
      /\ queued \in [Attempts -> 0 .. MaxFiles] /\ wgRecv \in [Attempts -> 0 .. 1]
      /\ waitUploads \in [Attempts -> 0 .. MaxFiles]
      /\ wgUpload \in [Attempts -> 0 .. MaxFiles]
      /\ result \in [Attempts -> {"none", "failed", "replied"}]
      /\ session \in [Attempts -> {"none", "open", "over"}]
  BY DEF Inv, Typed, TypeOK
<1>2. CASE \/ Choose(i) \/ IncludesCollected(i) \/ SessionNotStarted(i)
           \/ CheckAvailable(i) \/ WaitUploads(i)
  BY <1>1, <1>2 DEF Choose, IncludesCollected, SessionNotStarted, CheckAvailable, WaitUploads
<1>3. CASE WaitForCompiledObj(i) \/ Register(i) \/ Unregister(i) \/ AddRecv(i)
  BY <1>1, <1>3 DEF WaitForCompiledObj, Register, Unregister, AddRecv
<1>4. CASE StartCompilationSession(i) \/ SetWaitUploads(i) \/ AddUploads(i)
  BY <1>1, <1>4 DEF StartCompilationSession, SetWaitUploads, AddUploads
<1>5. CASE StartUploadingFile(i)
  BY <1>1, <1>5 DEF StartUploadingFile
<1> QED
  BY <1>2, <1>3, <1>4, <1>5 DEF Attempt

LEMMA FileQueued ==
  ASSUME Inv, NEW i \in Attempts, StartUploadingFile(i)
  PROVE  /\ WaitedFor(i)' = WaitedFor(i) + 1 /\ OnTheWay(i)' = OnTheWay(i) + 1
         /\ \A j \in Attempts :
              j # i => WaitedFor(j)' = WaitedFor(j) /\ OnTheWay(j)' = OnTheWay(j)
<1>1. /\ chanToUpload \in Seq(Attempts) /\ Typed
      /\ chanToUpload' = Append(chanToUpload, i)
      /\ UNCHANGED <<uploading, reporting, uploaded>>
  BY DEF Inv, Typed, TypeOK, StartUploadingFile, serverVars
<1>2. ASSUME NEW j \in Attempts
      PROVE  /\ WaitedFor(j)' = WaitedFor(j) + (IF j = i THEN 1 ELSE 0)
             /\ OnTheWay(j)' = OnTheWay(j) + (IF j = i THEN 1 ELSE 0)
             /\ WaitedFor(j) \in Nat /\ OnTheWay(j) \in Nat
  <2>1. InQueue(j)' = InQueue(j) + (IF j = i THEN 1 ELSE 0)
    BY <1>1, Appended
  <2>2. /\ InQueue(j) \in Nat /\ InHand(j) \in {0, 1} /\ uploaded[j] \in Nat
        /\ reporting[j] \in Nat
    BY <1>1, OnTheWayIs, TypesOf
  <2>3. InHand(j)' = InHand(j)
    BY <1>1 DEF InHand
  <2>4. /\ WaitedFor(j)' = InQueue(j)' + InHand(j)' + reporting[j]
        /\ OnTheWay(j)' = uploaded[j] + InQueue(j)' + InHand(j)'
    BY <1>1 DEF WaitedFor, OnTheWay
  <2> QED
    BY <2>1, <2>2, <2>3, <2>4 DEF WaitedFor, OnTheWay
<1> QED
  BY <1>2

LEMMA FilesKept ==
  ASSUME Inv, Next
  PROVE  Files'
<1>1. Files /\ Typed /\ Sessions /\ GroupTypes
  BY GroupsTyped DEF Inv
<1>2. \A i \in Attempts :
        /\ OnTheWay(i) \in Nat /\ queued[i] \in Nat /\ nFiles[i] \in Nat
        /\ queued[i] \in 0 .. MaxFiles
  BY <1>1, OnTheWayIs, TypesOf
<1>3. ASSUME NEW i \in Attempts, Attempt(i) \/ Register(i) \/ Unregister(i)
      PROVE  Files'
  <2>1. UNCHANGED <<uploading, reporting, uploaded>>
    BY <1>3, AttemptFrame
  <2>2. \A j \in Attempts :
          j # i => /\ pc'[j] = pc[j] /\ queued'[j] = queued[j] /\ nFiles'[j] = nFiles[j]
                   /\ wgUpload'[j] = wgUpload[j]
    BY <1>3, OtherAttempts
  <2>3. CASE StartUploadingFile(i)
    <3>1. /\ queued' = [queued EXCEPT ![i] = @ + 1] /\ queued[i] < nFiles[i]
          /\ UNCHANGED <<pc, nFiles, wgUpload>> /\ pc[i] = "queueing"
      BY <2>3 DEF StartUploadingFile, At, groupVars
    <3>2. queued'[i] = queued[i] + 1
      BY <1>1, <3>1 DEF Typed, TypeOK
    <3> QED
      BY <1>1, <1>2, <2>2, <2>3, <3>1, <3>2, FileQueued DEF Files, NothingQueued, NoSession
  <2>4. CASE ~ StartUploadingFile(i)
    <3> USE DEF attemptVars, groupVars, uploadVars, At, Goto, Fail
    <3>1. UNCHANGED <<chanToUpload, queued>>
      BY <1>3, <2>4 DEF Attempt, Choose, AddRecv, IncludesCollected, SessionNotStarted,
         StartCompilationSession, CheckAvailable, SetWaitUploads, AddUploads, WaitUploads,
         WaitForCompiledObj, Register, Unregister
    <3>2. \A j \in Attempts : OnTheWay(j)' = OnTheWay(j)
      BY <2>1, <3>1, QueueKept
    <3>3. pc'[i] \in NothingQueued => pc[i] \in NothingQueued /\ wgUpload'[i] = wgUpload[i]
      <4>1. pc \in [Attempts -> Stages]
        BY <1>1 DEF Typed, TypeOK
      <4>2. CASE \/ Choose(i) \/ AddRecv(i) \/ IncludesCollected(i) \/ SessionNotStarted(i)
                 \/ StartCompilationSession(i) \/ CheckAvailable(i) \/ SetWaitUploads(i)
        BY <4>1, <4>2 DEF Choose, AddRecv, IncludesCollected, SessionNotStarted,
           StartCompilationSession, CheckAvailable, SetWaitUploads, NothingQueued, NoSession
      <4>3. CASE \/ AddUploads(i) \/ WaitUploads(i) \/ WaitForCompiledObj(i)
                 \/ Register(i) \/ Unregister(i)
        BY <4>1, <4>3 DEF AddUploads, WaitUploads, WaitForCompiledObj, Register,
           Unregister, NothingQueued, NoSession
      <4> QED
        BY <1>3, <2>4, <4>2, <4>3 DEF Attempt
    <3>4. nFiles'[i] = nFiles[i] \/ (queued[i] = 0 /\ nFiles'[i] \in Nat)
      <4>1. CASE StartCompilationSession(i)
        <5>1. pc[i] = "asking"
          BY <4>1 DEF StartCompilationSession
        <5>2. PICK n \in 0 .. MaxFiles : nFiles' = [nFiles EXCEPT ![i] = n]
          BY <4>1 DEF StartCompilationSession
        <5>3. nFiles'[i] = n /\ n \in Nat
          BY <1>1, <5>2, RemoteAttemptsAssumption DEF Typed, TypeOK
        <5> QED
          BY <1>1, <5>1, <5>3 DEF Files, NothingQueued, NoSession
      <4>2. CASE ~ StartCompilationSession(i)
        BY <1>3, <2>4, <4>2 DEF Attempt, Choose, AddRecv, IncludesCollected,
           SessionNotStarted, CheckAvailable, SetWaitUploads, AddUploads, WaitUploads,
           WaitForCompiledObj, Register, Unregister
      <4> QED
        BY <4>1, <4>2
    <3> HIDE DEF attemptVars, groupVars, uploadVars, At, Goto, Fail
    <3> QED
      BY <1>1, <1>2, <2>2, <3>1, <3>2, <3>3, <3>4 DEF Files
  <2> QED
    BY <2>3, <2>4
<1>4. CASE Uploading
  <2>1. UNCHANGED <<pc, queued, nFiles>>
    BY <1>4, UploadingFrame DEF attemptVars
  <2>2. \A i \in Attempts : /\ OnTheWay(i)' \in Nat /\ OnTheWay(i)' <= OnTheWay(i)
                            /\ wgUpload[i] = 0 => wgUpload'[i] = 0
    BY <1>4, UploadingMoves DEF FileMovedOn
  <2> QED
    BY <1>1, <1>2, <2>1, <2>2 DEF Files
<1>5. CASE Receiving \/ Others
  <2>1. UNCHANGED <<pc, queued, nFiles, uploaded, chanToUpload, uploading, reporting>>
    BY <1>5, ReceivingFrame, OthersFrame DEF attemptVars, uploadVars
  <2>2. \A i \in Attempts : OnTheWay(i)' = OnTheWay(i)
    BY <2>1, QueueKept
  <2>3. \A i \in Attempts : wgUpload[i] = 0 => wgUpload'[i] = 0
    <3>1. ASSUME NEW p \in Interrupters, DrainUpload(p)
          PROVE  \A i \in Attempts : wgUpload[i] = 0 => wgUpload'[i] = 0
      <4>1. PICK i \in Attempts : DoneUploadFile(i, TRUE)
        BY <3>1, HeadIs DEF DrainUpload
      <4> QED
        BY <1>1, <4>1, UploadReleased
    <3>2. ASSUME NEW p \in Interrupters, EndInterrupt(p)
          PROVE  UNCHANGED wgUpload
      BY <3>2 DEF EndInterrupt, DoneRecvObj
    <3>3. CASE Receiving
      BY <3>3, ReceivingFrame
    <3>4. ASSUME NEW late \in SUBSET active, Tick(late)
          PROVE  UNCHANGED wgUpload
      BY <3>4 DEF Tick, groupVars
    <3>6. ASSUME NEW p \in Interrupters, InterruptInvocations(p)
          PROVE  UNCHANGED wgUpload
      BY <3>6 DEF InterruptInvocations, groupVars
    <3>5. CASE Clear \/ Server
      BY <3>5 DEF Clear, Server, ServerReplies, ServerEndsStream, ServerSendsIntoBroken,
         groupVars
    <3> QED
      BY <1>5, <3>1, <3>2, <3>3, <3>4, <3>5, <3>6 DEF Others, Interrupting
  <2> QED
    BY <1>1, <2>1, <2>2, <2>3 DEF Files
<1> QED
  BY <1>3, <1>4, <1>5 DEF Next, Others

LEMMA StaysUnavailable ==
  ASSUME Inv, Next, isUnavailable
  PROVE  isUnavailable'
<1>1. Typed
  BY DEF Inv
<1>2. ASSUME NEW i \in Attempts, Attempt(i) \/ Register(i) \/ Unregister(i)
      PROVE  isUnavailable'
  BY <1>2, AttemptFrame DEF remoteVars
<1>3. CASE Uploading
  <2>1. CASE UploadUnauthenticated \/ UploadStreamNotRecreated
    BY <1>1, <2>1, BecameUnavailable
       DEF UploadUnauthenticated, UploadStreamNotRecreated, Interrupters
  <2>2. CASE \/ TakeRequest \/ UploadSucceeds \/ UploadFails \/ UploadOfCleared
             \/ RecreateUploadStream \/ ReportUploadGivenUp \/ QuitUploading
             \/ \E i \in Attempts : ReportUploadFailed(i)
    BY <2>2 DEF TakeRequest, UploadSucceeds, UploadFails, UploadOfCleared,
       RecreateUploadStream, ReportUploadGivenUp, QuitUploading, ReportUploadFailed,
       remoteVars
  <2> QED
    BY <1>3, <2>1, <2>2 DEF Uploading
<1>4. CASE Receiving
  <2>1. CASE ReceivingGivenUp
    BY <1>1, <2>1, BecameUnavailable DEF ReceivingGivenUp, Interrupters
  <2>2. CASE ~ ReceivingGivenUp
    BY <1>4, <2>2 DEF Receiving, DiscardReply, ReceiveFirstChunk, ObjReceived,
       ObjNotUsable, ObjCutShort, RecvBreaks, OnRecvStreamBroke, StreamEndedByServer,
       RecreateReceiveStream, QuitReceiving, remoteVars
  <2> QED
    BY <2>1, <2>2
<1>5. CASE Others
  BY <1>5, OthersFrame
<1> QED
  BY <1>2, <1>3, <1>4, <1>5 DEF Next, Others

YetToQueue(i) == IF pc[i] \in {"counted", "queueing"} THEN nFiles[i] - queued[i] ELSE 0

LEMMA OwedKept ==
  ASSUME Inv, Next
  PROVE  UploadsAreOwed'
<1> SUFFICES ASSUME ~ isUnavailable', NEW j \in Attempts
             PROVE  waitUploads'[j] <= Owed(j)'
  BY DEF UploadsAreOwed
<1>1. Typed /\ Files /\ UploadsAreOwed /\ GroupTypes
  BY GroupsTyped DEF Inv
<1>2. /\ Running /\ ~ isUnavailable
  BY StaysUnavailable, AttemptFrame, UploadingFrame, ReceivingFrame, OthersFrame
     DEF Next, Others
<1>3. /\ waitUploads[j] \in Nat /\ nFiles[j] \in Nat /\ queued[j] \in Nat
      /\ WaitedFor(j) \in Nat /\ queued[j] <= nFiles[j]
  <2>1. InQueue(j) \in Nat /\ InHand(j) \in {0, 1} /\ reporting[j] \in Nat
    BY <1>1, OnTheWayIs, TypesOf
  <2>2. WaitedFor(j) \in Nat
    BY <2>1 DEF WaitedFor
  <2> QED
    BY <1>1, <2>2, TypesOf DEF Files
<1>4. YetToQueue(j) \in Nat
  BY <1>3 DEF YetToQueue
<1>5. Owed(j) = YetToQueue(j) + WaitedFor(j)
  BY <1>1, <1>3, <1>4, OnTheWayIs, TypesOf DEF Owed, YetToQueue, WaitedFor
<1>6. waitUploads[j] <= YetToQueue(j) + WaitedFor(j)
  BY <1>1, <1>2, <1>5 DEF UploadsAreOwed
<1>7. /\ Typed' /\ Files'
  BY TypesKept, FilesKept
<1>8. /\ waitUploads'[j] \in Nat /\ InQueue(j)' \in Nat /\ InHand(j)' \in {0, 1}
      /\ nFiles'[j] \in Nat /\ queued'[j] \in Nat /\ queued'[j] <= nFiles'[j]
      /\ reporting'[j] \in Nat /\ WaitedFor(j)' \in Nat
  <2>1. /\ waitUploads'[j] \in 0 .. MaxFiles /\ nFiles'[j] \in 0 .. MaxFiles
        /\ queued'[j] \in 0 .. MaxFiles /\ chanToUpload' \in Seq(Attempts)
    BY <1>7 DEF Typed, TypeOK
  <2>2. waitUploads'[j] \in Nat /\ nFiles'[j] \in Nat /\ queued'[j] \in Nat
    BY <2>1, RemoteAttemptsAssumption
  <2>3. InQueue(j)' \in Nat /\ InHand(j)' \in {0, 1} /\ reporting'[j] \in Nat
    BY <1>7, <2>1, Counted DEF InQueue, InHand, Typed, TypeOK
  <2>4. queued'[j] <= nFiles'[j]
    BY <1>7 DEF Files
  <2> QED
    BY <2>2, <2>3, <2>4 DEF WaitedFor
<1>9. Owed(j)' = YetToQueue(j)' + WaitedFor(j)' /\ YetToQueue(j)' \in Nat
  BY <1>8 DEF Owed, YetToQueue, WaitedFor
<1>10. ASSUME YetToQueue(j)' = YetToQueue(j), WaitedFor(j)' = WaitedFor(j),
              waitUploads'[j] <= waitUploads[j]
       PROVE  waitUploads'[j] <= Owed(j)'
  BY <1>3, <1>4, <1>6, <1>8, <1>9, <1>10
<1>11. ASSUME NEW i \in Attempts, Attempt(i) \/ Register(i) \/ Unregister(i)
       PROVE  waitUploads'[j] <= Owed(j)'
  <2>1. UNCHANGED <<uploading, reporting>>
    BY <1>11, AttemptFrame
  <2>2. j # i => /\ pc'[j] = pc[j] /\ queued'[j] = queued[j] /\ nFiles'[j] = nFiles[j]
                 /\ waitUploads'[j] = waitUploads[j]
    BY <1>11, OtherAttempts
  <2>3. j # i => YetToQueue(j)' = YetToQueue(j)
    BY <2>2 DEF YetToQueue
  <2>4. CASE StartUploadingFile(i)
    <3>1. /\ queued' = [queued EXCEPT ![i] = @ + 1] /\ pc[i] = "queueing"
          /\ UNCHANGED <<pc, nFiles, waitUploads>>
      BY <2>4 DEF StartUploadingFile, At, groupVars
    <3>2. CASE j # i
      BY <1>3, <1>10, <2>3, <2>4, <3>1, <3>2, FileQueued
    <3>3. CASE j = i
      <4>1. queued'[j] = queued[j] + 1
        BY <1>1, <3>1, <3>3 DEF Typed, TypeOK
      <4>2. YetToQueue(j)' = YetToQueue(j) - 1
        BY <1>3, <3>1, <3>3, <4>1 DEF YetToQueue
      <4>3. WaitedFor(j)' = WaitedFor(j) + 1
        BY <2>4, <3>3, FileQueued
      <4> QED
        BY <1>3, <1>4, <1>6, <1>9, <3>1, <4>2, <4>3
    <3> QED
      BY <3>2, <3>3
  <2>5. CASE ~ StartUploadingFile(i)
    <3> USE DEF attemptVars, groupVars, uploadVars, At, Goto, Fail
    <3>1. UNCHANGED chanToUpload
      BY <1>11, <2>5 DEF Attempt, Choose, AddRecv, IncludesCollected, SessionNotStarted,
         StartCompilationSession, CheckAvailable, SetWaitUploads, AddUploads, WaitUploads,
         WaitForCompiledObj, Register, Unregister
    <3>2. WaitedFor(j)' = WaitedFor(j)
      BY <2>1, <3>1, QueueKept
    <3>3. CASE j # i
      BY <1>3, <1>10, <2>2, <2>3, <3>2, <3>3
    <3>4. CASE SetWaitUploads(i) /\ j = i
      <4>1. pc[i] = "checked" /\ UNCHANGED <<nFiles, queued>> /\ pc' = [pc EXCEPT ![i] = "counted"]
            /\ waitUploads' = [waitUploads EXCEPT ![i] = nFiles[i]]
        BY <3>4 DEF SetWaitUploads
      <4>2. queued[j] = 0 /\ pc'[j] = "counted" /\ waitUploads'[j] = nFiles[j]
        BY <1>1, <3>4, <4>1 DEF Typed, TypeOK, Files, NothingQueued
      <4>3. YetToQueue(j)' = nFiles[j]
        BY <1>3, <4>1, <4>2 DEF YetToQueue
      <4> QED
        BY <1>3, <1>8, <1>9, <4>2, <4>3
    <3>5. CASE ~ SetWaitUploads(i) /\ j = i
      <4>1. pc \in [Attempts -> Stages] /\ queued[j] \in Nat
        BY <1>1, <1>3 DEF Typed, TypeOK
      <4>2. waitUploads'[j] = waitUploads[j]
        BY <1>11, <2>5, <3>5 DEF Attempt, Choose, AddRecv, IncludesCollected,
           SessionNotStarted, StartCompilationSession, CheckAvailable, AddUploads, WaitUploads,
           WaitForCompiledObj, Register, Unregister
      <4>3. YetToQueue(j)' = YetToQueue(j)
        <5>1. CASE \/ Choose(i) \/ AddRecv(i) \/ IncludesCollected(i) \/ SessionNotStarted(i)
                   \/ CheckAvailable(i) \/ Register(i) \/ Unregister(i)
          BY <3>5, <4>1, <5>1 DEF Choose, AddRecv, IncludesCollected, SessionNotStarted,
             CheckAvailable, Register, Unregister, YetToQueue
        <5>2. CASE StartCompilationSession(i)
          BY <3>5, <4>1, <5>2 DEF StartCompilationSession, YetToQueue
        <5>3. CASE AddUploads(i) \/ WaitForCompiledObj(i)
          BY <3>5, <4>1, <5>3 DEF AddUploads, WaitForCompiledObj, YetToQueue
        <5>4. CASE WaitUploads(i)
          <6>1. pc[j] = "queueing" /\ queued[j] = nFiles[j] /\ pc'[j] \in {"leaving", "receiving"}
            BY <3>5, <4>1, <5>4 DEF WaitUploads
          <6> QED
            BY <1>3, <6>1 DEF YetToQueue
        <5> QED
          BY <1>11, <2>5, <3>5, <5>1, <5>2, <5>3, <5>4 DEF Attempt
      <4> QED
        BY <1>3, <1>10, <3>2, <4>2, <4>3
    <3> QED
      BY <3>3, <3>4, <3>5
  <2> QED
    BY <2>4, <2>5
<1>12. CASE Uploading
  <2>1. UNCHANGED <<pc, queued, nFiles>>
    BY <1>12, UploadingFrame DEF attemptVars
  <2>2. YetToQueue(j)' = YetToQueue(j)
    BY <2>1 DEF YetToQueue
  <2>3. LessIsAwaited(j)
    BY <1>12, UploadingMoves
  <2> QED
    BY <1>3, <1>4, <1>6, <1>8, <1>9, <2>2, <2>3 DEF LessIsAwaited
<1>13. CASE Receiving \/ Others
  <2>1. UNCHANGED <<pc, queued, nFiles, chanToUpload, uploading, reporting>>
    BY <1>13, ReceivingFrame, OthersFrame DEF attemptVars, uploadVars
  <2>2. YetToQueue(j)' = YetToQueue(j) /\ WaitedFor(j)' = WaitedFor(j)
    BY <2>1, QueueKept DEF YetToQueue
  <2>3. waitUploads'[j] <= waitUploads[j]
    <3>1. ASSUME NEW p \in Interrupters, DrainUpload(p)
          PROVE  waitUploads'[j] <= waitUploads[j]
      <4>1. PICK i \in Attempts : DoneUploadFile(i, TRUE)
        BY <3>1, HeadIs DEF DrainUpload
      <4>2. /\ waitUploads'[i] = (IF waitUploads[i] = 0 THEN 0 ELSE waitUploads[i] - 1)
            /\ j # i => waitUploads'[j] = waitUploads[j]
        BY <1>1, <4>1, UploadReleased
      <4> QED
        BY <1>3, <4>2
    <3>2. ASSUME NEW p \in Interrupters, EndInterrupt(p)
          PROVE  UNCHANGED waitUploads
      BY <3>2 DEF EndInterrupt, DoneRecvObj
    <3>3. CASE Receiving
      BY <1>3, <3>3, ReceivingFrame
    <3>4. ASSUME NEW late \in SUBSET active, Tick(late)
          PROVE  UNCHANGED waitUploads
      BY <3>4 DEF Tick, groupVars
    <3>6. ASSUME NEW p \in Interrupters, InterruptInvocations(p)
          PROVE  UNCHANGED waitUploads
      BY <3>6 DEF InterruptInvocations, groupVars
    <3>5. CASE Clear \/ Server
      BY <1>3, <3>5 DEF Clear, Server, ServerReplies, ServerEndsStream,
         ServerSendsIntoBroken, groupVars
    <3> QED
      BY <1>3, <1>13, <3>1, <3>2, <3>3, <3>4, <3>5, <3>6 DEF Others, Interrupting
  <2> QED
    BY <1>10, <2>2, <2>3
<1> QED
  BY <1>11, <1>12, <1>13 DEF Next, Others

LEMMA SessionsKept ==
  ASSUME Inv, Next
  PROVE  Sessions'
<1>1. /\ Sessions /\ Typed /\ pc \in [Attempts -> Stages]
      /\ session \in [Attempts -> {"none", "open", "over"}]
  BY DEF Inv, Typed, TypeOK
<1>2. ASSUME NEW i \in Attempts, Attempt(i) \/ Register(i) \/ Unregister(i)
      PROVE  Sessions'
  <2>1. UNCHANGED uploaded
    BY <1>2, AttemptFrame
  <2>2. \A j \in Attempts :
          j # i => /\ pc'[j] = pc[j] /\ session'[j] = session[j] /\ nFiles'[j] = nFiles[j]
    BY <1>2, OtherAttempts
  <2>3. CASE StartCompilationSession(i)
    <3>1. session'[i] = "open" /\ pc'[i] = "started"
      BY <1>1, <2>3 DEF StartCompilationSession, Goto
    <3> QED
      BY <1>1, <2>1, <2>2, <3>1 DEF Sessions, NoSession
  <2>4. CASE ~ StartCompilationSession(i)
    <3> USE DEF attemptVars, serverVars, At, Goto, Fail
    <3>1. UNCHANGED <<session, nFiles>>
      BY <1>2, <2>4 DEF Attempt, Choose, AddRecv, IncludesCollected, SessionNotStarted,
         CheckAvailable, SetWaitUploads, AddUploads, StartUploadingFile, WaitUploads,
         WaitForCompiledObj, Register, Unregister
    <3>2. /\ pc'[i] \in NoSession => pc[i] \in NoSession
          /\ pc'[i] \notin NoSession \cup {"leaving", "ended"}
               => pc[i] \notin NoSession \cup {"leaving", "ended"}
      <4>1. CASE \/ Choose(i) \/ AddRecv(i) \/ IncludesCollected(i) \/ SessionNotStarted(i)
                 \/ CheckAvailable(i)
        BY <1>1, <4>1 DEF Choose, AddRecv, IncludesCollected, SessionNotStarted,
           CheckAvailable, NoSession
      <4>2. CASE \/ SetWaitUploads(i) \/ AddUploads(i) \/ StartUploadingFile(i)
                 \/ WaitUploads(i)
        BY <1>1, <4>2 DEF SetWaitUploads, AddUploads, StartUploadingFile, WaitUploads,
           NoSession
      <4>3. CASE WaitForCompiledObj(i) \/ Register(i) \/ Unregister(i)
        BY <1>1, <4>3 DEF WaitForCompiledObj, Register, Unregister, NoSession
      <4> QED
        BY <1>2, <2>4, <4>1, <4>2, <4>3 DEF Attempt
    <3> QED
      BY <1>1, <2>1, <2>2, <3>1, <3>2 DEF Sessions
  <2> QED
    BY <2>3, <2>4
<1>3. CASE Uploading
  <2>1. UNCHANGED <<pc, session, nFiles>>
    BY <1>3, UploadingFrame DEF attemptVars
  <2>2. \A i \in Attempts : uploaded'[i] = uploaded[i] \/ uploaded[i] < nFiles[i]
    BY <1>3, UploadingMoves DEF FileMovedOn
  <2>3. \A i \in Attempts : uploaded[i] = nFiles[i] => ~ (uploaded[i] < nFiles[i])
    BY <1>1, TypesOf
  <2> QED
    BY <1>1, <2>1, <2>2, <2>3 DEF Sessions
<1>4. CASE Receiving
  BY <1>1, <1>4, ReceivingFrame DEF attemptVars, Sessions
<1>5. CASE Others
  <2>1. UNCHANGED <<pc, nFiles, uploaded>>
    BY <1>5, OthersFrame DEF attemptVars
  <2>2. CASE UNCHANGED session
    BY <1>1, <2>1, <2>2 DEF Sessions
  <2>3. CASE Server
    <3>1. PICK i \in Attempts : HasReply(i) /\ session' = [session EXCEPT ![i] = "over"]
      BY <2>3 DEF Server, ServerReplies, ServerEndsStream, ServerSendsIntoBroken
    <3>2. session[i] # "none" /\ uploaded[i] = nFiles[i] /\ session'[i] = "over"
          /\ \A j \in Attempts : j # i => session'[j] = session[j]
      BY <1>1, <3>1 DEF HasReply
    <3> QED
      BY <1>1, <2>1, <3>2 DEF Sessions
  <2>4. ASSUME NEW p \in Interrupters, Interrupting(p)
        PROVE  UNCHANGED session
    BY <2>4 DEF Interrupting, InterruptInvocations, DrainUpload, EndInterrupt, serverVars
  <2>5. ASSUME NEW late \in SUBSET active, Tick(late)
        PROVE  UNCHANGED session
    BY <2>5 DEF Tick, serverVars
  <2>6. CASE Clear
    BY <2>2, <2>6 DEF Clear, serverVars
  <2> QED
    BY <1>5, <2>2, <2>3, <2>4, <2>5, <2>6 DEF Others
<1> QED
  BY <1>2, <1>3, <1>4, <1>5 DEF Next, Others

(***************************************************************************)
(* The .o of an attempt is given up or received once.                      *)
(***************************************************************************)
LEMMA ObjDone ==
  ASSUME Inv, Running, NEW i \in Attempts, NEW failed \in BOOLEAN, DoneRecvObj(i, failed),
         UNCHANGED pc, received \subseteq received', failed \/ i \in received'
  PROVE  Groups'
<1> SUFFICES ASSUME Running', NEW j \in Attempts
             PROVE  /\ pc'[j] \in NotAdded => wgRecv'[j] = 0 /\ ~ doneRecv'[j]
                    /\ pc'[j] \notin NotAdded \cup {"ended"} =>
                         (wgRecv'[j] = 0 <=> doneRecv'[j])
                    /\ doneRecv'[j] => wgRecv'[j] = 0 /\ (err'[j] \/ j \in received')
  BY DEF Groups
<1>1. /\ Groups /\ GroupTypes /\ panicked' = "no"
  BY GroupsTyped DEF Inv, Running
<1>2. /\ doneRecv' = [doneRecv EXCEPT ![i] = TRUE]
      /\ doneRecv[i] => UNCHANGED <<err, wgRecv, panicked>>
      /\ ~ doneRecv[i] => /\ err' = [err EXCEPT ![i] = @ \/ failed]
                          /\ wgRecv'[i] = 0
                          /\ wgRecv[i] = 0 => panicked' = "recv"
      /\ \A k \in Attempts : k # i => wgRecv'[k] = wgRecv[k]
  BY <1>1, ObjReleased
<1>3. /\ pc[j] \in NotAdded => wgRecv[j] = 0 /\ ~ doneRecv[j]
      /\ pc[j] \notin NotAdded \cup {"ended"} => (wgRecv[j] = 0 <=> doneRecv[j])
      /\ doneRecv[j] => wgRecv[j] = 0 /\ (err[j] \/ j \in received)
  BY <1>1 DEF Groups
<1>4. CASE doneRecv[i]
  <2>1. doneRecv' = doneRecv /\ UNCHANGED <<err, wgRecv>>
    BY <1>1, <1>2, <1>4 DEF GroupTypes
  <2> QED
    BY <1>3, <2>1
<1>5. CASE ~ doneRecv[i] /\ j = i
  <2>1. wgRecv[i] # 0
    BY <1>1, <1>2, <1>5
  <2>2. wgRecv'[j] = 0 /\ doneRecv'[j] /\ (failed => err'[j])
    BY <1>1, <1>2, <1>5 DEF GroupTypes
  <2> QED
    BY <1>3, <1>5, <2>1, <2>2
<1>6. CASE ~ doneRecv[i] /\ j # i
  <2>1. doneRecv'[j] = doneRecv[j] /\ err'[j] = err[j] /\ wgRecv'[j] = wgRecv[j]
    BY <1>1, <1>2, <1>6 DEF GroupTypes
  <2> QED
    BY <1>3, <2>1
<1> QED
  BY <1>4, <1>5, <1>6

LEMMA GroupsKept ==
  ASSUME Inv, Next
  PROVE  Groups'
<1>1. Groups /\ GroupTypes /\ pc \in [Attempts -> Stages]
  BY GroupsTyped DEF Inv, Typed, TypeOK
<1>2. Running
  BY AttemptFrame, UploadingFrame, ReceivingFrame, OthersFrame DEF Next, Others
<1>3. ASSUME UNCHANGED <<pc, wgRecv, doneRecv>>, received \subseteq received',
             \A j \in Attempts : err[j] => err'[j]
      PROVE  Groups'
  BY <1>1, <1>2, <1>3 DEF Groups
<1>4. ASSUME NEW i \in Attempts, Attempt(i) \/ Register(i) \/ Unregister(i)
      PROVE  Groups'
  <2>1. UNCHANGED <<doneRecv, err, received>>
    BY <1>4, AttemptFrame DEF recvVars
  <2>2. \A j \in Attempts : j # i => pc'[j] = pc[j] /\ wgRecv'[j] = wgRecv[j]
    BY <1>4, OtherAttempts
  <2>3. CASE AddRecv(i)
    <3>1. pc[i] = "registered" /\ pc'[i] = "collecting" /\ wgRecv'[i] = wgRecv[i] + 1
      BY <1>1, <2>3 DEF AddRecv, At, Goto, GroupTypes
    <3>2. wgRecv[i] = 0 /\ ~ doneRecv[i]
      BY <1>1, <1>2, <3>1 DEF Groups, NotAdded
    <3> QED
      BY <1>1, <1>2, <2>1, <2>2, <3>1, <3>2 DEF Groups, NotAdded
  <2>4. CASE ~ AddRecv(i)
    <3> USE DEF attemptVars, groupVars, At, Goto, Fail
    <3>1. UNCHANGED wgRecv
      BY <1>4, <2>4 DEF Attempt, Choose, IncludesCollected, SessionNotStarted,
         StartCompilationSession, CheckAvailable, SetWaitUploads, AddUploads,
         StartUploadingFile, WaitUploads, WaitForCompiledObj, Register, Unregister
    <3>2. \/ pc'[i] = "ended"
          \/ pc[i] \in NotAdded /\ pc'[i] \in NotAdded
          \/ pc[i] \notin NotAdded \cup {"ended"} /\ pc'[i] \notin NotAdded
      <4>1. CASE \/ Choose(i) \/ IncludesCollected(i) \/ SessionNotStarted(i)
                 \/ StartCompilationSession(i)
        BY <1>1, <4>1 DEF Choose, IncludesCollected, SessionNotStarted,
           StartCompilationSession, NotAdded
      <4>2. CASE CheckAvailable(i) \/ SetWaitUploads(i) \/ AddUploads(i)
        BY <1>1, <4>2 DEF CheckAvailable, SetWaitUploads, AddUploads, NotAdded
      <4>3. CASE StartUploadingFile(i) \/ WaitUploads(i) \/ WaitForCompiledObj(i)
        BY <1>1, <4>3 DEF StartUploadingFile, WaitUploads, WaitForCompiledObj, NotAdded
      <4>4. CASE Register(i) \/ Unregister(i)
        BY <1>1, <4>4 DEF Register, Unregister, NotAdded
      <4> QED
        BY <1>4, <2>4, <4>1, <4>2, <4>3, <4>4 DEF Attempt
    <3>3. "ended" \notin NotAdded
      BY DEF NotAdded
    <3> HIDE DEF attemptVars, groupVars, At, Goto, Fail
    <3> QED
      BY <1>1, <1>2, <2>1, <2>2, <3>1, <3>2, <3>3 DEF Groups
  <2> QED
    BY <2>3, <2>4
<1>5. CASE Uploading
  <2>1. UNCHANGED <<pc, wgRecv, doneRecv, received>>
    BY <1>5, UploadingFrame DEF attemptVars, recvVars
  <2>2. \A j \in Attempts : err[j] => err'[j]
    <3>1. CASE \E i \in Attempts, f \in BOOLEAN : DoneUploadFile(i, f)
      <4>1. PICK i \in Attempts, f \in BOOLEAN : err' = [err EXCEPT ![i] = @ \/ f]
        BY <3>1 DEF DoneUploadFile
      <4> QED
        BY <1>1, <4>1 DEF GroupTypes
    <3>2. CASE UploadSucceeds \/ UploadOfCleared \/ ReportUploadGivenUp
      <4>1. uploading \in Attempts
        BY <3>2, InHandIs DEF UploadSucceeds, UploadOfCleared, ReportUploadGivenUp,
           UploadAt, Inv, Hands
      <4> QED
        BY <3>1, <3>2, <4>1 DEF UploadSucceeds, UploadOfCleared, ReportUploadGivenUp
    <3>3. CASE \/ TakeRequest \/ UploadFails \/ UploadUnauthenticated
               \/ RecreateUploadStream \/ UploadStreamNotRecreated \/ QuitUploading
      BY <3>3 DEF TakeRequest, UploadFails, UploadUnauthenticated, RecreateUploadStream,
         UploadStreamNotRecreated, QuitUploading, groupVars
    <3>4. CASE \E i \in Attempts : ReportUploadFailed(i)
      BY <3>1, <3>4 DEF ReportUploadFailed
    <3> QED
      BY <1>5, <3>2, <3>3, <3>4 DEF Uploading
  <2> QED
    BY <1>3, <2>1, <2>2
<1>6. CASE Receiving
  <2>1. UNCHANGED pc
    BY <1>6, ReceivingFrame DEF attemptVars
  <2>2. CASE ObjReceived \/ ObjNotUsable \/ ObjCutShort
    <3>1. receiving \in Attempts
      BY <2>2 DEF ObjReceived, ObjNotUsable, ObjCutShort, RecvAt, Inv, Hands, Typed, TypeOK
    <3>2. CASE ObjReceived
      BY <1>2, <2>1, <3>1, <3>2, ObjDone DEF ObjReceived
    <3>3. CASE ObjNotUsable \/ ObjCutShort
      BY <1>2, <2>1, <3>1, <3>3, ObjDone DEF ObjNotUsable, ObjCutShort
    <3> QED
      BY <2>2, <3>2, <3>3
  <2>3. CASE StreamEndedByServer
    <3>1. UNCHANGED received /\ trailer \in Attempts
      BY <2>3 DEF StreamEndedByServer, Inv, Typed, TypeOK
    <3>2. CASE UNCHANGED groupVars
      BY <1>3, <2>1, <3>1, <3>2 DEF groupVars
    <3>3. CASE DoneRecvObj(trailer, TRUE)
      BY <1>2, <2>1, <3>1, <3>3, ObjDone
    <3> QED
      BY <2>3, <3>2, <3>3 DEF StreamEndedByServer
  <2>4. CASE /\ ~ (ObjReceived \/ ObjNotUsable \/ ObjCutShort)
             /\ ~ StreamEndedByServer
    <3>1. UNCHANGED groupVars /\ UNCHANGED received
      BY <1>6, <2>4 DEF Receiving, DiscardReply, ReceiveFirstChunk, RecvBreaks,
         OnRecvStreamBroke, RecreateReceiveStream, ReceivingGivenUp, QuitReceiving,
         recvVars
    <3> QED
      BY <1>3, <2>1, <3>1 DEF groupVars
  <2> QED
    BY <2>2, <2>3, <2>4
<1>7. CASE Others
  <2>1. UNCHANGED <<pc, received>>
    BY <1>7, OthersFrame DEF attemptVars, recvVars
  <2>2. ASSUME NEW p \in Interrupters, DrainUpload(p)
        PROVE  Groups'
    <3>1. PICK i \in Attempts : DoneUploadFile(i, TRUE)
      BY <2>2, HeadIs DEF DrainUpload
    <3>2. UNCHANGED <<wgRecv, doneRecv>> /\ err' = [err EXCEPT ![i] = @ \/ TRUE]
      BY <3>1 DEF DoneUploadFile
    <3>3. \A j \in Attempts : err[j] => err'[j]
      BY <1>1, <3>2 DEF GroupTypes
    <3> QED
      BY <1>3, <2>1, <3>2, <3>3
  <2>3. ASSUME NEW p \in Interrupters, EndInterrupt(p)
        PROVE  Groups'
    <3>1. PICK i \in Attempts : DoneRecvObj(i, TRUE)
      BY <2>3, HeadIs DEF EndInterrupt
    <3> QED
      BY <1>2, <2>1, <3>1, ObjDone
  <2>4. ASSUME NEW late \in SUBSET active, Tick(late)
        PROVE  UNCHANGED groupVars
    BY <2>4 DEF Tick
  <2>5. CASE Clear \/ Server
    BY <1>3, <2>1, <2>5 DEF Clear, Server, ServerReplies, ServerEndsStream,
       ServerSendsIntoBroken, groupVars
  <2>6. ASSUME NEW p \in Interrupters, InterruptInvocations(p)
        PROVE  UNCHANGED groupVars
    BY <2>6 DEF InterruptInvocations
  <2> QED
    BY <1>3, <1>7, <2>1, <2>2, <2>3, <2>4, <2>5, <2>6 DEF Others, Interrupting, groupVars
<1> QED
  BY <1>4, <1>5, <1>6, <1>7 DEF Next, Others

LEMMA RepliesKept ==
  ASSUME Inv, Next
  PROVE  Replies'
<1>1. /\ Replies /\ Typed /\ Sessions /\ None \notin Attempts
      /\ session \in [Attempts -> {"none", "open", "over"}]
      /\ inFlight \subseteq Attempts /\ lost \subseteq Attempts /\ received \subseteq Attempts
      /\ receiving \in Attempts \cup {None}
  BY RemoteAttemptsAssumption DEF Inv, Typed, TypeOK
<1>2. ASSUME UNCHANGED <<receiving, received, lost, inFlight>>,
             \A j \in Attempts : session[j] = "over" => session'[j] = "over"
      PROVE  Replies'
  BY <1>1, <1>2 DEF Replies
<1>3. ASSUME NEW i \in Attempts, Attempt(i) \/ Register(i) \/ Unregister(i)
      PROVE  Replies'
  <2>1. UNCHANGED <<receiving, received, lost, inFlight>>
    BY <1>3, AttemptFrame DEF recvVars
  <2>2. \A j \in Attempts : j # i => session'[j] = session[j]
    BY <1>3, OtherAttempts
  <2>3. session[i] = "over" => session'[i] = "over"
    <3>1. CASE StartCompilationSession(i)
      BY <1>1, <3>1 DEF StartCompilationSession, At, Sessions, NoSession
    <3>2. CASE ~ StartCompilationSession(i)
      BY <1>3, <3>2 DEF Attempt, Choose, AddRecv, IncludesCollected, SessionNotStarted,
         CheckAvailable, SetWaitUploads, AddUploads, StartUploadingFile, WaitUploads,
         WaitForCompiledObj, Register, Unregister, serverVars
    <3> QED
      BY <3>1, <3>2
  <2> QED
    BY <1>2, <2>1, <2>2, <2>3
<1>4. CASE Uploading
  BY <1>2, <1>4, UploadingFrame DEF recvVars
<1>5. CASE Receiving
  <2>1. UNCHANGED session
    BY <1>5, ReceivingFrame
  <2>2. ASSUME NEW i \in Attempts, DiscardReply(i)
        PROVE  Replies'
    BY <1>1, <2>1, <2>2 DEF DiscardReply, recvVars, Replies
  <2>3. ASSUME NEW i \in Attempts, ReceiveFirstChunk(i)
        PROVE  Replies'
    BY <1>1, <2>1, <2>3 DEF ReceiveFirstChunk, Replies
  <2>4. CASE ObjReceived
    <3>1. /\ receiving' = None /\ received' = received \cup {receiving}
          /\ UNCHANGED <<lost, inFlight>>
      BY <2>4 DEF ObjReceived, serverVars
    <3>2. receiving \in Attempts
      BY <1>1, <2>4 DEF ObjReceived, RecvAt, Inv, Hands
    <3>3. /\ session[receiving] = "over"
          /\ \A j \in Attempts : j \in inFlight \cup lost \cup received => session[j] = "over"
          /\ receiving \notin inFlight \cup lost \cup received
          /\ inFlight \cap lost = {} /\ inFlight \cap received = {}
          /\ lost \cap received = {}
      BY <1>1, <3>2 DEF Replies
    <3> QED
      BY <1>1, <2>1, <3>1, <3>2, <3>3 DEF Replies
  <2>5. CASE ObjNotUsable
    <3>1. receiving' = None /\ UNCHANGED <<received, lost, inFlight>>
      BY <2>5 DEF ObjNotUsable, serverVars
    <3> QED
      BY <1>1, <2>1, <3>1 DEF Replies
  <2>6. CASE ObjCutShort \/ RecvBreaks \/ ReceivingGivenUp \/ QuitReceiving
    <3>1. /\ receiving' \in {receiving, None} /\ UNCHANGED received
          /\ lost' = lost \cup inFlight /\ inFlight' = {}
      BY <2>6 DEF ObjCutShort, RecvBreaks, ReceivingGivenUp, QuitReceiving
    <3> QED
      BY <1>1, <2>1, <3>1 DEF Replies
  <2>7. CASE OnRecvStreamBroke \/ StreamEndedByServer \/ RecreateReceiveStream
    <3>1. UNCHANGED <<receiving, received, lost, inFlight>>
      BY <2>7 DEF OnRecvStreamBroke, StreamEndedByServer, RecreateReceiveStream, serverVars
    <3> QED
      BY <1>2, <2>1, <3>1
  <2> QED
    BY <1>5, <2>2, <2>3, <2>4, <2>5, <2>6, <2>7 DEF Receiving
<1>6. CASE Others
  <2>1. UNCHANGED <<receiving, received, lost>>
    BY <1>6, OthersFrame DEF recvVars
  <2>2. CASE Server
    <3>1. PICK i \in Attempts :
            /\ HasReply(i) /\ session' = [session EXCEPT ![i] = "over"]
            /\ inFlight' = inFlight \/ inFlight' = inFlight \cup {i}
      BY <2>2 DEF Server, ServerReplies, ServerEndsStream, ServerSendsIntoBroken
    <3>2. /\ session[i] = "open" /\ session'[i] = "over"
          /\ \A j \in Attempts : j # i => session'[j] = session[j]
      BY <1>1, <3>1 DEF HasReply
    <3>3. i \notin inFlight \cup lost \cup received /\ i # receiving
      BY <1>1, <3>2 DEF Replies
    <3> QED
      BY <1>1, <2>1, <3>1, <3>2, <3>3 DEF Replies
  <2>3. CASE ~ Server
    <3>1. UNCHANGED serverVars
      BY <1>6, <2>3 DEF Others, Interrupting, InterruptInvocations, DrainUpload, EndInterrupt,
         Tick, Clear
    <3> QED
      BY <1>2, <2>1, <3>1 DEF serverVars
  <2> QED
    BY <2>2, <2>3
<1> QED
  BY <1>3, <1>4, <1>5, <1>6 DEF Next, Others

(***************************************************************************)
(* What an attempt was told lasts.                                         *)
(***************************************************************************)
LEMMA DoneStays ==
  ASSUME Inv, Next, NEW i \in Attempts, doneRecv[i]
  PROVE  doneRecv'[i]
<1>1. GroupTypes
  BY GroupsTyped DEF Inv
<1>2. ASSUME NEW j \in Attempts, NEW failed \in BOOLEAN, DoneRecvObj(j, failed)
      PROVE  doneRecv'[i]
  BY <1>1, <1>2, ObjReleased DEF GroupTypes
<1>3. ASSUME NEW j \in Attempts, Attempt(j) \/ Register(j) \/ Unregister(j)
      PROVE  doneRecv'[i]
  BY <1>3, AttemptFrame
<1>4. CASE Uploading
  BY <1>4, UploadingFrame
<1>5. CASE ObjReceived \/ ObjNotUsable \/ ObjCutShort
  <2>1. receiving \in Attempts
    BY <1>5 DEF ObjReceived, ObjNotUsable, ObjCutShort, RecvAt, Inv, Hands, Typed, TypeOK
  <2> QED
    BY <1>2, <1>5, <2>1 DEF ObjReceived, ObjNotUsable, ObjCutShort
<1>6. CASE StreamEndedByServer
  <2>1. trailer \in Attempts
    BY <1>6 DEF StreamEndedByServer, Inv, Typed, TypeOK
  <2> QED
    BY <1>2, <1>6, <2>1 DEF StreamEndedByServer, groupVars
<1>7. CASE Receiving /\ ~ (ObjReceived \/ ObjNotUsable \/ ObjCutShort \/ StreamEndedByServer)
  <2>1. UNCHANGED groupVars
    BY <1>7 DEF Receiving, DiscardReply, ReceiveFirstChunk, RecvBreaks, OnRecvStreamBroke,
       RecreateReceiveStream, ReceivingGivenUp, QuitReceiving
  <2> QED
    BY <2>1 DEF groupVars
<1>8. ASSUME NEW p \in Interrupters, Interrupting(p)
      PROVE  doneRecv'[i]
  <2>1. CASE DrainUpload(p)
    BY <2>1 DEF DrainUpload, DoneUploadFile
  <2>2. CASE EndInterrupt(p)
    BY <1>2, <2>2, HeadIs DEF EndInterrupt
  <2>3. CASE InterruptInvocations(p)
    BY <2>3 DEF InterruptInvocations, groupVars
  <2> QED
    BY <1>8, <2>1, <2>2, <2>3 DEF Interrupting
<1>9. CASE (\E late \in SUBSET active : Tick(late)) \/ Clear \/ Server
  BY <1>9 DEF Tick, Clear, Server, ServerReplies, ServerEndsStream, ServerSendsIntoBroken,
     groupVars
<1> QED
  BY <1>3, <1>4, <1>5, <1>6, <1>7, <1>8, <1>9 DEF Next

LEMMA NobodyInterrupts ==
  ASSUME NEW p, interrupting[p] = <<>>, NEW i
  PROVE  ~ InterruptedBy(p, i)
  BY DEF InterruptedBy

LEMMA InterruptedStays ==
  ASSUME Inv, Next, NEW i \in Attempts, InterruptedBy("recv", i), recv = "recreating"
  PROVE  InterruptedBy("recv", i)' \/ doneRecv'[i]
<1>1. /\ Typed /\ Interrupts /\ GroupTypes /\ interrupting["recv"] # <<>>
      /\ interrupting \in [Interrupters -> Seq(Attempts)] /\ "recv" \in Interrupters
  BY GroupsTyped, NobodyInterrupts DEF Inv, Typed, TypeOK, Interrupters
<1>2. ASSUME interrupting'["recv"] = interrupting["recv"]
      PROVE  InterruptedBy("recv", i)'
  BY <1>2 DEF InterruptedBy
<1>3. ASSUME NEW j \in Attempts, Attempt(j) \/ Register(j) \/ Unregister(j)
      PROVE  InterruptedBy("recv", i)'
  BY <1>2, <1>3, AttemptFrame
<1>4. CASE Uploading
  BY <1>2, <1>4, UploadingFrame
<1>5. CASE Receiving
  <2>1. UNCHANGED interrupting
    BY <1>5 DEF Receiving, DiscardReply, ReceiveFirstChunk, ObjReceived, ObjNotUsable,
       ObjCutShort, RecvBreaks, OnRecvStreamBroke, StreamEndedByServer,
       RecreateReceiveStream, ReceivingGivenUp, QuitReceiving, RecvAt
  <2> QED
    BY <1>2, <2>1
<1>6. ASSUME NEW q \in Interrupters, EndInterrupt(q)
      PROVE  InterruptedBy("recv", i)' \/ doneRecv'[i]
  <2>1. CASE q # "recv"
    BY <1>1, <1>2, <1>6, <2>1 DEF EndInterrupt
  <2>2. CASE q = "recv"
    <3>1. CASE i = Head(interrupting["recv"])
      <4>1. DoneRecvObj(i, TRUE)
        BY <1>6, <2>2, <3>1 DEF EndInterrupt
      <4>2. doneRecv' = [doneRecv EXCEPT ![i] = TRUE]
        BY <1>1, <4>1, ObjReleased
      <4>3. doneRecv \in [Attempts -> BOOLEAN]
        BY <1>1 DEF GroupTypes
      <4> QED
        BY <4>2, <4>3
    <3>2. CASE i # Head(interrupting["recv"])
      <4>1. \E k \in DOMAIN Tail(interrupting["recv"]) : Tail(interrupting["recv"])[k] = i
        BY <1>1, <3>2, HeadIs
      <4>2. interrupting'["recv"] = Tail(interrupting["recv"])
        BY <1>1, <1>6, <2>2 DEF EndInterrupt
      <4> QED
        BY <4>1, <4>2 DEF InterruptedBy
    <3> QED
      BY <3>1, <3>2
  <2> QED
    BY <2>1, <2>2
<1>7. ASSUME NEW late \in SUBSET active, Tick(late)
      PROVE  FALSE
  BY <1>1, <1>7 DEF Tick, MayWrite
<1>8. ASSUME NEW q \in Interrupters, DrainUpload(q)
      PROVE  InterruptedBy("recv", i)'
  BY <1>2, <1>8 DEF DrainUpload
<1>9. CASE Clear \/ Server
  BY <1>2, <1>9 DEF Clear, Server, ServerReplies, ServerEndsStream, ServerSendsIntoBroken
<1>10. ASSUME NEW q \in Interrupters, InterruptInvocations(q)
       PROVE  InterruptedBy("recv", i)'
  <2>1. q # "recv"
    BY <1>1, <1>10 DEF InterruptInvocations, Interrupts
  <2>2. \A p \in Interrupters : p # q => interrupting'[p] = interrupting[p]
    BY <1>1, <1>10, InterruptIs DEF InterruptInvocations
  <2> QED
    BY <1>1, <1>2, <2>1, <2>2
<1> QED
  BY <1>3, <1>4, <1>5, <1>6, <1>7, <1>8, <1>9, <1>10 DEF Next, Interrupting

(***************************************************************************)
(* An attempt that failed has failed for good.                             *)
(***************************************************************************)
LEMMA ToldStays ==
  ASSUME Inv, Next, NEW i \in Attempts, Told(i)
  PROVE  Told(i)'
<1>1. /\ pc[i] \notin {"leaving", "ended"} => result[i] = "none"
      /\ result \in [Attempts -> {"none", "failed", "replied"}]
  BY DEF Inv, Replied, Typed, TypeOK
<1>2. ASSUME result'[i] = result[i]
      PROVE  Told(i)'
  BY <1>2, DoneStays DEF Told
<1>3. CASE Uploading \/ Receiving \/ Others
  BY <1>2, <1>3, UploadingFrame, ReceivingFrame, OthersFrame DEF attemptVars
<1>4. ASSUME NEW j \in Attempts, Attempt(j) \/ Register(j) \/ Unregister(j)
      PROVE  Told(i)'
  <2>1. CASE i # j
    BY <1>2, <1>4, <2>1, OtherAttempts
  <2>2. CASE i = j /\ result[i] = "failed"
    <3>1. pc[i] \in {"leaving", "ended"}
      BY <1>1, <2>2
    <3> QED
      BY <1>2, <1>4, <2>2, <3>1 DEF Attempt, Choose, AddRecv, IncludesCollected,
         SessionNotStarted, StartCompilationSession, CheckAvailable, SetWaitUploads,
         AddUploads, StartUploadingFile, WaitUploads, WaitForCompiledObj, Register,
         Unregister, At
  <2>3. CASE doneRecv[i]
    BY <2>3, DoneStays DEF Told
  <2> QED
    BY <2>1, <2>2, <2>3 DEF Told
<1> QED
  BY <1>3, <1>4 DEF Next, Others

LEMMA LosingKept ==
  ASSUME Inv, Next
  PROVE  Losing'
<1>1. /\ Losing /\ Replies /\ Sessions /\ Registered /\ Replied /\ Typed
      /\ lost \subseteq Attempts /\ inFlight \subseteq Attempts
      /\ result \in [Attempts -> {"none", "failed", "replied"}]
  BY DEF Inv, Typed, TypeOK
<1>2. /\ Running
      /\ \A i \in Attempts : Told(i) => Told(i)'
      /\ "recv" \in Interrupters
  BY ToldStays, AttemptFrame, UploadingFrame, ReceivingFrame, OthersFrame
     DEF Next, Others, Interrupters
<1>3. recv = "recreating" =>
        \A i \in lost : InterruptedBy("recv", i) => InterruptedBy("recv", i)' \/ Told(i)'
  BY <1>1, InterruptedStays DEF Told
<1>4. ASSUME UNCHANGED <<lost, recv>>,
             recv = "broken" => \A i \in lost : i \in active => i \in active' \/ Told(i)'
      PROVE  Losing'
  BY <1>1, <1>2, <1>3, <1>4 DEF Losing
<1>5. ASSUME NEW i \in inFlight \cup lost, i \notin active \/ pc[i] = "leaving"
      PROVE  Told(i)
  <2>1. session[i] = "over" /\ i \in Attempts /\ i \notin received
    BY <1>1 DEF Replies
  <2>2. pc[i] \in {"leaving", "ended"}
    BY <1>1, <1>5, <2>1 DEF Registered, Unregistered, Sessions, NoSession
  <2>3. result[i] # "none" /\ result[i] # "replied"
    BY <1>1, <2>1, <2>2 DEF Replied
  <2> QED
    BY <1>1, <2>1, <2>3 DEF Told
<1>6. ASSUME NEW j \in Attempts, Attempt(j) \/ Register(j) \/ Unregister(j)
      PROVE  Losing'
  <2>1. UNCHANGED <<lost, recv>>
    BY <1>6, AttemptFrame DEF recvVars
  <2>2. CASE active \subseteq active'
    BY <1>4, <2>1, <2>2
  <2>3. CASE Unregister(j)
    <3>1. pc[j] = "leaving" /\ active' = active \ {j}
      BY <2>3 DEF Unregister, At
    <3>2. j \in lost => Told(j)
      BY <1>5, <3>1
    <3> QED
      BY <1>1, <1>2, <1>4, <2>1, <3>1, <3>2
  <2>4. CASE ~ Unregister(j)
    <3>1. active \subseteq active'
      BY <1>6, <2>4 DEF Attempt, Choose, AddRecv, IncludesCollected, SessionNotStarted,
         StartCompilationSession, CheckAvailable, SetWaitUploads, AddUploads,
         StartUploadingFile, WaitUploads, WaitForCompiledObj, Register, attemptVars
    <3> QED
      BY <2>2, <3>1
  <2> QED
    BY <2>3, <2>4
<1>7. CASE Uploading \/ Others
  <2>1. UNCHANGED <<lost, recv, active>>
    BY <1>7, UploadingFrame, OthersFrame DEF attemptVars, recvVars
  <2> QED
    BY <1>4, <2>1
<1>8. CASE Receiving
  <2>1. active' = active
    BY <1>8, ReceivingFrame DEF attemptVars
  <2>2. ASSUME NEW i \in Attempts, DiscardReply(i) \/ ReceiveFirstChunk(i)
        PROVE  Losing'
    <3>1. recv = "listening" /\ recv' \in {"listening", "saving"} /\ UNCHANGED lost
      BY <2>2 DEF DiscardReply, ReceiveFirstChunk, RecvAt, recvVars
    <3> QED
      BY <1>1, <1>2, <3>1 DEF Losing
  <2>3. CASE ObjReceived \/ ObjNotUsable
    <3>1. recv = "saving" /\ recv' = "listening" /\ UNCHANGED lost
      BY <2>3 DEF ObjReceived, ObjNotUsable, RecvAt
    <3> QED
      BY <1>1, <1>2, <3>1 DEF Losing
  <2>4. CASE ObjCutShort \/ RecvBreaks
    <3>1. recv \in {"listening", "saving"} /\ recv' = "broken" /\ lost' = lost \cup inFlight
      BY <2>4 DEF ObjCutShort, RecvBreaks, RecvAt
    <3>2. ASSUME NEW i \in inFlight, i \notin active
          PROVE  Told(i)'
      BY <1>1, <1>2, <1>5, <3>2
    <3> QED
      BY <1>1, <1>2, <2>1, <3>1, <3>2 DEF Losing
  <2>5. CASE OnRecvStreamBroke
    <3>1. /\ recv = "broken" /\ recv' = "recreating" /\ UNCHANGED lost
          /\ Interrupt("recv", active)
      BY <2>5 DEF OnRecvStreamBroke, RecvAt
    <3>2. \A i \in active : InterruptedBy("recv", i)'
      BY <1>1, <1>2, <3>1, InterruptIs
    <3> QED
      BY <1>1, <1>2, <3>1, <3>2 DEF Losing
  <2>6. CASE StreamEndedByServer
    <3>1. recv = "listening" /\ recv' = "recreating" /\ UNCHANGED lost
      BY <2>6 DEF StreamEndedByServer, RecvAt
    <3> QED
      BY <1>1, <1>2, <3>1 DEF Losing
  <2>7. CASE RecreateReceiveStream
    <3>1. /\ recv = "recreating" /\ recv' = "listening" /\ UNCHANGED lost
          /\ interrupting["recv"] = <<>>
      BY <2>7 DEF RecreateReceiveStream, RecvAt
    <3> QED
      BY <1>1, <1>2, <3>1, NobodyInterrupts DEF Losing
  <2>8. CASE ReceivingGivenUp \/ QuitReceiving
    <3>1. recv' \in {"quitting", "quit"}
      BY <2>8 DEF ReceivingGivenUp, QuitReceiving
    <3> QED
      BY <3>1 DEF Losing
  <2> QED
    BY <1>8, <2>2, <2>3, <2>4, <2>5, <2>6, <2>7, <2>8 DEF Receiving
<1> QED
  BY <1>6, <1>7, <1>8 DEF Next, Others

LEMMA RepliedKept ==
  ASSUME Inv, Next
  PROVE  Replied'
<1>1. /\ Replied /\ Groups /\ result \in [Attempts -> {"none", "failed", "replied"}]
      /\ pc \in [Attempts -> Stages]
  BY DEF Inv, Typed, TypeOK
<1>2. received \subseteq received'
  <2>1. CASE Receiving
    BY <2>1 DEF Receiving, DiscardReply, ReceiveFirstChunk, ObjReceived, ObjNotUsable,
       ObjCutShort, RecvBreaks, OnRecvStreamBroke, StreamEndedByServer,
       RecreateReceiveStream, ReceivingGivenUp, QuitReceiving, recvVars
  <2> QED
    BY <2>1, AttemptFrame, UploadingFrame, OthersFrame DEF Next, Others, recvVars
<1>3. ASSUME UNCHANGED <<result, pc>>
      PROVE  Replied'
  BY <1>1, <1>2, <1>3 DEF Replied
<1>4. CASE Uploading \/ Receiving \/ Others
  BY <1>3, <1>4, UploadingFrame, ReceivingFrame, OthersFrame DEF attemptVars
<1>5. ASSUME NEW i \in Attempts, Attempt(i) \/ Register(i) \/ Unregister(i)
      PROVE  Replied'
  <2>1. \A j \in Attempts : j # i => result'[j] = result[j] /\ pc'[j] = pc[j]
    BY <1>5, OtherAttempts
  <2>2. /\ result'[i] = "replied" => i \in received
        /\ result'[i] = "none" <=> pc'[i] \notin {"leaving", "ended"}
    <3> USE DEF attemptVars, At, Goto, Fail
    <3>1. CASE WaitForCompiledObj(i)
      <4>1. /\ Running /\ pc[i] = "receiving" /\ wgRecv[i] = 0
            /\ result' = [result EXCEPT ![i] = IF err[i] THEN "failed" ELSE "replied"]
            /\ pc' = [pc EXCEPT ![i] = "leaving"]
        BY <3>1 DEF WaitForCompiledObj
      <4>2. err[i] \/ i \in received
        BY <1>1, <4>1 DEF Groups, NotAdded
      <4> QED
        BY <1>1, <4>1, <4>2
    <3>2. CASE \/ Choose(i) \/ SessionNotStarted(i) \/ CheckAvailable(i) \/ WaitUploads(i)
      BY <1>1, <3>2 DEF Choose, SessionNotStarted, CheckAvailable, WaitUploads, Replied
    <3>3. CASE \/ AddRecv(i) \/ IncludesCollected(i) \/ StartCompilationSession(i)
               \/ Register(i) \/ Unregister(i)
      BY <1>1, <3>3 DEF AddRecv, IncludesCollected, StartCompilationSession, Register,
         Unregister, Replied
    <3>4. CASE SetWaitUploads(i) \/ AddUploads(i) \/ StartUploadingFile(i)
      BY <1>1, <3>4 DEF SetWaitUploads, AddUploads, StartUploadingFile, Replied
    <3> QED
      BY <1>5, <3>1, <3>2, <3>3, <3>4 DEF Attempt
  <2> QED
    BY <1>1, <1>2, <2>1, <2>2 DEF Replied
<1> QED
  BY <1>4, <1>5 DEF Next, Others

LEMMA InitInv == Init => Inv
<1> SUFFICES ASSUME Init PROVE Inv
  OBVIOUS
<1> USE RemoteAttemptsAssumption DEF Init
<1>1. Typed
  <2>1. interrupting \in [Interrupters -> Seq(Attempts)]
    OBVIOUS
  <2>2. chanToUpload \in Seq(Attempts) /\ Len(chanToUpload) <= QueueCap
    OBVIOUS
  <2>3. GroupTypes /\ IsFiniteSet(active)
    BY FS_EmptySet DEF GroupTypes
  <2>4. /\ pc \in [Attempts -> Stages] /\ upload \in UploadStages /\ recv \in RecvStages
        /\ result \in [Attempts -> {"none", "failed", "replied"}]
        /\ session \in [Attempts -> {"none", "open", "over"}]
    BY DEF Stages, UploadStages, RecvStages
  <2>5. /\ nFiles \in [Attempts -> 0 .. MaxFiles] /\ queued \in [Attempts -> 0 .. MaxFiles]
        /\ uploaded \in [Attempts -> 0 .. MaxFiles]
        /\ uploadErrs \in 0 .. MaxUploadErrs /\ breaks \in 0 .. MaxBreaks
    OBVIOUS
  <2>6. /\ active \subseteq Attempts /\ inFlight \subseteq Attempts
        /\ received \subseteq Attempts /\ lost \subseteq Attempts
        /\ uploading \in Attempts \cup {None} /\ receiving \in Attempts \cup {None}
        /\ trailer \in Attempts \cup {None}
        /\ isUnavailable \in BOOLEAN /\ marking \subseteq Interrupters
        /\ isCleared \in BOOLEAN /\ reporting \in [Attempts -> Nat]
    OBVIOUS
  <2> HIDE DEF Init
  <2> QED
    BY <2>1, <2>2, <2>3, <2>4, <2>5, <2>6 DEF Typed, TypeOK, GroupTypes
<1>2. \A i \in Attempts : InQueue(i) = 0 /\ InHand(i) = 0
  <2>1. \A i \in Attempts : {k \in DOMAIN chanToUpload : chanToUpload[k] = i} = {}
    OBVIOUS
  <2> QED
    BY <2>1, FS_EmptySet DEF InQueue, InHand
<1>3. Hands /\ Registered /\ Interrupts /\ Sessions /\ Groups /\ Replies /\ Losing /\ Replied
  BY DEF Hands, Registered, Interrupts, Sessions, Groups, Replies, Losing, Replied,
         Unregistered, NoSession, NotAdded, Interrupters
<1>4. Files
  BY <1>2 DEF Files, OnTheWay
<1>5. UploadsAreOwed
  BY <1>2 DEF UploadsAreOwed, Owed
<1> QED
  BY <1>1, <1>3, <1>4, <1>5 DEF Inv

LEMMA InvKept ==
  ASSUME Inv, [Next]_vars
  PROVE  Inv'
<1>1. CASE Next
  BY <1>1, TypesKept, HandsKept, RegisteredKept, InterruptsKept, FilesKept, SessionsKept,
     GroupsKept, RepliesKept, LosingKept, RepliedKept, OwedKept DEF Inv
<1>2. CASE UNCHANGED vars
  <2> USE <1>2 DEF vars, attemptVars, groupVars, uploadVars, recvVars, remoteVars, serverVars
  <2>1. \A i : InQueue(i)' = InQueue(i) /\ InHand(i)' = InHand(i)
    BY DEF InQueue, InHand
  <2>2. Files' /\ UploadsAreOwed'
    BY <2>1 DEF Inv, Files, UploadsAreOwed, Owed, OnTheWay, Running
  <2>3. Losing'
    BY DEF Inv, Losing, Told, InterruptedBy, Running
  <2>4. Typed' /\ Hands' /\ Registered' /\ Interrupts'
    BY DEF Inv, Typed, TypeOK, Hands, Registered, Interrupts
  <2>5. Sessions' /\ Groups' /\ Replies' /\ Replied'
    BY DEF Inv, Sessions, Groups, Replies, Replied, Running
  <2> QED
    BY <2>2, <2>3, <2>4, <2>5 DEF Inv
<1> QED
  BY <1>1, <1>2

LEMMA AlwaysInv == Spec => []Inv
  BY InitInv, InvKept, PTL DEF Spec

(***************************************************************************)
(* Every counter keeps within what an attempt has to upload, and the       *)
(* WaitGroups within what was added to them.                               *)
(***************************************************************************)
THEOREM TypeCorrect == Spec => []TypeOK
<1>1. Inv => TypeOK
  BY DEF Inv, Typed
<1> QED
  BY <1>1, AlwaysInv, PTL

(***************************************************************************)
(* While the remote is available, whatever an attempt waits to be uploaded *)
(* is about to be queued, in the queue, in hand of the goroutine that      *)
(* uploads, or of an earlier one that has to report its failure:           *)
(* DoneUploadFile of remote-connection.go and invocation.go is called for  *)
(* every file, however its upload ends.                                    *)
(***************************************************************************)
THEOREM UploadsAlwaysOwed == Spec => []UploadsAreOwed
<1>1. Inv => UploadsAreOwed
  BY DEF Inv
<1> QED
  BY <1>1, AlwaysInv, PTL

(***************************************************************************)
(* An attempt is taken as compiled only after its reply was received to    *)
(* the end, and only once all its files were with the server: an interrupt *)
(* at any step in between makes it fail.                                   *)
(***************************************************************************)
THEOREM CompiledWasReceived == Spec => []CompiledOnlyIfReceived
<1>1. Inv => CompiledOnlyIfReceived
  BY DEF Inv, Replied, Replies, Sessions, CompiledOnlyIfReceived
<1> QED
  BY <1>1, AlwaysInv, PTL

(***************************************************************************)
(* Once a broken stream of .o files is open again, no attempt waits for an *)
(* .o that was lost with it: OnRecvStreamBroke interrupts whoever is       *)
(* registered, and who is not has failed already.                          *)
(***************************************************************************)
THEOREM LostObjFails == Spec => []LostObjFailsItsAttempt
<1>1. Inv => LostObjFailsItsAttempt
  <2>1. ASSUME Inv, recv = "listening", Running, NEW i \in lost
        PROVE  result[i] = "failed" \/ (err[i] /\ wgRecv[i] = 0)
    <3>1. i \in Attempts /\ i \notin received
      BY <2>1 DEF Inv, Typed, TypeOK, Replies
    <3>2. result[i] = "failed" \/ doneRecv[i]
      BY <2>1 DEF Inv, Losing, Told
    <3> QED
      BY <2>1, <3>1, <3>2 DEF Inv, Groups
  <2> QED
    BY <2>1 DEF LostObjFailsItsAttempt
<1> QED
  BY <1>1, AlwaysInv, PTL

=============================================================================
