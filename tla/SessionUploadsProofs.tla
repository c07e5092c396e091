------------------------ MODULE SessionUploadsProofs ------------------------
(***************************************************************************)
(* Proofs about SessionUploads, for every set of sessions, streams and     *)
(* files.                                                                  *)
(***************************************************************************)
EXTENDS SessionUploads, TLAPS

-----------------------------------------------------------------------------
(* The inductive invariant                                                 *)

\* What a stage says of the variables it uses.
Stages ==
  /\ \A s \in Sessions :
       pc[s] \in {"insert", "claim", "resolve", "reclaim"} => HasFile(s)
  /\ \A p \in Procs : pc[p] = "check" => cur[p] \in Sessions
  /\ \A u \in Streams : pc[u] # "idle" => job[u] \in Request

\* What is on the disk, of the files and of the uploads.
StoredFiles ==
  /\ \A f \in SystemHeaders : onDisk[f] # None
  /\ \A f \in FileNames : fileState[f] = "uploaded" => onDisk[f] # None
  /\ \A u \in Streams :
       pc[u] \notin {"idle", "found", "panicked", "receiving"} => onDisk[job[u].file] # None

Inv == TypeOK /\ Stages /\ StoredFiles

-----------------------------------------------------------------------------

LEMMA FileOfSession ==
  ASSUME NEW s \in Sessions, NEW i \in DOMAIN Required[s]
  PROVE  Required[s][i] \in FileNames /\ Required[s][i] \in FilesOf(s)
<1>1. Required[s] \in Seq(FileNames)
  BY SessionUploadsAssumption
<1>2. QED
  BY <1>1 DEF FilesOf

LEMMA InitInv == Init => Inv
<1> SUFFICES ASSUME Init PROVE Inv
  OBVIOUS
<1> USE SessionUploadsAssumption DEF Init
<1>1. TypeOK
  BY DEF TypeOK, Procs, FileStates, HandlerPcs, StreamPcs, ScanPcs
<1>2. Stages
  BY DEF Stages, Procs
<1>4. StoredFiles
  BY DEF StoredFiles, Procs
<1> QED
  BY <1>1, <1>2, <1>4 DEF Inv

\* A step that sets one value of a function, or none, keeps its type.
LEMMA Updated ==
  ASSUME NEW S, NEW T, NEW f \in [S -> T], NEW x, NEW v \in T, NEW g,
         g = f \/ g = [f EXCEPT ![x] = v]
  PROVE  g \in [S -> T]
OBVIOUS

\* A handler stays a handler wherever it goes.
HandlersAndStreams ==
  /\ pc \in [Procs -> HandlerPcs \cup StreamPcs \cup ScanPcs]
  /\ \A s \in Sessions : pc[s] \in HandlerPcs \cup ScanPcs
  /\ \A u \in Streams : pc[u] \in StreamPcs \cup ScanPcs

LEMMA HandlerGoes ==
  ASSUME TypeOK, NEW s \in Sessions, NEW x \in HandlerPcs \cup ScanPcs,
         pc' = [pc EXCEPT ![s] = x]
  PROVE  HandlersAndStreams'
<1>1. s \notin Streams
  BY SessionUploadsAssumption
<1> QED
  BY <1>1 DEF HandlersAndStreams, TypeOK, Procs

LEMMA StreamGoes ==
  ASSUME TypeOK, NEW u \in Streams, NEW x \in StreamPcs \cup ScanPcs,
         pc' = [pc EXCEPT ![u] = x]
  PROVE  HandlersAndStreams'
<1>1. u \notin Sessions
  BY SessionUploadsAssumption
<1> QED
  BY <1>1 DEF HandlersAndStreams, TypeOK, Procs

LEMMA ScanGoes ==
  ASSUME TypeOK, NEW p \in Procs, NEW x \in ScanPcs, pc' = [pc EXCEPT ![p] = x]
  PROVE  HandlersAndStreams'
BY HandlerGoes, StreamGoes DEF Procs

LEMMA CurrentFile ==
  ASSUME TypeOK, Stages, NEW s \in Sessions,
         pc[s] \in {"insert", "claim", "resolve", "reclaim"} \/ HasFile(s)
  PROVE  /\ HasFile(s)
         /\ File(s) \in FileNames
         /\ ShaOf[s][File(s)] \in Shas
<1>1. HasFile(s)
  BY DEF Stages
<1>2. File(s) \in FileNames
  BY <1>1, FileOfSession DEF HasFile, File
<1> QED
  BY <1>1, <1>2, SessionUploadsAssumption

\* The two steps of a handler that may move on to the next file.
LEMMA SkipTypes ==
  ASSUME TypeOK, NEW s \in Sessions, LookupFile(s) \/ SwitchOnState(s)
  PROVE  TypeOK'
<1> USE DEF fileVars, sessionVars, handlerVars, clientVars, scanVars
<1>1. CASE pc' = pc /\ NextFile(s)
  <2>1. idx' \in [Sessions -> Nat \ {0}]
    BY <1>1 DEF TypeOK, NextFile
  <2> QED
    BY <1>1, <2>1 DEF LookupFile, SwitchOnState, TypeOK
<1>2. ASSUME idx' = idx, NEW x \in HandlerPcs, Goto(s, x)
      PROVE  TypeOK'
  <2>1. HandlersAndStreams'
    BY <1>2, HandlerGoes DEF Goto
  <2> QED
    BY <1>2, <2>1 DEF LookupFile, SwitchOnState, HandlersAndStreams, TypeOK
<1> QED
  BY <1>1, <1>2 DEF LookupFile, SwitchOnState, HandlerPcs

LEMMA HandlerTypes ==
  ASSUME TypeOK, Stages, NEW s \in Sessions, HandlerStep(s)
  PROVE  TypeOK'
<1> USE SessionUploadsAssumption
    DEF Goto, NextFile, fileVars, sessionVars, handlerVars, clientVars,
        scanVars, TypeOK, Procs, FileStates, HandlerPcs, ScanPcs
<1>1. CASE Refuse(s)
  BY <1>1 DEF Refuse
<1>2. CASE CreateNewSession(s)
  BY <1>2 DEF CreateNewSession
<1>3. CASE LookupFile(s)
  BY <1>3, SkipTypes
<1>4. CASE InsertFile(s)
  <2>1. /\ fileState' \in [FileNames -> FileStates]
        /\ fileSha' \in [FileNames -> Shas \cup {None}]
    BY <1>4, CurrentFile DEF InsertFile
  <2>2. HandlersAndStreams'
    BY <1>4, HandlerGoes DEF InsertFile
  <2>3. idx' \in [Sessions -> Nat \ {0}]
    BY <1>4 DEF InsertFile
  <2> QED
    BY <1>4, <2>1, <2>2, <2>3 DEF InsertFile, HandlersAndStreams
<1>5. CASE FromObjCache(s)
  BY <1>5 DEF FromObjCache
<1>6. CASE NotInObjCache(s)
  BY <1>6 DEF NotInObjCache
<1>7. CASE SwitchOnState(s)
  BY <1>7, SkipTypes
<1>8. CASE ClaimFile(s)
  BY <1>8, CurrentFile DEF ClaimFile
<1>9. CASE SystemHeaderDiffers(s)
  BY <1>9 DEF SystemHeaderDiffers
<1>10. CASE SystemHeaderEqual(s)
  BY <1>10, CurrentFile DEF SystemHeaderEqual
<1>11. CASE LinkedFromSrcCache(s)
  BY <1>11, CurrentFile DEF LinkedFromSrcCache
<1>12. CASE AskForFile(s)
  BY <1>12, CurrentFile DEF AskForFile
<1>13. CASE AskAgain(s)
  BY <1>13, CurrentFile DEF AskAgain
<1>14. CASE RegisterCreatedSession(s)
  BY <1>14 DEF RegisterCreatedSession
<1>15. CASE Reply(s)
  BY <1>15 DEF Reply, Request
<1> QED
  BY <1>1, <1>2, <1>3, <1>4, <1>5, <1>6, <1>7, <1>8, <1>9, <1>10, <1>11,
     <1>12, <1>13, <1>14, <1>15 DEF HandlerStep

LEMMA ScanTypes ==
  ASSUME TypeOK, Stages, NEW p \in Procs, ScanStep(p)
  PROVE  TypeOK'
<1> USE DEF fileVars, sessionVars, handlerVars, clientVars, scanVars
<1>1. HandlersAndStreams'
  <2>1. pc' = pc \/ \E x \in ScanPcs : pc' = [pc EXCEPT ![p] = x]
    BY DEF ScanStep, GetSessionsNotStartedCompilation, PickSession, CheckFile,
           SwapCompilationStarted, Goto, ScanPcs
  <2> QED
    BY <2>1, ScanGoes DEF TypeOK, HandlersAndStreams
<1>2. CASE GetSessionsNotStartedCompilation(p)
  BY <1>1, <1>2 DEF GetSessionsNotStartedCompilation, HandlersAndStreams, TypeOK
<1>3. CASE PickSession(p)
  <2>1. PICK s \in todo[p] :
          /\ todo' = [todo EXCEPT ![p] = @ \ {s}]
          /\ \/ cur' = cur /\ pos' = pos
             \/ /\ cur' = [cur EXCEPT ![p] = s]
                /\ \/ pos' = [pos EXCEPT ![p] = 2]
                   \/ pos' = [pos EXCEPT ![p] = Len(Required[s]) + 1]
    BY <1>3 DEF PickSession
  <2>2. s \in Sessions
    BY DEF TypeOK
  <2>3. Len(Required[s]) + 1 \in Nat \ {0}
    BY <2>2, SessionUploadsAssumption
  <2>4. todo' \in [Procs -> SUBSET Sessions]
    BY <2>1 DEF TypeOK
  <2>5. cur' \in [Procs -> Sessions \cup {None}]
    <3>1. CASE cur' = cur
      BY <3>1 DEF TypeOK
    <3>2. CASE cur' = [cur EXCEPT ![p] = s]
      BY <2>2, <3>2, Updated DEF TypeOK
    <3> QED
      BY <2>1, <3>1, <3>2
  <2>6. pos' \in [Procs -> Nat \ {0}]
    <3>1. CASE pos' = pos
      BY <3>1 DEF TypeOK
    <3>2. CASE pos' = [pos EXCEPT ![p] = 2]
      BY <3>2 DEF TypeOK
    <3>3. CASE pos' = [pos EXCEPT ![p] = Len(Required[s]) + 1]
      BY <2>3, <3>3, Updated DEF TypeOK
    <3> QED
      BY <2>1, <3>1, <3>2, <3>3
  <2> QED
    BY <1>1, <1>3, <2>4, <2>5, <2>6 DEF PickSession, HandlersAndStreams, TypeOK
<1>4. CASE CheckFile(p)
  <2>1. cur' = cur \/ cur' = [cur EXCEPT ![p] = None]
    BY <1>4 DEF CheckFile
  <2>2. cur' \in [Procs -> Sessions \cup {None}]
    BY <2>1, Updated DEF TypeOK
  <2>3. pos[p] + 1 \in Nat \ {0}
    BY DEF TypeOK
  <2>4. \E n \in Nat \ {0} : pos' = [pos EXCEPT ![p] = n]
    BY <1>4, <2>3 DEF CheckFile
  <2>5. pos' \in [Procs -> Nat \ {0}]
    BY <2>4, Updated DEF TypeOK
  <2> QED
    BY <1>1, <1>4, <2>2, <2>5 DEF CheckFile, HandlersAndStreams, TypeOK
<1>5. CASE SwapCompilationStarted(p)
  <2>1. cur[p] \in Sessions
    BY <1>5 DEF SwapCompilationStarted, Stages
  <2>2. (IF started[cur[p]] THEN launches[cur[p]] ELSE launches[cur[p]] + 1) \in Nat
    BY <2>1 DEF TypeOK
  <2>3. launches' = [launches EXCEPT ![cur[p]] =
          IF started[cur[p]] THEN launches[cur[p]] ELSE launches[cur[p]] + 1]
    BY <1>5 DEF SwapCompilationStarted
  <2>4. launches' \in [Sessions -> Nat]
    BY <2>2, <2>3, Updated DEF TypeOK
  <2>5. started' \in [Sessions -> BOOLEAN]
    BY <1>5, Updated DEF SwapCompilationStarted, TypeOK
  <2>6. cur' \in [Procs -> Sessions \cup {None}]
    BY <1>5, Updated DEF SwapCompilationStarted, TypeOK
  <2>7. pos' \in [Procs -> Nat \ {0}]
    BY <1>5, Updated DEF SwapCompilationStarted, TypeOK
  <2> QED
    BY <1>1, <1>5, <2>4, <2>5, <2>6, <2>7 DEF SwapCompilationStarted, HandlersAndStreams, TypeOK
<1> QED
  BY <1>2, <1>3, <1>4, <1>5 DEF ScanStep

LEMMA StreamTypes ==
  ASSUME TypeOK, Stages, StoredFiles, NEW u \in Streams, StreamStep(u)
  PROVE  TypeOK'
<1> USE SessionUploadsAssumption
    DEF fileVars, sessionVars, handlerVars, clientVars, scanVars
<1>1. HandlersAndStreams'
  <2>1. pc' = pc \/ \E x \in StreamPcs \cup ScanPcs : pc' = [pc EXCEPT ![u] = x]
    BY DEF StreamStep, FirstChunk, TakeFile, ReceiveFile, CompileOwnPch, UploadFails,
           FileUploaded, SaveFileToCache, Goto, StreamPcs, ScanPcs
  <2> QED
    BY <2>1, StreamGoes DEF TypeOK, HandlersAndStreams
<1>2. pc[u] # "idle" => /\ job[u].file \in FileNames
                       /\ job[u].session \in Sessions
  BY DEF Stages, Request
<1>3. job' = job \/ \E r \in Request \cup {None} : job' = [job EXCEPT ![u] = r]
  BY DEF StreamStep, FirstChunk, TakeFile, ReceiveFile, CompileOwnPch, UploadFails,
         FileUploaded, SaveFileToCache, TypeOK
<1>4. job' \in [Streams -> Request \cup {None}]
  BY <1>3, Updated DEF TypeOK
<1>5. ASSUME NEW req \in toUpload, FirstChunk(u, req)
      PROVE  TypeOK'
  BY <1>1, <1>4, <1>5 DEF FirstChunk, HandlersAndStreams, TypeOK
<1>6. CASE ReceiveFile(u)
  <2>1. onDisk' \in [FileNames -> Shas \cup {None}]
    BY <1>2, <1>6, Updated DEF ReceiveFile, TypeOK
  <2> QED
    BY <1>1, <1>6, <2>1 DEF ReceiveFile, HandlersAndStreams, TypeOK
<1>7. CASE CompileOwnPch(u)
  BY <1>1, <1>7 DEF CompileOwnPch, HandlersAndStreams, TypeOK
<1>11. CASE TakeFile(u)
  BY <1>1, <1>4, <1>11 DEF TakeFile, HandlersAndStreams, TypeOK
<1>8. CASE UploadFails(u)
  <2>1. pc[u] # "idle"
    BY <1>8 DEF UploadFails
  <2>2. fileState' \in [FileNames -> FileStates]
    BY <1>8, Updated DEF UploadFails, TypeOK, FileStates
  <2>3. failed' \subseteq FileNames
    BY <1>2, <1>8, <2>1 DEF UploadFails, TypeOK
  <2> QED
    BY <1>1, <1>4, <1>8, <2>2, <2>3 DEF UploadFails, HandlersAndStreams, TypeOK
<1>9. CASE FileUploaded(u)
  <2>1. fileState' \in [FileNames -> FileStates]
    BY <1>9, Updated DEF FileUploaded, TypeOK, FileStates
  <2> QED
    BY <1>1, <1>9, <2>1 DEF FileUploaded, HandlersAndStreams, TypeOK
<1>10. CASE SaveFileToCache(u)
  <2>1. /\ fileSha[job[u].file] \in Shas \cup {None}
        /\ onDisk[job[u].file] \in Shas
    BY <1>2, <1>10 DEF SaveFileToCache, StoredFiles, TypeOK
  <2>2. srcCache' \subseteq (Shas \cup {None}) \X Shas
    BY <1>10, <2>1 DEF SaveFileToCache, TypeOK
  <2> QED
    BY <1>1, <1>4, <1>10, <2>2 DEF SaveFileToCache, HandlersAndStreams, TypeOK
<1> QED
  BY <1>5, <1>6, <1>7, <1>8, <1>9, <1>10, <1>11 DEF StreamStep

LEMMA TypesKept ==
  ASSUME TypeOK, Stages, StoredFiles, [Next]_vars
  PROVE  TypeOK'
<1>1. ASSUME NEW s \in Sessions, CloseSession(s)
      PROVE  TypeOK'
  BY <1>1 DEF CloseSession, TypeOK, fileVars, handlerVars, clientVars, scanVars
<1>2. ASSUME NEW req \in toUpload, LoseUpload(req)
      PROVE  TypeOK'
  BY <1>2 DEF LoseUpload, TypeOK, Request, fileVars, sessionVars, handlerVars,
              scanVars
<1>3. CASE UNCHANGED vars
  BY <1>3 DEF TypeOK, vars, fileVars, sessionVars, handlerVars, clientVars,
              scanVars
<1> QED
  BY <1>1, <1>2, <1>3, HandlerTypes, ScanTypes, StreamTypes DEF Next

-----------------------------------------------------------------------------

LEMMA HandlerStages ==
  ASSUME TypeOK, Stages, NEW s \in Sessions, HandlerStep(s)
  PROVE  Stages'
<1> USE SessionUploadsAssumption
    DEF Goto, NextFile, fileVars, sessionVars, handlerVars, clientVars,
        scanVars, TypeOK, Procs, Stages, HasFile
<1>1. CASE Refuse(s)
  BY <1>1 DEF Refuse
<1>2. CASE CreateNewSession(s)
  BY <1>2 DEF CreateNewSession
<1>3. CASE LookupFile(s)
  BY <1>3 DEF LookupFile
<1>4. CASE InsertFile(s)
  BY <1>4 DEF InsertFile
<1>5. CASE FromObjCache(s)
  BY <1>5 DEF FromObjCache
<1>6. CASE NotInObjCache(s)
  BY <1>6 DEF NotInObjCache
<1>7. CASE SwitchOnState(s)
  BY <1>7 DEF SwitchOnState
<1>8. CASE ClaimFile(s)
  BY <1>8 DEF ClaimFile
<1>9. CASE SystemHeaderDiffers(s)
  BY <1>9 DEF SystemHeaderDiffers
<1>10. CASE SystemHeaderEqual(s)
  BY <1>10 DEF SystemHeaderEqual
<1>11. CASE LinkedFromSrcCache(s)
  BY <1>11 DEF LinkedFromSrcCache
<1>12. CASE AskForFile(s)
  BY <1>12 DEF AskForFile
<1>13. CASE AskAgain(s)
  BY <1>13 DEF AskAgain
<1>14. CASE RegisterCreatedSession(s)
  BY <1>14 DEF RegisterCreatedSession
<1>15. CASE Reply(s)
  BY <1>15 DEF Reply
<1> QED
  BY <1>1, <1>2, <1>3, <1>4, <1>5, <1>6, <1>7, <1>8, <1>9, <1>10, <1>11,
     <1>12, <1>13, <1>14, <1>15 DEF HandlerStep

LEMMA StagesKept ==
  ASSUME TypeOK, Stages, [Next]_vars
  PROVE  Stages'
<1> USE SessionUploadsAssumption
    DEF Goto, fileVars, sessionVars, handlerVars, clientVars, scanVars, TypeOK,
        Procs, Stages, HasFile
<1>1. ASSUME NEW p \in Procs, GetSessionsNotStartedCompilation(p)
      PROVE  Stages'
  BY <1>1 DEF GetSessionsNotStartedCompilation
<1>2. ASSUME NEW p \in Procs, PickSession(p)
      PROVE  Stages'
  <2>1. PICK s \in todo[p] :
          \/ pc' = pc /\ cur' = cur
          \/ /\ pc' = [pc EXCEPT ![p] = "check"]
             /\ cur' = [cur EXCEPT ![p] = s]
    BY <1>2 DEF PickSession
  <2>2. UNCHANGED <<idx, job>> /\ pc[p] = "pick"
    BY <1>2 DEF PickSession
  <2>3. CASE pc' = pc /\ cur' = cur
    BY <2>2, <2>3
  <2>4. CASE pc' = [pc EXCEPT ![p] = "check"] /\ cur' = [cur EXCEPT ![p] = s]
    BY <2>2, <2>4
  <2> QED
    BY <2>1, <2>3, <2>4
<1>3. ASSUME NEW p \in Procs, CheckFile(p)
      PROVE  Stages'
  <2>1. UNCHANGED <<idx, job>> /\ pc[p] = "check"
    BY <1>3 DEF CheckFile
  <2>2. CASE pc' = pc /\ cur' = cur
    BY <2>1, <2>2
  <2>3. CASE pc' = [pc EXCEPT ![p] = "pick"] /\ cur' = [cur EXCEPT ![p] = None]
    BY <2>1, <2>3
  <2> QED
    BY <1>3, <2>2, <2>3 DEF CheckFile
<1>4. ASSUME NEW p \in Procs, SwapCompilationStarted(p)
      PROVE  Stages'
  BY <1>4 DEF SwapCompilationStarted
<1>5. ASSUME NEW s \in Sessions, CloseSession(s)
      PROVE  Stages'
  BY <1>5 DEF CloseSession
<1>6. ASSUME NEW req \in toUpload, LoseUpload(req)
      PROVE  Stages'
  BY <1>6 DEF LoseUpload
<1>7. ASSUME NEW u \in Streams, NEW req \in toUpload, FirstChunk(u, req)
      PROVE  Stages'
  <2>1. UNCHANGED <<idx, cur>> /\ pc[u] = "idle" /\ req \in Request
    BY <1>7 DEF FirstChunk
  <2>2. CASE pc' = pc /\ job' = job
    BY <2>1, <2>2
  <2>3. CASE pc' = [pc EXCEPT ![u] = "found"] /\ job' = [job EXCEPT ![u] = req]
    BY <2>1, <2>3
  <2> QED
    BY <1>7, <2>2, <2>3 DEF FirstChunk
<1>8. ASSUME NEW u \in Streams,
             \/ TakeFile(u)
             \/ ReceiveFile(u)
             \/ CompileOwnPch(u)
             \/ UploadFails(u)
             \/ FileUploaded(u)
             \/ SaveFileToCache(u)
      PROVE  Stages'
  BY <1>8 DEF TakeFile, ReceiveFile, CompileOwnPch, UploadFails, FileUploaded,
              SaveFileToCache
<1>9. CASE UNCHANGED vars
  BY <1>9 DEF vars
<1> QED
  BY <1>1, <1>2, <1>3, <1>4, <1>5, <1>6, <1>7, <1>8, <1>9, HandlerStages
  DEF Next, ScanStep, StreamStep

LEMMA StoredFilesKept ==
  ASSUME TypeOK, Stages, StoredFiles, [Next]_vars
  PROVE  StoredFiles'
<1> USE SessionUploadsAssumption
    DEF Goto, NextFile, fileVars, sessionVars, handlerVars, clientVars,
        scanVars, TypeOK, Procs, Stages, StoredFiles
<1>1. ASSUME NEW s \in Sessions, HandlerStep(s)
      PROVE  StoredFiles'
  <2>1. CASE Refuse(s)
    BY <1>1, <2>1 DEF Refuse
  <2>2. CASE CreateNewSession(s)
    BY <1>1, <2>2 DEF CreateNewSession
  <2>3. CASE LookupFile(s)
    BY <1>1, <2>3 DEF LookupFile
  <2>4. CASE InsertFile(s)
    BY <1>1, <2>4, CurrentFile DEF InsertFile
  <2>5. CASE FromObjCache(s)
    BY <1>1, <2>5 DEF FromObjCache
  <2>6. CASE NotInObjCache(s)
    BY <1>1, <2>6 DEF NotInObjCache
  <2>7. CASE SwitchOnState(s)
    BY <1>1, <2>7 DEF SwitchOnState
  <2>8. CASE ClaimFile(s)
    BY <1>1, <2>8, CurrentFile DEF ClaimFile
  <2>9. CASE SystemHeaderDiffers(s)
    BY <1>1, <2>9 DEF SystemHeaderDiffers
  <2>10. CASE SystemHeaderEqual(s)
    BY <1>1, <2>10, CurrentFile DEF SystemHeaderEqual, IsEqualSystemHeader
  <2>11. CASE LinkedFromSrcCache(s)
    BY <1>1, <2>11, CurrentFile DEF LinkedFromSrcCache
  <2>12. CASE AskForFile(s)
    BY <1>1, <2>12, CurrentFile DEF AskForFile
  <2>13. CASE AskAgain(s)
    BY <1>1, <2>13, CurrentFile DEF AskAgain
  <2>14. CASE RegisterCreatedSession(s)
    BY <1>1, <2>14 DEF RegisterCreatedSession
  <2>15. CASE Reply(s)
    BY <1>1, <2>15 DEF Reply
  <2> QED
    BY <1>1, <2>1, <2>2, <2>3, <2>4, <2>5, <2>6, <2>7, <2>8, <2>9, <2>10, <2>11,
       <2>12, <2>13, <2>14, <2>15 DEF HandlerStep
<1>2. ASSUME NEW p \in Procs, ScanStep(p)
      PROVE  StoredFiles'
  <2>1. pc' = pc \/ \E x \in ScanPcs : pc' = [pc EXCEPT ![p] = x]
    BY <1>2 DEF ScanStep, GetSessionsNotStartedCompilation, PickSession,
                CheckFile, SwapCompilationStarted, ScanPcs
  <2>2. pc[p] \in ScanPcs /\ UNCHANGED <<fileState, onDisk, job>>
    BY <1>2 DEF ScanStep, GetSessionsNotStartedCompilation, PickSession,
                CheckFile, SwapCompilationStarted, ScanPcs
  <2> QED
    BY <2>1, <2>2 DEF ScanPcs
<1>3. ASSUME NEW s \in Sessions, CloseSession(s)
      PROVE  StoredFiles'
  BY <1>3 DEF CloseSession
<1>4. ASSUME NEW req \in toUpload, LoseUpload(req)
      PROVE  StoredFiles'
  BY <1>4 DEF LoseUpload
<1>5. ASSUME NEW u \in Streams, StreamStep(u)
      PROVE  StoredFiles'
  <2>1. pc[u] # "idle" => /\ job[u].file \in FileNames
                         /\ job[u].session \in Sessions
    BY <1>5 DEF Request
  <2>2. ASSUME NEW req \in toUpload, FirstChunk(u, req)
        PROVE  StoredFiles'
    <3>1. /\ pc'[u] \in {"idle", "found"} /\ \A v \in Streams \ {u} : pc'[v] = pc[v]
          /\ \A v \in Streams \ {u} : job'[v] = job[v]
          /\ UNCHANGED <<fileState, onDisk>>
      BY <2>2 DEF FirstChunk
    <3> QED
      BY <3>1
  <2>3. CASE ReceiveFile(u)
    <3>1. ShaOf[job[u].session][job[u].file] # None
      BY <2>1, <2>3 DEF ReceiveFile
    <3> QED
      BY <2>1, <2>3, <3>1 DEF ReceiveFile
  <2>4. CASE CompileOwnPch(u)
    BY <2>4 DEF CompileOwnPch
  <2>5. CASE UploadFails(u)
    BY <2>5 DEF UploadFails
  <2>6. CASE FileUploaded(u)
    BY <2>6 DEF FileUploaded
  <2>7. CASE SaveFileToCache(u)
    BY <2>7 DEF SaveFileToCache
  <2>8. CASE TakeFile(u)
    BY <2>8 DEF TakeFile
  <2> QED
    BY <1>5, <2>2, <2>3, <2>4, <2>5, <2>6, <2>7, <2>8 DEF StreamStep
<1>6. CASE UNCHANGED vars
  BY <1>6 DEF vars
<1> QED
  BY <1>1, <1>2, <1>3, <1>4, <1>5, <1>6 DEF Next

LEMMA InvKept == Inv /\ [Next]_vars => Inv'
BY TypesKept, StagesKept, StoredFilesKept DEF Inv

(* Every variable of SessionUploads keeps to its type: a handler indexes   *)
(* session.files within its bounds, an upload stream works on a request    *)
(* the server has made, and what enters the src cache has a content.       *)
THEOREM TypeCorrect == Spec => []TypeOK
<1>1. Spec => []Inv
  BY InitInv, InvKept, PTL DEF Spec
<1>2. Inv => TypeOK
  BY DEF Inv
<1> QED
  BY <1>1, <1>2, PTL

-----------------------------------------------------------------------------
(* A launch for a session                                                  *)

(* atomic.SwapInt32 on compilationStarted lets one goroutine launch the    *)
(* compiler, however many of them have read the states of all files as     *)
(* uploaded, and the flag is never reset.                                  *)
THEOREM CompiledAtMostOnce == Spec => []LaunchedAtMostOnce
<1> DEFINE LInv == Inv /\ LaunchedAtMostOnce
<1>1. Init => LInv
  BY InitInv DEF Init, LaunchedAtMostOnce
<1>2. LInv /\ [Next]_vars => LInv'
  <2> SUFFICES ASSUME Inv, LaunchedAtMostOnce, [Next]_vars
               PROVE  LaunchedAtMostOnce'
    BY InvKept
  <2> USE DEF fileVars, sessionVars, handlerVars, clientVars, scanVars
  <2>1. ASSUME NEW p \in Procs, SwapCompilationStarted(p)
        PROVE  LaunchedAtMostOnce'
    BY <2>1 DEF SwapCompilationStarted, LaunchedAtMostOnce, Inv, TypeOK, Stages
  <2>2. ASSUME NEW s \in Sessions, FromObjCache(s)
        PROVE  LaunchedAtMostOnce'
    BY <2>2 DEF FromObjCache, LaunchedAtMostOnce, Inv, TypeOK
  <2>3. CASE UNCHANGED <<started, launches>>
    BY <2>3 DEF LaunchedAtMostOnce
  <2>4. ASSUME NEW s \in Sessions, HandlerStep(s)
        PROVE  FromObjCache(s) \/ UNCHANGED <<started, launches>>
    BY <2>4 DEF HandlerStep, Refuse, CreateNewSession, LookupFile, InsertFile,
       NotInObjCache, SwitchOnState, ClaimFile, SystemHeaderDiffers,
       SystemHeaderEqual, LinkedFromSrcCache, AskForFile, AskAgain,
       RegisterCreatedSession, Reply
  <2>5. ASSUME NEW p \in Procs, ScanStep(p)
        PROVE  SwapCompilationStarted(p) \/ UNCHANGED <<started, launches>>
    BY <2>5 DEF ScanStep, GetSessionsNotStartedCompilation, PickSession, CheckFile
  <2>6. ASSUME NEW u \in Streams, StreamStep(u)
        PROVE  UNCHANGED <<started, launches>>
    BY <2>6 DEF StreamStep, FirstChunk, TakeFile, ReceiveFile, CompileOwnPch, UploadFails,
                FileUploaded, SaveFileToCache
  <2> QED
    BY <2>1, <2>2, <2>3, <2>4, <2>5, <2>6 DEF Next, CloseSession, LoseUpload, vars
<1>3. LInv => LaunchedAtMostOnce
  OBVIOUS
<1> QED
  BY <1>1, <1>2, <1>3, PTL DEF Spec

-----------------------------------------------------------------------------
(* No lost wake-up                                                         *)

\* Somebody looks at s, or would have but for a system header.
Seen(s) ==
  \/ \E p \in Procs : WillCheck(p, s)
  \/ \E q \in Sessions : /\ pc[q] = "headerDiffers"
                         /\ FilesOf(q) \cap FilesOf(s) # {}

LEMMA FilesOfSession ==
  ASSUME NEW s \in Sessions
  PROVE  FilesOf(s) \subseteq FileNames
BY FileOfSession DEF FilesOf

\* Setting the state of a file to anything but "uploaded" makes nothing ready.
LEMMA ReadyBefore ==
  ASSUME TypeOK, NEW s \in Sessions, NEW f, NEW v, v # "uploaded",
         fileState' = fileState \/ fileState' = [fileState EXCEPT ![f] = v],
         UNCHANGED <<sessions, started>>, Ready(s)'
  PROVE  Ready(s)
BY FilesOfSession DEF TypeOK, Ready, AllUploaded

LEMMA HandlerKeepsSeen ==
  ASSUME Inv, NEW s \in Sessions, Ready(s) => Seen(s),
         NEW t \in Sessions, HandlerStep(t), Ready(s)'
  PROVE  Seen(s)'
<1> USE SessionUploadsAssumption
    DEF Inv, TypeOK, Procs, Ready, AllUploaded, Seen, WillCheck, Goto,
        fileVars, sessionVars, handlerVars, clientVars, scanVars
<1>0. ASSUME pc[t] = "resolve"
      PROVE  File(t) \in FileNames /\ File(t) \in FilesOf(t)
  BY <1>0, FileOfSession DEF Stages, HasFile, File
<1>1. CASE Refuse(t)
  BY <1>1 DEF Refuse
<1>2. CASE CreateNewSession(t)
  BY <1>2 DEF CreateNewSession
<1>3. CASE LookupFile(t)
  BY <1>3 DEF LookupFile
<1>4. CASE InsertFile(t)
  <2>1. Ready(s)
    BY <1>4, ReadyBefore DEF InsertFile
  <2> QED
    BY <1>4, <2>1 DEF InsertFile
<1>5. CASE FromObjCache(t)
  BY <1>5 DEF FromObjCache
<1>6. CASE NotInObjCache(t)
  BY <1>6 DEF NotInObjCache
<1>7. CASE SwitchOnState(t)
  BY <1>7 DEF SwitchOnState
<1>8. CASE ClaimFile(t)
  <2>1. Ready(s)
    BY <1>8, ReadyBefore DEF ClaimFile
  <2> QED
    BY <1>8, <2>1 DEF ClaimFile
<1>9. CASE SystemHeaderDiffers(t)
  BY <1>9 DEF SystemHeaderDiffers
<1>10. CASE SystemHeaderEqual(t)
  <2>1. /\ pc[t] = "resolve" /\ pc' = [pc EXCEPT ![t] = "loop"]
        /\ fileState' = [fileState EXCEPT ![File(t)] = "uploaded"]
        /\ UNCHANGED <<sessions, started, todo, cur>>
    BY <1>10 DEF SystemHeaderEqual
  <2>2. CASE File(t) \in FilesOf(s)
    BY <1>0, <2>1, <2>2
  <2>3. CASE File(t) \notin FilesOf(s)
    <3>1. Ready(s)
      BY <2>1, <2>3, FilesOfSession
    <3> QED
      BY <2>1, <3>1
  <2> QED
    BY <2>2, <2>3
<1>11. CASE LinkedFromSrcCache(t)
  <2>1. /\ pc[t] = "resolve" /\ pc' = [pc EXCEPT ![t] = "loop"]
        /\ fileState' = [fileState EXCEPT ![File(t)] = "uploaded"]
        /\ UNCHANGED <<sessions, started, todo, cur>>
    BY <1>11 DEF LinkedFromSrcCache
  <2>2. CASE File(t) \in FilesOf(s)
    BY <1>0, <2>1, <2>2
  <2>3. CASE File(t) \notin FilesOf(s)
    <3>1. Ready(s)
      BY <2>1, <2>3, FilesOfSession
    <3> QED
      BY <2>1, <3>1
  <2> QED
    BY <2>2, <2>3
<1>12. CASE AskForFile(t)
  BY <1>12 DEF AskForFile
<1>13. CASE AskAgain(t)
  <2>1. Ready(s)
    BY <1>13, ReadyBefore DEF AskAgain
  <2> QED
    BY <1>13, <2>1 DEF AskAgain
<1>14. CASE RegisterCreatedSession(t)
  BY <1>14 DEF RegisterCreatedSession
<1>15. CASE Reply(t)
  BY <1>15 DEF Reply
<1> QED
  BY <1>1, <1>2, <1>3, <1>4, <1>5, <1>6, <1>7, <1>8, <1>9, <1>10, <1>11,
     <1>12, <1>13, <1>14, <1>15 DEF HandlerStep

LEMMA ScanKeepsSeen ==
  ASSUME Inv, NEW s \in Sessions, Ready(s) => Seen(s),
         NEW p \in Procs, ScanStep(p), Ready(s)'
  PROVE  Seen(s)'
<1> USE SessionUploadsAssumption
    DEF Inv, TypeOK, Procs, Ready, AllUploaded, Seen, WillCheck, Goto,
        fileVars, sessionVars, handlerVars, clientVars, scanVars
<1>1. CASE GetSessionsNotStartedCompilation(p)
  BY <1>1 DEF GetSessionsNotStartedCompilation
<1>2. CASE PickSession(p)
  <2>1. Required[s][1] \in FilesOf(s)
    BY FileOfSession
  <2>2. Ready(s) /\ pc[p] = "pick"
    BY <1>2 DEF PickSession
  <2>3. PICK t \in todo[p] :
          /\ todo' = [todo EXCEPT ![p] = @ \ {t}]
          /\ \/ /\ t \in sessions /\ fileState[Required[t][1]] # "uploaded"
                /\ pc' = pc /\ cur' = cur
             \/ /\ pc' = [pc EXCEPT ![p] = "check"]
                /\ cur' = [cur EXCEPT ![p] = t]
    BY <1>2 DEF PickSession
  <2>4. CASE t = s
    BY <2>1, <2>2, <2>3, <2>4
  <2>5. CASE t # s
    BY <2>2, <2>3, <2>5
  <2> QED
    BY <2>4, <2>5
<1>3. CASE CheckFile(p)
  <2>1. \A i \in DOMAIN Required[s] : Required[s][i] \in FilesOf(s)
    BY FileOfSession
  <2>2. Ready(s) /\ pc[p] = "check" /\ todo' = todo
    BY <1>3 DEF CheckFile
  <2>3. CASE pc' = pc /\ cur' = cur
    BY <2>2, <2>3
  <2>4. CASE /\ pc' = [pc EXCEPT ![p] = "pick"]
             /\ fileState[Required[cur[p]][pos[p]]] # "uploaded"
             /\ cur' = [cur EXCEPT ![p] = None]
    <3>1. cur[p] # s
      BY <1>3, <2>1, <2>2, <2>4 DEF CheckFile
    <3> QED
      BY <2>2, <2>4, <3>1
  <2> QED
    BY <1>3, <2>3, <2>4 DEF CheckFile
<1>4. CASE SwapCompilationStarted(p)
  BY <1>4 DEF SwapCompilationStarted, Stages
<1> QED
  BY <1>1, <1>2, <1>3, <1>4 DEF ScanStep

LEMMA StreamKeepsSeen ==
  ASSUME Inv, NEW s \in Sessions, Ready(s) => Seen(s),
         NEW u \in Streams, StreamStep(u), Ready(s)'
  PROVE  Seen(s)'
<1> USE SessionUploadsAssumption
    DEF Inv, TypeOK, Procs, Ready, AllUploaded, Seen, WillCheck, Goto,
        fileVars, sessionVars, handlerVars, clientVars, scanVars
<1>1. ASSUME NEW req \in toUpload, FirstChunk(u, req)
      PROVE  Seen(s)'
  BY <1>1 DEF FirstChunk
<1>2. CASE ReceiveFile(u)
  BY <1>2 DEF ReceiveFile
<1>3. CASE CompileOwnPch(u)
  BY <1>3 DEF CompileOwnPch
<1>4. CASE UploadFails(u)
  <2>1. Ready(s)
    BY <1>4, ReadyBefore DEF UploadFails
  <2> QED
    BY <1>4, <2>1 DEF UploadFails
<1>5. CASE FileUploaded(u)
  BY <1>5 DEF FileUploaded
<1>6. CASE SaveFileToCache(u)
  BY <1>6 DEF SaveFileToCache
<1>7. CASE TakeFile(u)
  BY <1>7 DEF TakeFile
<1> QED
  BY <1>1, <1>2, <1>3, <1>4, <1>5, <1>6, <1>7 DEF StreamStep

(* A session all files of which have arrived does not stay in              *)
(* client.sessions with nobody on the way to start it: a handler registers *)
(* its session before it looks at the files, a stream stores the state of  *)
(* its file before it looks at the sessions.  Neither holds a lock over    *)
(* both.                                                                   *)
THEOREM NoWakeupIsLost == Spec => []NoLostWakeup
<1> DEFINE WInv == Inv /\ NoLostWakeup
<1>1. Init => WInv
  BY InitInv DEF Init, NoLostWakeup, Ready
<1>2. WInv /\ [Next]_vars => WInv'
  <2> SUFFICES ASSUME Inv, NoLostWakeup, [Next]_vars,
                      NEW s \in Sessions, Ready(s)'
               PROVE  Seen(s)'
    BY InvKept DEF NoLostWakeup, Seen
  <2>1. Ready(s) => Seen(s)
    BY DEF NoLostWakeup, Seen
  <2>2. ASSUME NEW t \in Sessions, CloseSession(t)
        PROVE  Seen(s)'
    BY <2>1, <2>2 DEF CloseSession, Ready, AllUploaded, Seen, WillCheck,
                      fileVars, handlerVars, clientVars, scanVars
  <2>3. ASSUME NEW req \in toUpload, LoseUpload(req)
        PROVE  Seen(s)'
    BY <2>1, <2>3 DEF LoseUpload, Ready, AllUploaded, Seen, WillCheck,
                      fileVars, sessionVars, handlerVars, scanVars
  <2>4. CASE UNCHANGED vars
    BY <2>1, <2>4 DEF vars, Ready, AllUploaded, Seen, WillCheck, fileVars,
                      sessionVars, handlerVars, clientVars, scanVars
  <2> QED
    BY <2>1, <2>2, <2>3, <2>4, HandlerKeepsSeen, ScanKeepsSeen, StreamKeepsSeen
    DEF Next
<1>3. WInv => NoLostWakeup
  OBVIOUS
<1> QED
  BY <1>1, <1>2, <1>3, PTL DEF Spec

-----------------------------------------------------------------------------
(* Nothing is compiled before its files are there                          *)

\* What a scan has established of the session it looks at.
ScannedFiles ==
  /\ \A p \in Procs : \A s \in todo[p] : s \in sessions \/ started[s]
  /\ \A p \in Procs : pc[p] = "check" /\ ~started[cur[p]] =>
       \A i \in DOMAIN Required[cur[p]] :
         i < pos[p] => onDisk[Required[cur[p]][i]] # None

\* A file that is on the disk stays there.
LEMMA FilesStay ==
  ASSUME TypeOK, Stages, NEW f \in FileNames, onDisk[f] # None, [Next]_vars
  PROVE  onDisk'[f] # None
<1> USE SessionUploadsAssumption
    DEF TypeOK, fileVars, sessionVars, handlerVars, clientVars, scanVars
<1>1. ASSUME NEW s \in Sessions, LinkedFromSrcCache(s)
      PROVE  onDisk'[f] # None
  BY <1>1 DEF LinkedFromSrcCache
<1>2. ASSUME NEW u \in Streams, ReceiveFile(u)
      PROVE  onDisk'[f] # None
  BY <1>2 DEF ReceiveFile, Stages, Request
<1>3. ASSUME NEW s \in Sessions, HandlerStep(s)
      PROVE  LinkedFromSrcCache(s) \/ onDisk' = onDisk
  BY <1>3 DEF HandlerStep, Refuse, CreateNewSession, LookupFile, InsertFile,
     FromObjCache, NotInObjCache, SwitchOnState, ClaimFile,
     SystemHeaderDiffers, SystemHeaderEqual, AskForFile, AskAgain,
     RegisterCreatedSession, Reply
<1>4. ASSUME NEW p \in Procs, ScanStep(p)
      PROVE  onDisk' = onDisk
  BY <1>4 DEF ScanStep, GetSessionsNotStartedCompilation, PickSession,
              CheckFile, SwapCompilationStarted
<1>5. ASSUME NEW u \in Streams, StreamStep(u)
      PROVE  ReceiveFile(u) \/ onDisk' = onDisk
  BY <1>5 DEF StreamStep, FirstChunk, TakeFile, CompileOwnPch, UploadFails, FileUploaded,
              SaveFileToCache
<1> QED
  BY <1>1, <1>2, <1>3, <1>4, <1>5 DEF Next, CloseSession, LoseUpload, vars

LEMMA IndexesOfSession ==
  ASSUME NEW s \in Sessions
  PROVE  /\ Len(Required[s]) \in Nat \ {0}
         /\ DOMAIN Required[s] = 1 .. Len(Required[s])
BY SessionUploadsAssumption

LEMMA ScannedFilesKept ==
  ASSUME Inv, ScannedFiles, [Next]_vars
  PROVE  ScannedFiles'
<1> USE DEF fileVars, sessionVars, handlerVars, clientVars, scanVars
<1>0. ASSUME NEW s \in Sessions, NEW i \in DOMAIN Required[s],
             onDisk[Required[s][i]] # None
      PROVE  onDisk'[Required[s][i]] # None
  BY <1>0, FilesStay, FileOfSession DEF Inv
<1>1. ASSUME NEW p \in Procs, GetSessionsNotStartedCompilation(p)
      PROVE  ScannedFiles'
  BY <1>1 DEF GetSessionsNotStartedCompilation, Goto, ScannedFiles, Inv, TypeOK
<1>2. ASSUME NEW p \in Procs, PickSession(p)
      PROVE  ScannedFiles'
  <2>1. PICK s \in todo[p] :
          /\ todo' = [todo EXCEPT ![p] = @ \ {s}]
          /\ \/ pc' = pc /\ cur' = cur /\ pos' = pos
             \/ /\ s \in sessions => fileState[Required[s][1]] = "uploaded"
                /\ pc' = [pc EXCEPT ![p] = "check"]
                /\ cur' = [cur EXCEPT ![p] = s]
                /\ pos' = [pos EXCEPT ![p] =
                             IF s \in sessions THEN 2 ELSE Len(Required[s]) + 1]
    BY <1>2, Zenon DEF PickSession, Goto
  <2>2. UNCHANGED <<sessions, started, onDisk>> /\ s \in Sessions
    BY <1>2 DEF PickSession, Inv, TypeOK
  <2>3. (\A q \in Procs : \A t \in todo[q] : t \in sessions \/ started[t])'
    BY <2>1, <2>2 DEF ScannedFiles, Inv, TypeOK
  <2>4. CASE pc' = pc /\ cur' = cur /\ pos' = pos
    BY <2>2, <2>3, <2>4 DEF ScannedFiles
  <2>5. CASE /\ s \notin sessions
             /\ pc' = [pc EXCEPT ![p] = "check"]
             /\ cur' = [cur EXCEPT ![p] = s]
             /\ pos' = [pos EXCEPT ![p] = Len(Required[s]) + 1]
    BY <2>2, <2>3, <2>5 DEF ScannedFiles, Inv, TypeOK
  <2>6. CASE /\ s \in sessions
             /\ fileState[Required[s][1]] = "uploaded"
             /\ pc' = [pc EXCEPT ![p] = "check"]
             /\ cur' = [cur EXCEPT ![p] = s]
             /\ pos' = [pos EXCEPT ![p] = 2]
    <3>1. onDisk[Required[s][1]] # None
      BY <2>2, <2>6, FileOfSession, IndexesOfSession DEF Inv, StoredFiles
    <3>2. \A i \in DOMAIN Required[s] : i < 2 => i = 1
      BY <2>2, IndexesOfSession
    <3> QED
      BY <2>2, <2>3, <2>6, <3>1, <3>2 DEF ScannedFiles, Inv, TypeOK
  <2> QED
    BY <2>1, <2>4, <2>5, <2>6
<1>3. ASSUME NEW p \in Procs, CheckFile(p)
      PROVE  ScannedFiles'
  <2>1. /\ UNCHANGED <<sessions, started, onDisk, todo>>
        /\ pc[p] = "check" /\ cur[p] \in Sessions
        /\ pos[p] \in DOMAIN Required[cur[p]]
    BY <1>3 DEF CheckFile, Inv, Stages
  <2>2. CASE /\ fileState[Required[cur[p]][pos[p]]] = "uploaded"
             /\ pos' = [pos EXCEPT ![p] = @ + 1]
             /\ UNCHANGED <<pc, cur>>
    <3>1. onDisk[Required[cur[p]][pos[p]]] # None
      BY <2>1, <2>2, FileOfSession DEF Inv, StoredFiles
    <3>2. \A i \in DOMAIN Required[cur[p]] : i < pos[p] + 1 => i < pos[p] \/ i = pos[p]
      BY <2>1, IndexesOfSession
    <3> QED
      BY <2>1, <2>2, <3>1, <3>2 DEF ScannedFiles, Inv, TypeOK
  <2>3. CASE /\ pos' = [pos EXCEPT ![p] = 1]
             /\ cur' = [cur EXCEPT ![p] = None]
             /\ pc' = [pc EXCEPT ![p] = "pick"]
    BY <2>1, <2>3 DEF ScannedFiles, Inv, TypeOK
  <2> QED
    BY <1>3, <2>2, <2>3 DEF CheckFile, Goto
<1>4. ASSUME NEW p \in Procs, SwapCompilationStarted(p)
      PROVE  ScannedFiles'
  BY <1>4 DEF SwapCompilationStarted, Goto, ScannedFiles, Inv, TypeOK, Stages
<1>5. ASSUME UNCHANGED scanVars,
             \A p \in Procs : pc'[p] = "check" => pc[p] = "check",
             \A s \in Sessions : started[s] => started'[s],
             \A s \in sessions : s \in sessions' \/ started'[s]
      PROVE  ScannedFiles'
  BY <1>0, <1>5 DEF ScannedFiles, Inv, TypeOK, Stages
<1>6. ASSUME NEW s \in Sessions, HandlerStep(s)
      PROVE  ScannedFiles'
  BY <1>5, <1>6 DEF HandlerStep, Refuse, CreateNewSession, LookupFile,
     InsertFile, FromObjCache, NotInObjCache, SwitchOnState, ClaimFile,
     SystemHeaderDiffers, SystemHeaderEqual, LinkedFromSrcCache, AskForFile,
     AskAgain, RegisterCreatedSession, Reply, Goto, Inv, TypeOK
<1>7. ASSUME NEW s \in Sessions, CloseSession(s)
      PROVE  ScannedFiles'
  BY <1>5, <1>7 DEF CloseSession
<1>8. ASSUME NEW u \in Streams, StreamStep(u)
      PROVE  ScannedFiles'
  BY <1>5, <1>8 DEF StreamStep, FirstChunk, TakeFile, ReceiveFile, CompileOwnPch,
     UploadFails, FileUploaded, SaveFileToCache, Goto, Inv, TypeOK
<1>9. CASE UNCHANGED vars \/ \E req \in toUpload : LoseUpload(req)
  BY <1>5, <1>9 DEF vars, LoseUpload
<1> QED
  BY <1>1, <1>2, <1>3, <1>4, <1>6, <1>7, <1>8, <1>9 DEF Next, ScanStep

(* The scan reads the states of the files of a session one by one, without *)
(* a lock, while handlers and streams set them; still, the compiler is     *)
(* launched only when every file has been stored, because a file which is  *)
(* there is only ever replaced.                                            *)
THEOREM CompiledWithItsFiles == Spec => []LaunchedWithFiles
<1> DEFINE FInv == Inv /\ ScannedFiles /\ LaunchedWithFiles
<1>1. Init => FInv
  <2> SUFFICES ASSUME Init PROVE FInv
    OBVIOUS
  <2>1. ScannedFiles
    BY DEF Init, ScannedFiles, Procs
  <2>2. LaunchedWithFiles
    BY DEF Init, LaunchedWithFiles
  <2> QED
    BY <2>1, <2>2, InitInv
<1>2. FInv /\ [Next]_vars => FInv'
  <2> SUFFICES ASSUME Inv, ScannedFiles, LaunchedWithFiles, [Next]_vars
               PROVE  LaunchedWithFiles'
    BY InvKept, ScannedFilesKept
  <2> USE DEF fileVars, sessionVars, handlerVars, clientVars, scanVars
  <2>1. CASE launches' = launches
    BY <2>1, FilesStay, FilesOfSession DEF LaunchedWithFiles, Inv
  <2>2. ASSUME NEW p \in Procs, SwapCompilationStarted(p)
        PROVE  LaunchedWithFiles'
    <3>1. cur[p] \in Sessions /\ pc[p] = "check" /\ onDisk' = onDisk
      BY <2>2 DEF SwapCompilationStarted, Inv, Stages
    <3>2. CASE started[cur[p]]
      <4>1. launches' = launches
        BY <2>2, <3>1, <3>2 DEF SwapCompilationStarted, Inv, TypeOK
      <4> QED
        BY <2>1, <4>1
    <3>3. CASE ~started[cur[p]]
      <4>1. \A i \in DOMAIN Required[cur[p]] : i < pos[p]
        BY <2>2, <3>1, IndexesOfSession DEF SwapCompilationStarted, Inv, TypeOK
      <4>2. \A f \in FilesOf(cur[p]) : onDisk[f] # None
        BY <3>1, <3>3, <4>1 DEF ScannedFiles, FilesOf
      <4>3. \A s \in Sessions : launches'[s] = launches[s] \/ s = cur[p]
        BY <2>2, <3>1 DEF SwapCompilationStarted, Inv, TypeOK
      <4> QED
        BY <3>1, <4>2, <4>3 DEF LaunchedWithFiles
    <3> QED
      BY <3>2, <3>3
  <2>3. ASSUME NEW s \in Sessions, HandlerStep(s)
        PROVE  launches' = launches
    BY <2>3 DEF HandlerStep, Refuse, CreateNewSession, LookupFile, InsertFile,
       FromObjCache, NotInObjCache, SwitchOnState, ClaimFile,
       SystemHeaderDiffers, SystemHeaderEqual, LinkedFromSrcCache, AskForFile,
       AskAgain, RegisterCreatedSession, Reply
  <2>4. ASSUME NEW p \in Procs, ScanStep(p)
        PROVE  SwapCompilationStarted(p) \/ launches' = launches
    BY <2>4 DEF ScanStep, GetSessionsNotStartedCompilation, PickSession, CheckFile
  <2>5. ASSUME NEW u \in Streams, StreamStep(u)
        PROVE  launches' = launches
    BY <2>5 DEF StreamStep, FirstChunk, TakeFile, ReceiveFile, CompileOwnPch, UploadFails,
                FileUploaded, SaveFileToCache
  <2> QED
    BY <2>1, <2>2, <2>3, <2>4, <2>5 DEF Next, CloseSession, LoseUpload, vars
<1>3. FInv => LaunchedWithFiles
  OBVIOUS
<1> QED
  BY <1>1, <1>2, <1>3, PTL DEF Spec

-----------------------------------------------------------------------------
(* What is being uploaded has an upload on its way                         *)

BeforeRegistration == {"new", "lookup", "insert", "loop", "claim", "resolve", "reclaim"}

\* No scan knows a session that is not registered yet; its handler scans once
\* it is.
Opening ==
  \A s \in Sessions :
    /\ pc[s] \in BeforeRegistration =>
         /\ s \notin sessions /\ ~started[s]
         /\ \A q \in Procs : s \notin todo[q] /\ (pc[q] = "check" => cur[q] # s)
    /\ pc[s] \in ScanPcs => s \in sessions \/ started[s]

\* A handler asks for files of its session only.
AskedFor ==
  /\ \A s \in Sessions : asked[s] \subseteq FilesOf(s)
  /\ \A req \in toUpload : req.file \in FilesOf(req.session)
  /\ \A u \in Streams : pc[u] # "idle" => job[u].file \in FilesOf(job[u].session)

\* No scan has found f uploaded on behalf of s.  A session that has asked for f
\* is not started, and so not closed, as long as this holds.
NotPassed(s, f) ==
  /\ ~started[s]
  /\ \A q \in Procs : pc[q] = "check" /\ cur[q] = s =>
       \A i \in DOMAIN Required[s] : i < pos[q] => Required[s][i] # f

Looking(s, f) == pc[s] = "resolve" /\ File(s) = f

Asking(s, f) ==
  /\ f \in asked[s]
  /\ pc[s] \in {"loop", "claim", "resolve", "reclaim"} \cup ScanPcs
  /\ NotPassed(s, f)

Queued(req, f) ==
  req.file = f /\ req.session \in sessions /\ NotPassed(req.session, f)

\* Between GetSession and the access to session.files.
Taking(u, f) == pc[u] = "found" /\ Queued(job[u], f)

Sending(u, f) == pc[u] \in {"receiving", "pch", "received"} /\ job[u].file = f

GivenUp(s, f) == pc[s] = "headerDiffers" /\ f \in FilesOf(s)

\* Awaited, by a session that will not be closed before the upload begins.
OnItsWay(f) ==
  \/ \E s \in Sessions : Looking(s, f) \/ Asking(s, f) \/ GivenUp(s, f)
  \/ \E req \in toUpload : Queued(req, f)
  \/ \E u \in Streams : Taking(u, f) \/ Sending(u, f)

UploadingIsOnItsWay ==
  \A f \in FileNames \ failed : fileState[f] = "uploading" => OnItsWay(f)

UInv == Inv /\ Opening /\ AskedFor /\ UploadingIsOnItsWay

\* A handler's step moves the handler alone.
LEMMA HandlerMoves ==
  ASSUME Inv, NEW s \in Sessions, HandlerStep(s)
  PROVE  /\ UNCHANGED <<launches, failed, job, todo, cur, pos>>
         /\ \A q \in Procs \ {s} : pc'[q] = pc[q]
         /\ \A t \in Sessions \ {s} : asked'[t] = asked[t] /\ File(t)' = File(t)
         /\ pc[s] \in BeforeRegistration \cup {"pick"}
<1> USE DEF fileVars, sessionVars, handlerVars, clientVars, scanVars, Goto, NextFile, File,
            BeforeRegistration
<1>1. s \in Procs /\ pc \in [Procs -> HandlerPcs \cup StreamPcs \cup ScanPcs]
      /\ idx \in [Sessions -> Nat \ {0}] /\ asked \in [Sessions -> SUBSET FileNames]
  BY DEF Procs, Inv, TypeOK
<1>2. CASE Refuse(s) \/ CreateNewSession(s) \/ ClaimFile(s) \/ SystemHeaderDiffers(s)
  BY <1>1, <1>2 DEF Refuse, CreateNewSession, ClaimFile, SystemHeaderDiffers
<1>3. CASE LookupFile(s) \/ SwitchOnState(s) \/ InsertFile(s)
  BY <1>1, <1>3 DEF LookupFile, SwitchOnState, InsertFile
<1>4. CASE FromObjCache(s) \/ NotInObjCache(s) \/ RegisterCreatedSession(s) \/ Reply(s)
  BY <1>1, <1>4 DEF FromObjCache, NotInObjCache, RegisterCreatedSession, Reply
<1>5. CASE SystemHeaderEqual(s) \/ LinkedFromSrcCache(s)
  BY <1>1, <1>5 DEF SystemHeaderEqual, LinkedFromSrcCache
<1>6. CASE AskForFile(s) \/ AskAgain(s)
  BY <1>1, <1>6 DEF AskForFile, AskAgain
<1> QED
  BY <1>2, <1>3, <1>4, <1>5, <1>6 DEF HandlerStep

\* A stream's step moves the stream alone.
LEMMA StreamMoves ==
  ASSUME Inv, NEW u \in Streams, StreamStep(u)
  PROVE  /\ UNCHANGED <<launches, sessions, started, asked, idx, todo, cur, pos>>
         /\ \A q \in Procs \ {u} : pc'[q] = pc[q]
         /\ \A v \in Streams \ {u} : job'[v] = job[v]
         /\ pc'[u] # "check"
<1> USE DEF fileVars, sessionVars, handlerVars, clientVars, scanVars, Goto
<1>1. u \in Procs /\ pc \in [Procs -> HandlerPcs \cup StreamPcs \cup ScanPcs]
      /\ job \in [Streams -> Request \cup {None}]
  BY DEF Procs, Inv, TypeOK
<1>2. ASSUME NEW req \in toUpload, FirstChunk(u, req)
      PROVE  /\ UNCHANGED <<launches, sessions, started, asked, idx, todo, cur, pos>>
             /\ \A q \in Procs \ {u} : pc'[q] = pc[q]
             /\ \A v \in Streams \ {u} : job'[v] = job[v]
             /\ pc'[u] # "check"
  BY <1>1, <1>2 DEF FirstChunk
<1>3. CASE TakeFile(u) \/ ReceiveFile(u) \/ CompileOwnPch(u) \/ UploadFails(u)
           \/ FileUploaded(u) \/ SaveFileToCache(u)
  BY <1>1, <1>3 DEF TakeFile, ReceiveFile, CompileOwnPch, UploadFails, FileUploaded, SaveFileToCache
<1> QED
  BY <1>2, <1>3 DEF StreamStep

\* A scan moves the one that scans, and changes no file.
LEMMA ScanMoves ==
  ASSUME Inv, NEW p \in Procs, ScanStep(p)
  PROVE  /\ UNCHANGED <<fileState, fileSha, onDisk, srcCache, sessions, asked, idx,
                        toUpload, failed, job>>
         /\ \A q \in Procs \ {p} : /\ pc'[q] = pc[q] /\ todo'[q] = todo[q]
                                   /\ cur'[q] = cur[q] /\ pos'[q] = pos[q]
         /\ pc[p] \in ScanPcs /\ pc'[p] \in ScanPcs
<1> USE DEF fileVars, sessionVars, handlerVars, clientVars, scanVars, Goto, ScanPcs
<1>1. /\ pc \in [Procs -> HandlerPcs \cup StreamPcs \cup ScanPcs]
      /\ todo \in [Procs -> SUBSET Sessions] /\ cur \in [Procs -> Sessions \cup {None}]
      /\ pos \in [Procs -> Nat \ {0}]
  BY DEF Inv, TypeOK
<1>2. CASE GetSessionsNotStartedCompilation(p)
  BY <1>1, <1>2 DEF GetSessionsNotStartedCompilation
<1>3. CASE PickSession(p)
  BY <1>1, <1>3 DEF PickSession
<1>4. CASE CheckFile(p)
  BY <1>1, <1>4 DEF CheckFile
<1>5. CASE SwapCompilationStarted(p)
  BY <1>1, <1>5 DEF SwapCompilationStarted
<1> QED
  BY <1>2, <1>3, <1>4, <1>5 DEF ScanStep

LEMMA OpeningKept ==
  ASSUME Inv, Opening, [Next]_vars
  PROVE  Opening'
<1> USE DEF fileVars, sessionVars, handlerVars, clientVars, scanVars
<1>0. Sessions \subseteq Procs /\ Streams \cap Sessions = {}
  BY SessionUploadsAssumption DEF Procs
<1>t. /\ pc \in [Procs -> HandlerPcs \cup StreamPcs \cup ScanPcs]
      /\ started \in [Sessions -> BOOLEAN] /\ todo \in [Procs -> SUBSET Sessions]
      /\ cur \in [Procs -> Sessions \cup {None}]
  BY DEF Inv, TypeOK
<1>1. ASSUME NEW s \in Sessions, HandlerStep(s), UNCHANGED <<sessions, started>>,
             pc'[s] \in BeforeRegistration => pc[s] \in BeforeRegistration,
             pc'[s] \notin ScanPcs
      PROVE  Opening'
  BY <1>0, <1>1, <1>t, HandlerMoves DEF Opening, BeforeRegistration, ScanPcs
<1>2. ASSUME NEW s \in Sessions,
             \/ Refuse(s) \/ CreateNewSession(s) \/ LookupFile(s) \/ InsertFile(s)
             \/ NotInObjCache(s) \/ SwitchOnState(s) \/ ClaimFile(s) \/ SystemHeaderDiffers(s)
             \/ SystemHeaderEqual(s) \/ LinkedFromSrcCache(s) \/ AskForFile(s) \/ AskAgain(s)
             \/ Reply(s)
      PROVE  /\ UNCHANGED <<sessions, started>>
             /\ pc'[s] \in BeforeRegistration => pc[s] \in BeforeRegistration
             /\ pc'[s] \notin ScanPcs
  BY <1>0, <1>2, <1>t DEF Refuse, CreateNewSession, LookupFile, InsertFile, NotInObjCache,
     SwitchOnState, ClaimFile, SystemHeaderDiffers, SystemHeaderEqual, LinkedFromSrcCache,
     AskForFile, AskAgain, Reply, Goto, BeforeRegistration, ScanPcs
<1>3. ASSUME NEW s \in Sessions, FromObjCache(s) \/ RegisterCreatedSession(s)
      PROVE  Opening'
  <2>1. /\ sessions' = sessions \cup {s} /\ \A t \in Sessions \ {s} : started'[t] = started[t]
        /\ \A q \in Procs \ {s} : pc'[q] = pc[q]
        /\ pc'[s] \in {"replied", "scan"} /\ UNCHANGED <<todo, cur>>
    BY <1>0, <1>3, <1>t DEF FromObjCache, RegisterCreatedSession, Goto
  <2> QED
    BY <1>0, <2>1 DEF Opening, BeforeRegistration, ScanPcs
<1>4. ASSUME NEW p \in Procs, ScanStep(p)
      PROVE  Opening'
  <2>1. /\ \A q \in Procs \ {p} : /\ pc'[q] = pc[q] /\ todo'[q] = todo[q] /\ cur'[q] = cur[q]
        /\ pc[p] \in ScanPcs /\ pc'[p] \in ScanPcs /\ sessions' = sessions
    BY <1>4, ScanMoves
  <2>2. /\ todo'[p] \subseteq todo[p] \cup sessions
        /\ pc'[p] = "check" => cur'[p] \in todo[p] \/ (pc[p] = "check" /\ cur'[p] = cur[p])
        /\ \A t \in Sessions : \/ started'[t] = started[t]
                               \/ pc[p] = "check" /\ t = cur[p] /\ started'[t]
    BY <1>4, <1>t DEF ScanStep, GetSessionsNotStartedCompilation, PickSession, CheckFile,
       SwapCompilationStarted, Goto
  <2> QED
    BY <1>0, <2>1, <2>2 DEF Opening, BeforeRegistration, ScanPcs
<1>5. ASSUME NEW u \in Streams, StreamStep(u)
      PROVE  Opening'
  BY <1>0, <1>5, StreamMoves DEF Opening
<1>6. ASSUME NEW s \in Sessions, CloseSession(s)
      PROVE  Opening'
  BY <1>6 DEF CloseSession, Opening
<1>7. CASE UNCHANGED vars \/ \E req \in toUpload : LoseUpload(req)
  BY <1>7 DEF vars, LoseUpload, Opening
<1>8. ASSUME NEW s \in Sessions, HandlerStep(s)
      PROVE  Opening'
  BY <1>1, <1>2, <1>3, <1>8 DEF HandlerStep
<1> QED
  BY <1>4, <1>5, <1>6, <1>7, <1>8 DEF Next

LEMMA AskedForKept ==
  ASSUME Inv, AskedFor, [Next]_vars
  PROVE  AskedFor'
<1> USE DEF fileVars, sessionVars, handlerVars, clientVars, scanVars
<1>t. /\ asked \in [Sessions -> SUBSET FileNames] /\ toUpload \subseteq Request
      /\ job \in [Streams -> Request \cup {None}] /\ Sessions \subseteq Procs
  BY DEF Inv, TypeOK, Procs
<1>0. Streams \cap Sessions = {} /\ Streams \subseteq Procs
  BY SessionUploadsAssumption DEF Procs
<1>1. ASSUME UNCHANGED <<asked, toUpload, job>>,
             \A u \in Streams : pc'[u] = "idle" <=> pc[u] = "idle"
      PROVE  AskedFor'
  BY <1>1 DEF AskedFor
<1>h. ASSUME NEW s \in Sessions, HandlerStep(s)
      PROVE  \A u \in Streams : pc'[u] = pc[u]
  BY <1>0, <1>h, HandlerMoves
<1>2. ASSUME NEW s \in Sessions, AskForFile(s) \/ AskAgain(s)
      PROVE  AskedFor'
  <2>1. pc[s] \in {"resolve", "reclaim"} /\ asked' = [asked EXCEPT ![s] = @ \cup {File(s)}]
        /\ UNCHANGED <<toUpload, job>> /\ \A u \in Streams : pc'[u] = pc[u]
    BY <1>0, <1>2, <1>h DEF AskForFile, AskAgain, HandlerStep
  <2>2. File(s) \in FilesOf(s)
    BY <2>1, FileOfSession DEF Inv, Stages, HasFile, File
  <2> QED
    BY <1>t, <2>1, <2>2 DEF AskedFor
<1>3. ASSUME NEW s \in Sessions, Reply(s)
      PROVE  AskedFor'
  <2>1. \A u \in Streams : pc'[u] = pc[u]
    BY <1>3, <1>h DEF HandlerStep
  <2> QED
    BY <1>3, <1>t, <2>1 DEF Reply, AskedFor
<1>4. ASSUME NEW s \in Sessions, HandlerStep(s)
      PROVE  AskedFor'
  BY <1>1, <1>2, <1>3, <1>4, <1>h DEF HandlerStep, Refuse, CreateNewSession, LookupFile, InsertFile,
     FromObjCache, NotInObjCache, SwitchOnState, ClaimFile, SystemHeaderDiffers,
     SystemHeaderEqual, LinkedFromSrcCache, RegisterCreatedSession
<1>5. ASSUME NEW u \in Streams, StreamStep(u)
      PROVE  AskedFor'
  <2>1. \A v \in Streams : \/ pc'[v] = "idle"
                           \/ job'[v] \in toUpload
                           \/ job'[v] = job[v] /\ pc[v] # "idle"
    <3>1. pc \in [Procs -> HandlerPcs \cup StreamPcs \cup ScanPcs]
      BY DEF Inv, TypeOK
    <3>2. \A v \in Streams \ {u} : pc'[v] = pc[v] /\ job'[v] = job[v]
      BY <1>0, <1>5, StreamMoves DEF Procs
    <3>3. ASSUME NEW req \in toUpload, FirstChunk(u, req)
          PROVE  pc'[u] = "idle" \/ job'[u] \in toUpload
      BY <1>0, <1>t, <3>1, <3>3 DEF FirstChunk, Goto
    <3>4. CASE ReceiveFile(u) \/ CompileOwnPch(u) \/ FileUploaded(u)
      BY <3>2, <3>4 DEF ReceiveFile, CompileOwnPch, FileUploaded
    <3>5. CASE UploadFails(u) \/ SaveFileToCache(u)
      <4>1. pc'[u] = "idle"
        BY <1>0, <3>1, <3>5 DEF UploadFails, SaveFileToCache, Goto
      <4> QED
        BY <3>2, <4>1
    <3>6. CASE TakeFile(u)
      BY <1>0, <3>1, <3>2, <3>6 DEF TakeFile, Goto
    <3> QED
      BY <1>5, <3>2, <3>3, <3>4, <3>5, <3>6 DEF StreamStep
  <2>2. toUpload' \subseteq toUpload /\ asked' = asked
    BY <1>5 DEF StreamStep, FirstChunk, TakeFile, ReceiveFile, CompileOwnPch, UploadFails,
       FileUploaded, SaveFileToCache
  <2> QED
    BY <2>1, <2>2 DEF AskedFor
<1>6. CASE \E req \in toUpload : LoseUpload(req)
  BY <1>6 DEF LoseUpload, AskedFor
<1>7. ASSUME NEW p \in Procs, ScanStep(p)
      PROVE  AskedFor'
  BY <1>0, <1>1, <1>7, ScanMoves DEF ScanPcs
<1>8. CASE UNCHANGED vars \/ \E s \in Sessions : CloseSession(s)
  BY <1>1, <1>8 DEF vars, CloseSession
<1> QED
  BY <1>4, <1>5, <1>6, <1>7, <1>8 DEF Next

\* Where a session stands that asks for a file.
LEMMA Asks ==
  ASSUME Inv, Opening, AskedFor, NEW f
  PROVE  /\ \A s \in Sessions : Looking(s, f) =>
              f \in FilesOf(s) /\ NotPassed(s, f) /\ s \notin sessions
         /\ \A s \in Sessions : Asking(s, f) =>
              /\ f \in FilesOf(s) /\ (pc[s] \in BeforeRegistration \/ s \in sessions)
              /\ pc[s] \in ScanPcs => s \in sessions
         /\ \A req \in toUpload : Queued(req, f) => f \in FilesOf(req.session)
         /\ \A u \in Streams : Taking(u, f) => f \in FilesOf(job[u].session)
<1>1. ASSUME NEW s \in Sessions, Looking(s, f)
      PROVE  f \in FilesOf(s) /\ NotPassed(s, f) /\ s \notin sessions
  <2>1. f \in FilesOf(s)
    BY <1>1, FileOfSession DEF Inv, Stages, HasFile, File, Looking
  <2> QED
    BY <1>1, <2>1 DEF Looking, Opening, BeforeRegistration, NotPassed
<1>2. ASSUME NEW s \in Sessions, Asking(s, f)
      PROVE  /\ f \in FilesOf(s) /\ (pc[s] \in BeforeRegistration \/ s \in sessions)
             /\ pc[s] \in ScanPcs => s \in sessions
  BY <1>2 DEF Asking, Opening, AskedFor, BeforeRegistration, NotPassed
<1> QED
  BY <1>1, <1>2 DEF Queued, Taking, AskedFor

\* A scan passes only what it finds uploaded.
LEMMA ScanPasses ==
  ASSUME Inv, Opening, ScannedFiles, NEW p \in Procs, ScanStep(p),
         NEW f \in FileNames, fileState[f] = "uploading",
         NEW s \in Sessions, NotPassed(s, f), f \in FilesOf(s),
         pc[s] \in BeforeRegistration \/ s \in sessions
  PROVE  NotPassed(s, f)'
<1> USE DEF fileVars, sessionVars, handlerVars, clientVars, scanVars
<1>t. /\ pc \in [Procs -> HandlerPcs \cup StreamPcs \cup ScanPcs]
      /\ started \in [Sessions -> BOOLEAN] /\ todo \in [Procs -> SUBSET Sessions]
      /\ cur \in [Procs -> Sessions \cup {None}] /\ pos \in [Procs -> Nat \ {0}]
  BY DEF Inv, TypeOK
<1>1. \A q \in Procs \ {p} : pc'[q] = pc[q] /\ cur'[q] = cur[q] /\ pos'[q] = pos[q]
  BY ScanMoves
<1>2. SUFFICES /\ ~ started'[s]
               /\ pc'[p] = "check" /\ cur'[p] = s =>
                    \A i \in DOMAIN Required[s] : i < pos'[p] => Required[s][i] # f
  BY <1>1 DEF NotPassed
<1>3. CASE GetSessionsNotStartedCompilation(p)
  BY <1>3, <1>t DEF GetSessionsNotStartedCompilation, Goto, NotPassed
<1>4. CASE PickSession(p)
  <2>1. PICK t \in todo[p] :
          \/ pc' = pc
          \/ /\ cur' = [cur EXCEPT ![p] = t]
             /\ pos' = [pos EXCEPT ![p] = IF t \in sessions THEN 2 ELSE Len(Required[t]) + 1]
             /\ t \in sessions => fileState[Required[t][1]] = "uploaded"
    BY <1>4, Zenon DEF PickSession
  <2>2. started' = started /\ pc[p] = "pick"
    BY <1>4 DEF PickSession
  <2>3. s \in todo[p] => s \in sessions
    BY DEF Opening
  <2>4. \A i \in DOMAIN Required[s] : i < 2 => i = 1
    BY IndexesOfSession
  <2> QED
    BY <1>t, <2>1, <2>2, <2>3, <2>4 DEF NotPassed
<1>5. CASE CheckFile(p)
  <2>1. /\ started' = started /\ pc[p] = "check" /\ pos[p] \in DOMAIN Required[cur[p]]
        /\ \/ /\ fileState[Required[cur[p]][pos[p]]] = "uploaded"
              /\ pos' = [pos EXCEPT ![p] = @ + 1] /\ UNCHANGED <<pc, cur>>
           \/ pc' = [pc EXCEPT ![p] = "pick"]
    BY <1>5, Zenon DEF CheckFile, Goto
  <2>2. CASE pc' = [pc EXCEPT ![p] = "pick"]
    BY <1>t, <2>1, <2>2 DEF NotPassed
  <2>3. CASE cur[p] # s /\ UNCHANGED <<pc, cur>>
    BY <2>1, <2>3 DEF NotPassed
  <2>4. CASE /\ cur[p] = s /\ fileState[Required[s][pos[p]]] = "uploaded"
             /\ pos'[p] = pos[p] + 1
    <3>1. \A i \in DOMAIN Required[s] : i < pos[p] + 1 => i < pos[p] \/ i = pos[p]
      BY <1>t, IndexesOfSession
    <3> QED
      BY <2>1, <2>4, <3>1 DEF NotPassed
  <2> QED
    BY <1>t, <2>1, <2>2, <2>3, <2>4
<1>6. CASE SwapCompilationStarted(p)
  <2>1. /\ pc[p] = "check" /\ pos[p] \notin DOMAIN Required[cur[p]] /\ pc'[p] = "pick"
        /\ \A t \in Sessions \ {cur[p]} : started'[t] = started[t]
    BY <1>6, <1>t DEF SwapCompilationStarted, Goto
  <2>2. cur[p] # s
    <3>1. ASSUME cur[p] = s
          PROVE  FALSE
      <4>1. \A i \in DOMAIN Required[s] : i < pos[p]
        BY <1>t, <2>1, <3>1, IndexesOfSession
      <4> QED
        BY <2>1, <3>1, <4>1 DEF NotPassed, FilesOf
    <3> QED
      BY <3>1
  <2> QED
    BY <2>1, <2>2 DEF NotPassed
<1> QED
  BY <1>3, <1>4, <1>5, <1>6 DEF ScanStep

LEMMA ScanKeepsOnItsWay ==
  ASSUME Inv, Opening, AskedFor, ScannedFiles, NEW p \in Procs, ScanStep(p),
         NEW f \in FileNames, fileState[f] = "uploading", OnItsWay(f)
  PROVE  OnItsWay(f)'
<1>1. /\ UNCHANGED <<fileState, sessions, asked, idx, toUpload, job>>
      /\ \A q \in Procs \ {p} : pc'[q] = pc[q]
      /\ pc[p] \in {"scan", "pick", "check"} /\ pc'[p] \in ScanPcs
  BY ScanMoves DEF ScanPcs
<1>2. Sessions \subseteq Procs /\ Streams \subseteq Procs
  BY DEF Procs
<1>3. ASSUME NEW s \in Sessions, Looking(s, f)
      PROVE  Looking(s, f)'
  BY <1>1, <1>2, <1>3 DEF Looking, File
<1>4. ASSUME NEW s \in Sessions, Asking(s, f)
      PROVE  Asking(s, f)'
  <2>1. NotPassed(s, f)'
    <3>1. /\ f \in FilesOf(s) /\ NotPassed(s, f)
          /\ pc[s] \in BeforeRegistration \/ s \in sessions
      BY <1>4, Asks DEF Asking, AskedFor
    <3> QED
      BY <3>1, ScanPasses
  <2> QED
    BY <1>1, <1>2, <1>4, <2>1 DEF Asking
<1>5. ASSUME NEW s \in Sessions, GivenUp(s, f)
      PROVE  GivenUp(s, f)'
  BY <1>1, <1>2, <1>5 DEF GivenUp
<1>6. ASSUME NEW req \in toUpload, Queued(req, f)
      PROVE  Queued(req, f)'
  <2>1. f \in FilesOf(req.session) /\ NotPassed(req.session, f) /\ req.session \in sessions
    BY <1>6, Asks DEF Queued
  <2>2. req.session \in Sessions
    BY DEF Inv, TypeOK, Request
  <2>3. NotPassed(req.session, f)'
    BY <2>1, <2>2, ScanPasses
  <2> QED
    BY <1>1, <1>6, <2>3 DEF Queued
<1>7. ASSUME NEW u \in Streams, Sending(u, f)
      PROVE  Sending(u, f)'
  BY <1>1, <1>2, <1>7 DEF Sending
<1>8. ASSUME NEW u \in Streams, Taking(u, f)
      PROVE  Taking(u, f)'
  <2>1. /\ f \in FilesOf(job[u].session) /\ NotPassed(job[u].session, f)
        /\ job[u].session \in sessions /\ pc'[u] = "found"
    BY <1>1, <1>2, <1>8, Asks DEF Taking, Queued
  <2>2. PICK s \in Sessions : s = job[u].session
    BY <2>1 DEF Inv, TypeOK
  <2>3. NotPassed(s, f)'
    BY <2>1, <2>2, ScanPasses
  <2> QED
    BY <1>1, <1>8, <2>1, <2>2, <2>3 DEF Taking, Queued, NotPassed
<1> QED
  BY <1>1, <1>3, <1>4, <1>5, <1>6, <1>7, <1>8 DEF OnItsWay

\* What of a file's state a handler sets.
LEMMA HandlerSets ==
  ASSUME Inv, NEW s \in Sessions, HandlerStep(s), NEW f \in FileNames,
         fileState'[f] = "uploading", fileState[f] # "uploading"
  PROVE  File(s) = f /\ (ClaimFile(s) \/ AskAgain(s))
<1> USE DEF fileVars, sessionVars, handlerVars, clientVars, scanVars
<1>t. fileState \in [FileNames -> FileStates]
  BY DEF Inv, TypeOK
<1> QED
  BY <1>t DEF HandlerStep, Refuse, CreateNewSession, LookupFile, InsertFile,
     FromObjCache, NotInObjCache, SwitchOnState, ClaimFile, SystemHeaderDiffers,
     SystemHeaderEqual, LinkedFromSrcCache, AskForFile, AskAgain, RegisterCreatedSession,
     Reply

\* The sessions that ask are the ones that are not started: closing leaves
\* them, and so does the hit of another one in the obj cache.
LEMMA HandlerPasses ==
  ASSUME Inv, Opening, NEW s \in Sessions, HandlerStep(s), NEW f, NEW t \in Sessions,
         NotPassed(t, f), pc[t] # "lookup"
  PROVE  NotPassed(t, f)'
<1> USE DEF fileVars, sessionVars, handlerVars, clientVars, scanVars
<1>1. UNCHANGED <<cur, pos>> /\ \A q \in Procs \ {s} : pc'[q] = pc[q]
  BY HandlerMoves
<1>2. pc'[s] # "check"
  BY DEF HandlerStep, Refuse, CreateNewSession, LookupFile, InsertFile,
     FromObjCache, NotInObjCache, SwitchOnState, ClaimFile, SystemHeaderDiffers,
     SystemHeaderEqual, LinkedFromSrcCache, AskForFile, AskAgain, RegisterCreatedSession,
     Reply, Goto, Procs, Inv, TypeOK
<1>3. started'[t] = started[t]
  BY DEF HandlerStep, Refuse, CreateNewSession, LookupFile, InsertFile,
     FromObjCache, NotInObjCache, SwitchOnState, ClaimFile, SystemHeaderDiffers,
     SystemHeaderEqual, LinkedFromSrcCache, AskForFile, AskAgain, RegisterCreatedSession,
     Reply, Inv, TypeOK
<1> QED
  BY <1>1, <1>2, <1>3 DEF NotPassed

\* What becomes of a file the handler itself is to bring.
LEMMA HandlerHandsOn ==
  ASSUME Inv, Opening, AskedFor, NEW s \in Sessions, HandlerStep(s), NEW f \in FileNames,
         fileState'[f] = "uploading", Looking(s, f) \/ Asking(s, f)
  PROVE  OnItsWay(f)'
<1> USE DEF fileVars, sessionVars, handlerVars, clientVars, scanVars
<1>t. /\ pc \in [Procs -> HandlerPcs \cup StreamPcs \cup ScanPcs] /\ s \in Procs
      /\ asked \in [Sessions -> SUBSET FileNames] /\ idx \in [Sessions -> Nat \ {0}]
      /\ fileState \in [FileNames -> FileStates]
  BY DEF Inv, TypeOK, Procs
<1>1. /\ f \in FilesOf(s) /\ NotPassed(s, f) /\ pc[s] # "lookup"
      /\ pc[s] \in ScanPcs => s \in sessions
  BY Asks DEF Asking, Looking, AskedFor, ScanPcs
<1>2. NotPassed(s, f)'
  BY <1>1, HandlerPasses
<1>3. CASE SystemHeaderDiffers(s)
  <2>1. GivenUp(s, f)'
    BY <1>1, <1>3, <1>t DEF SystemHeaderDiffers, Goto, GivenUp
  <2> QED
    BY <2>1 DEF OnItsWay
<1>4. CASE Reply(s)
  <2>1. f \in asked[s] /\ s \in sessions /\ pc[s] = "pick"
    BY <1>1, <1>4 DEF Reply, Looking, Asking, ScanPcs
  <2>2. [session |-> s, file |-> f] \in toUpload' /\ sessions' = sessions
    BY <1>4, <2>1 DEF Reply
  <2>3. Queued([session |-> s, file |-> f], f)'
    BY <1>2, <2>1, <2>2 DEF Queued
  <2> QED
    BY <2>2, <2>3 DEF OnItsWay
<1>5. CASE SystemHeaderEqual(s) \/ LinkedFromSrcCache(s)
  <2>1. /\ asked' = asked /\ pc'[s] = "loop" /\ File(s) # f /\ pc[s] = "resolve"
    BY <1>5, <1>t DEF SystemHeaderEqual, LinkedFromSrcCache, Goto
  <2>2. Asking(s, f)'
    BY <1>2, <2>1 DEF Asking, Looking
  <2> QED
    BY <2>2 DEF OnItsWay
<1>6. CASE AskForFile(s) \/ AskAgain(s)
  <2>1. /\ asked' = [asked EXCEPT ![s] = @ \cup {File(s)}] /\ pc'[s] = "loop"
    BY <1>6, <1>t DEF AskForFile, AskAgain, Goto
  <2>2. Asking(s, f)'
    BY <1>2, <1>t, <2>1 DEF Asking, Looking
  <2> QED
    BY <2>2 DEF OnItsWay
<1>7. CASE SwitchOnState(s) \/ ClaimFile(s) \/ RegisterCreatedSession(s)
  <2>1. /\ asked' = asked /\ pc[s] \in {"loop", "claim"}
        /\ pc'[s] \in {"loop", "claim", "resolve", "reclaim", "scan"}
    BY <1>7, <1>t DEF SwitchOnState, ClaimFile, RegisterCreatedSession, Goto
  <2>2. Asking(s, f)'
    BY <1>2, <2>1 DEF Asking, Looking, ScanPcs
  <2> QED
    BY <2>2 DEF OnItsWay
<1>8. CASE Refuse(s) \/ CreateNewSession(s) \/ LookupFile(s) \/ InsertFile(s)
           \/ FromObjCache(s) \/ NotInObjCache(s)
  BY <1>8 DEF Refuse, CreateNewSession, LookupFile, InsertFile, FromObjCache,
     NotInObjCache, Looking, Asking, ScanPcs
<1> QED
  BY <1>3, <1>4, <1>5, <1>6, <1>7, <1>8 DEF HandlerStep

LEMMA HandlerKeepsOnItsWay ==
  ASSUME UInv, NEW s \in Sessions, HandlerStep(s), NEW f \in FileNames \ failed,
         fileState'[f] = "uploading"
  PROVE  OnItsWay(f)'
<1> USE DEF fileVars, sessionVars, handlerVars, clientVars, scanVars
<1>i. Inv /\ Opening /\ AskedFor
  BY DEF UInv
<1>m. /\ \A q \in Procs \ {s} : pc'[q] = pc[q]
      /\ \A t \in Sessions \ {s} : asked'[t] = asked[t] /\ File(t)' = File(t)
      /\ job' = job /\ pc[s] \in BeforeRegistration \cup {"pick"}
  BY <1>i, HandlerMoves
<1>p. Sessions \subseteq Procs /\ Streams \subseteq Procs \ {s}
  BY SessionUploadsAssumption DEF Procs
<1>1. CASE fileState[f] # "uploading"
  <2>1. File(s) = f /\ (ClaimFile(s) \/ AskAgain(s))
    BY <1>i, <1>1, HandlerSets
  <2>2. CASE ClaimFile(s)
    <3>1. Looking(s, f)'
      BY <2>1, <2>2 DEF ClaimFile, Goto, Looking, File, Inv, UInv, TypeOK, Procs
    <3> QED
      BY <3>1 DEF OnItsWay
  <2>3. CASE AskAgain(s)
    <3>1. /\ pc[s] = "reclaim" /\ f \in asked'[s] /\ pc'[s] = "loop"
      BY <1>p, <2>1, <2>3 DEF AskAgain, Goto, Inv, UInv, TypeOK
    <3>2. NotPassed(s, f)
      BY <1>i, <3>1, <1>p DEF NotPassed, Opening, BeforeRegistration
    <3>3. NotPassed(s, f)'
      BY <1>i, <3>1, <3>2, HandlerPasses
    <3>4. Asking(s, f)'
      BY <3>1, <3>3 DEF Asking
    <3> QED
      BY <3>4 DEF OnItsWay
  <2> QED
    BY <2>1, <2>2, <2>3
<1>2. CASE fileState[f] = "uploading"
  <2>1. OnItsWay(f)
    BY <1>2 DEF UInv, UploadingIsOnItsWay
  <2>2. ASSUME Looking(s, f) \/ Asking(s, f)
        PROVE  OnItsWay(f)'
    BY <1>i, <2>2, HandlerHandsOn
  <2>3. ASSUME NEW t \in Sessions \ {s}, Looking(t, f) \/ GivenUp(t, f)
        PROVE  OnItsWay(f)'
    <3>1. Looking(t, f)' \/ GivenUp(t, f)'
      BY <1>m, <1>p, <2>3 DEF Looking, GivenUp
    <3> QED
      BY <3>1 DEF OnItsWay
  <2>4. ASSUME NEW t \in Sessions \ {s}, Asking(t, f)
        PROVE  OnItsWay(f)'
    <3>1. NotPassed(t, f)'
      BY <1>i, <2>4, HandlerPasses DEF Asking, ScanPcs
    <3>2. Asking(t, f)'
      BY <1>m, <1>p, <2>4, <3>1 DEF Asking
    <3> QED
      BY <3>2 DEF OnItsWay
  <2>5. ~ GivenUp(s, f)
    BY <1>m DEF GivenUp, BeforeRegistration
  <2>6. ASSUME NEW req \in toUpload, Queued(req, f)
        PROVE  OnItsWay(f)'
    <3>1. req \in toUpload' /\ sessions \subseteq sessions'
      BY DEF HandlerStep, Refuse, CreateNewSession, LookupFile, InsertFile,
         FromObjCache, NotInObjCache, SwitchOnState, ClaimFile, SystemHeaderDiffers,
         SystemHeaderEqual, LinkedFromSrcCache, AskForFile, AskAgain,
         RegisterCreatedSession, Reply
    <3>2. req.session \in Sessions /\ pc[req.session] # "lookup"
      BY <1>i, <2>6 DEF Queued, Opening, BeforeRegistration, Inv, TypeOK, Request
    <3>3. NotPassed(req.session, f)'
      BY <1>i, <2>6, <3>2, HandlerPasses DEF Queued
    <3>4. Queued(req, f)'
      BY <2>6, <3>1, <3>3 DEF Queued
    <3> QED
      BY <3>1, <3>4 DEF OnItsWay
  <2>7. ASSUME NEW u \in Streams, Sending(u, f)
        PROVE  OnItsWay(f)'
    <3>1. Sending(u, f)'
      BY <1>m, <1>p, <2>7 DEF Sending
    <3> QED
      BY <3>1 DEF OnItsWay
  <2>8. ASSUME NEW u \in Streams, Taking(u, f)
        PROVE  OnItsWay(f)'
    <3>1. job' = job /\ pc'[u] = "found" /\ sessions \subseteq sessions'
      BY <1>m, <1>p, <2>8 DEF Taking, HandlerStep, Refuse, CreateNewSession, LookupFile,
         InsertFile, FromObjCache, NotInObjCache, SwitchOnState, ClaimFile,
         SystemHeaderDiffers, SystemHeaderEqual, LinkedFromSrcCache, AskForFile, AskAgain,
         RegisterCreatedSession, Reply
    <3>2. PICK t \in Sessions : t = job[u].session /\ pc[t] # "lookup"
      BY <1>i, <2>8 DEF Taking, Queued, Opening, BeforeRegistration, Inv, TypeOK
    <3>3. NotPassed(t, f)'
      BY <1>i, <2>8, <3>2, HandlerPasses DEF Taking, Queued
    <3>4. Taking(u, f)'
      BY <2>8, <3>1, <3>2, <3>3 DEF Taking, Queued, NotPassed
    <3> QED
      BY <3>4 DEF OnItsWay
  <2> QED
    BY <2>1, <2>2, <2>3, <2>4, <2>5, <2>6, <2>7, <2>8 DEF OnItsWay
<1> QED
  BY <1>1, <1>2

LEMMA StreamKeepsOnItsWay ==
  ASSUME UInv, NEW u \in Streams, StreamStep(u), NEW f \in FileNames \ failed',
         fileState'[f] = "uploading"
  PROVE  OnItsWay(f)'
<1> USE DEF fileVars, sessionVars, handlerVars, clientVars, scanVars
<1>m. /\ UNCHANGED <<sessions, started, asked, idx, cur, pos>>
      /\ \A q \in Procs \ {u} : pc'[q] = pc[q]
      /\ \A v \in Streams \ {u} : job'[v] = job[v]
      /\ pc'[u] # "check"
  BY StreamMoves DEF UInv
<1>t. /\ pc \in [Procs -> HandlerPcs \cup StreamPcs \cup ScanPcs] /\ u \in Procs
      /\ job \in [Streams -> Request \cup {None}]
      /\ fileState \in [FileNames -> FileStates] /\ toUpload \subseteq Request
      /\ Sessions \subseteq Procs \ {u} /\ Streams \subseteq Procs
  BY SessionUploadsAssumption DEF UInv, Inv, TypeOK, Procs
<1>1. ASSUME NEW t, NotPassed(t, f)
      PROVE  NotPassed(t, f)'
  BY <1>1, <1>m DEF NotPassed
<1>2. failed \subseteq failed' /\ fileState[f] = "uploading"
  BY <1>t DEF StreamStep, FirstChunk, TakeFile, ReceiveFile, CompileOwnPch, UploadFails,
     FileUploaded, SaveFileToCache
<1>3. OnItsWay(f)
  BY <1>2 DEF UInv, UploadingIsOnItsWay
<1>4. ASSUME NEW s \in Sessions, Looking(s, f) \/ Asking(s, f) \/ GivenUp(s, f)
      PROVE  OnItsWay(f)'
  <2>1. Looking(s, f)' \/ Asking(s, f)' \/ GivenUp(s, f)'
    BY <1>1, <1>4, <1>m, <1>t DEF Looking, File, Asking, GivenUp
  <2> QED
    BY <2>1 DEF OnItsWay
<1>5. ASSUME NEW v \in Streams \ {u}, Taking(v, f) \/ Sending(v, f)
      PROVE  OnItsWay(f)'
  <2>1. Taking(v, f)' \/ Sending(v, f)'
    BY <1>1, <1>5, <1>m, <1>t DEF Taking, Queued, Sending
  <2> QED
    BY <2>1 DEF OnItsWay
<1>6. ASSUME Sending(u, f)
      PROVE  OnItsWay(f)'
  <2>1. CASE ReceiveFile(u) \/ CompileOwnPch(u)
    <3>1. job' = job /\ pc'[u] \in {"pch", "received"}
      BY <1>t, <2>1 DEF ReceiveFile, CompileOwnPch, Goto
    <3>2. Sending(u, f)'
      BY <1>6, <3>1 DEF Sending
    <3> QED
      BY <3>2 DEF OnItsWay
  <2>2. ~ UploadFails(u) /\ ~ FileUploaded(u)
    BY <1>6, <1>t DEF UploadFails, FileUploaded, Sending
  <2>3. /\ ~ SaveFileToCache(u) /\ ~ TakeFile(u)
        /\ ~ \E req \in toUpload : FirstChunk(u, req)
    BY <1>6 DEF SaveFileToCache, TakeFile, FirstChunk, Sending
  <2> QED
    BY <2>1, <2>2, <2>3 DEF StreamStep
<1>7. ASSUME NEW req \in toUpload, Queued(req, f)
      PROVE  OnItsWay(f)'
  <2>1. CASE req \in toUpload'
    <3>1. Queued(req, f)'
      BY <1>1, <1>7, <1>m DEF Queued
    <3> QED
      BY <2>1, <3>1 DEF OnItsWay
  <2>2. CASE req \notin toUpload'
    <3>1. FirstChunk(u, req)
      BY <2>2 DEF StreamStep, FirstChunk, TakeFile, ReceiveFile, CompileOwnPch, UploadFails,
         FileUploaded, SaveFileToCache
    <3>2. job'[u] = req /\ pc'[u] = "found"
      BY <1>7, <1>t, <3>1 DEF FirstChunk, Goto, Queued
    <3>3. Taking(u, f)'
      BY <1>1, <1>7, <1>m, <3>2 DEF Taking, Queued
    <3> QED
      BY <3>3 DEF OnItsWay
  <2> QED
    BY <2>1, <2>2
<1>8. ASSUME Taking(u, f)
      PROVE  OnItsWay(f)'
  <2>1. pc[u] = "found" /\ job[u].session \in sessions /\ job[u].file = f
    BY <1>8 DEF Taking, Queued
  <2>2. TakeFile(u)
    BY <2>1 DEF StreamStep, FirstChunk, ReceiveFile, CompileOwnPch, UploadFails,
       FileUploaded, SaveFileToCache
  <2>3. job' = job /\ pc'[u] = "receiving"
    BY <1>t, <2>1, <2>2 DEF TakeFile, Goto
  <2>4. Sending(u, f)'
    BY <2>1, <2>3 DEF Sending
  <2> QED
    BY <2>4 DEF OnItsWay
<1> QED
  BY <1>3, <1>4, <1>5, <1>6, <1>7, <1>8 DEF OnItsWay

LEMMA OnItsWayKept ==
  ASSUME UInv, ScannedFiles, [Next]_vars
  PROVE  UploadingIsOnItsWay'
<1> USE DEF fileVars, sessionVars, handlerVars, clientVars, scanVars
<1> SUFFICES ASSUME NEW f \in FileNames \ failed', fileState'[f] = "uploading"
             PROVE  OnItsWay(f)'
  BY DEF UploadingIsOnItsWay
<1>1. ASSUME NEW s \in Sessions, HandlerStep(s)
      PROVE  OnItsWay(f)'
  <2>1. failed' = failed
    BY <1>1, HandlerMoves DEF UInv
  <2> QED
    BY <1>1, <2>1, HandlerKeepsOnItsWay
<1>2. ASSUME NEW p \in Procs, ScanStep(p)
      PROVE  OnItsWay(f)'
  <2>1. UNCHANGED <<failed, fileState>>
    BY <1>2, ScanMoves DEF UInv
  <2> QED
    BY <1>2, <2>1, ScanKeepsOnItsWay DEF UInv, UploadingIsOnItsWay
<1>3. ASSUME NEW s \in Sessions, CloseSession(s)
      PROVE  OnItsWay(f)'
  <2>1. OnItsWay(f)
    BY <1>3 DEF CloseSession, UInv, UploadingIsOnItsWay
  <2> QED
    BY <1>3, <2>1 DEF CloseSession, OnItsWay, Looking, File, Asking, GivenUp, Queued,
       Taking, Sending, NotPassed
<1>4. ASSUME NEW req \in toUpload, LoseUpload(req)
      PROVE  OnItsWay(f)'
  <2>1. /\ failed' = failed \cup {req.file} /\ toUpload' = toUpload \ {req}
        /\ UNCHANGED <<fileState, sessions, started, pc, asked, idx, job, cur, pos>>
    BY <1>4 DEF LoseUpload
  <2>2. OnItsWay(f) /\ f # req.file
    BY <2>1 DEF UInv, UploadingIsOnItsWay
  <2> QED
    BY <2>1, <2>2 DEF OnItsWay, Looking, File, Asking, GivenUp, Queued, Taking, Sending, NotPassed
<1>5. CASE UNCHANGED vars
  <2>1. OnItsWay(f)
    BY <1>5 DEF vars, UInv, UploadingIsOnItsWay
  <2> QED
    BY <1>5, <2>1 DEF vars, OnItsWay, Looking, File, Asking, GivenUp, Queued, Taking, Sending,
       NotPassed
<1>6. ASSUME NEW u \in Streams, StreamStep(u)
      PROVE  OnItsWay(f)'
  BY <1>6, StreamKeepsOnItsWay
<1> QED
  BY <1>1, <1>2, <1>3, <1>4, <1>5, <1>6 DEF Next

(* A session that finds a file of its own in the state "uploading" leaves  *)
(* it to the handler that has claimed it.  That handler looks it up, asks  *)
(* for it, or its request or the upload itself is under way, though scans  *)
(* start and close sessions meanwhile; only a handler that has returned on *)
(* a system header, and an upload that failed, leave the file behind.      *)
THEOREM NobodyWaitsInVain == Spec => []UploadingIsAwaited
<1> DEFINE AInv == UInv /\ ScannedFiles
<1>1. Init => AInv
  <2> SUFFICES ASSUME Init
               PROVE  Opening /\ AskedFor /\ UploadingIsOnItsWay /\ ScannedFiles
    BY InitInv DEF UInv
  <2>0. /\ \A q \in Procs : pc[q] \in {"new", "idle"} /\ todo[q] = {}
        /\ Sessions \subseteq Procs /\ sessions = {}
        /\ \A s \in Sessions : pc[s] = "new" /\ started[s] = FALSE
    BY Zenon DEF Init, Procs
  <2>1. Opening
    BY <2>0, Zenon DEF Opening, ScanPcs
  <2>2. AskedFor
    BY SessionUploadsAssumption DEF Init, AskedFor, Procs
  <2>3. ScannedFiles
    BY <2>0 DEF ScannedFiles
  <2>4. UploadingIsOnItsWay
    BY DEF Init, UploadingIsOnItsWay
  <2> QED
    BY <2>1, <2>2, <2>3, <2>4
<1>2. AInv /\ [Next]_vars => AInv'
  BY InvKept, OpeningKept, AskedForKept, OnItsWayKept, ScannedFilesKept DEF UInv
<1>3. AInv => UploadingIsAwaited
  BY DEF UInv, UploadingIsOnItsWay, OnItsWay, UploadingIsAwaited, Awaited, Looking, Asking,
     Queued, Taking, Sending, GivenUp
<1> QED
  BY <1>1, <1>2, <1>3, PTL DEF Spec

-----------------------------------------------------------------------------
(* The compiler sees the contents its session was opened for               *)

\* No file is edited between the sessions of a client that need it.
Unedited ==
  \A s, t \in Sessions : \A f \in FilesOf(s) \cap FilesOf(t) : ShaOf[s][f] = ShaOf[t][f]

\* A file is known to the client when an upload of it is decided on.
Known ==
  /\ \A s \in Sessions :
       pc[s] \in {"claim", "resolve", "reclaim"} => fileState[File(s)] # "absent"
  /\ \A s \in Sessions : \A f \in asked[s] : fileState[f] # "absent"
  /\ \A req \in toUpload : fileState[req.file] # "absent"
  /\ \A u \in Streams : pc[u] # "idle" => fileState[job[u].file] # "absent"

HasSha(f, content) == \A s \in Sessions : f \in FilesOf(s) => content = ShaOf[s][f]

\* What is on the disk is what the sessions mean, but for a system header
\* before it was compared, which is the server's.
Contents ==
  /\ \A f \in FileNames : fileState[f] # "absent" => HasSha(f, fileSha[f])
  /\ \A f \in FileNames : \/ onDisk[f] = IF f \in SystemHeaders THEN SystemSha[f] ELSE None
                          \/ HasSha(f, onDisk[f])
  /\ \A f \in FileNames : fileState[f] = "uploaded" => HasSha(f, onDisk[f])
  /\ \A u \in Streams :
       pc[u] \notin {"idle", "found", "panicked", "receiving"} =>
         HasSha(job[u].file, onDisk[job[u].file])
  /\ \A entry \in srcCache : entry[1] = entry[2]

\* ScannedFiles, of the contents.
ScannedContents ==
  \A p \in Procs : pc[p] = "check" /\ ~started[cur[p]] =>
    \A i \in DOMAIN Required[cur[p]] :
      i < pos[p] => HasSha(Required[cur[p]][i], onDisk[Required[cur[p]][i]])

CInv == Inv /\ AskedFor /\ Known /\ Contents

LEMMA TheSha ==
  ASSUME Unedited, NEW s \in Sessions, NEW f \in FilesOf(s)
  PROVE  /\ HasSha(f, ShaOf[s][f])
         /\ \A content : HasSha(f, content) => content = ShaOf[s][f]
BY DEF Unedited, HasSha

\* A file that is known stays known.
LEMMA StaysKnown ==
  ASSUME Inv, [Next]_vars, NEW f \in FileNames, fileState[f] # "absent"
  PROVE  fileState'[f] # "absent"
<1> USE DEF fileVars, sessionVars, handlerVars, clientVars, scanVars
<1>t. fileState \in [FileNames -> FileStates]
  BY DEF Inv, TypeOK
<1>1. ASSUME NEW s \in Sessions, HandlerStep(s)
      PROVE  fileState'[f] # "absent"
  BY <1>1, <1>t DEF HandlerStep, Refuse, CreateNewSession, LookupFile, InsertFile,
     FromObjCache, NotInObjCache, SwitchOnState, ClaimFile, SystemHeaderDiffers,
     SystemHeaderEqual, LinkedFromSrcCache, AskForFile, AskAgain, RegisterCreatedSession,
     Reply
<1>2. ASSUME NEW u \in Streams, StreamStep(u)
      PROVE  fileState'[f] # "absent"
  BY <1>2, <1>t DEF StreamStep, FirstChunk, TakeFile, ReceiveFile, CompileOwnPch, UploadFails,
     FileUploaded, SaveFileToCache
<1>3. ASSUME NEW p \in Procs, ScanStep(p)
      PROVE  fileState'[f] # "absent"
  BY <1>3, ScanMoves
<1> QED
  BY <1>1, <1>2, <1>3 DEF Next, CloseSession, LoseUpload, vars

LEMMA KnownKept ==
  ASSUME CInv, [Next]_vars
  PROVE  Known'
<1> USE DEF fileVars, sessionVars, handlerVars, clientVars, scanVars
<1>t. /\ pc \in [Procs -> HandlerPcs \cup StreamPcs \cup ScanPcs]
      /\ Sessions \subseteq Procs /\ Streams \subseteq Procs /\ Streams \cap Sessions = {}
      /\ asked \in [Sessions -> SUBSET FileNames] /\ toUpload \subseteq Request
      /\ fileState \in [FileNames -> FileStates] /\ Inv
  BY SessionUploadsAssumption DEF CInv, Inv, TypeOK, Procs
<1>s. \A f \in FileNames : fileState[f] # "absent" => fileState'[f] # "absent"
  BY <1>t, StaysKnown
<1>f. \A s \in Sessions :
        /\ pc[s] \in {"claim", "resolve", "reclaim"} \/ HasFile(s) => File(s) \in FileNames
        /\ pc[s] \in {"claim", "resolve", "reclaim"} => fileState[File(s)] # "absent"
  BY <1>t, CurrentFile DEF CInv, Known, Inv
<1>1. \A s \in Sessions : \A f \in asked'[s] : fileState'[f] # "absent"
  <2>1. \A s \in Sessions :
          \/ asked'[s] \subseteq asked[s]
          \/ /\ asked'[s] = asked[s] \cup {File(s)}
             /\ pc[s] \in {"claim", "resolve", "reclaim"}
    <3>1. ASSUME NEW s \in Sessions, HandlerStep(s)
          PROVE  \/ asked'[s] \subseteq asked[s]
                 \/ /\ asked'[s] = asked[s] \cup {File(s)}
                    /\ pc[s] \in {"claim", "resolve", "reclaim"}
      BY <1>t, <3>1 DEF HandlerStep, Refuse, CreateNewSession, LookupFile, InsertFile,
         FromObjCache, NotInObjCache, SwitchOnState, ClaimFile, SystemHeaderDiffers,
         SystemHeaderEqual, LinkedFromSrcCache, AskForFile, AskAgain,
         RegisterCreatedSession, Reply
    <3>2. ASSUME NEW s \in Sessions, HandlerStep(s), NEW t \in Sessions \ {s}
          PROVE  asked'[t] = asked[t]
      BY <1>t, <3>2, HandlerMoves
    <3>3. ASSUME ~ \E s \in Sessions : HandlerStep(s)
          PROVE  asked' = asked
      BY <1>t, <3>3, ScanMoves, StreamMoves DEF Next, CloseSession, LoseUpload, vars
    <3> QED
      BY <3>1, <3>2, <3>3
  <2>2. \A s \in Sessions : \A f \in asked[s] : f \in FileNames /\ fileState[f] # "absent"
    BY <1>t DEF CInv, Known
  <2> QED
    BY <1>s, <1>f, <2>1, <2>2
<1>2. \A req \in toUpload' : fileState'[req.file] # "absent"
  <2>1. \A req \in toUpload' :
          req \in toUpload \/ \E s \in Sessions : req.file \in asked[s]
    <3>1. ASSUME NEW s \in Sessions, HandlerStep(s)
          PROVE  toUpload' \subseteq toUpload \/ Reply(s)
      BY <3>1 DEF HandlerStep, Refuse, CreateNewSession, LookupFile, InsertFile,
         FromObjCache, NotInObjCache, SwitchOnState, ClaimFile, SystemHeaderDiffers,
         SystemHeaderEqual, LinkedFromSrcCache, AskForFile, AskAgain,
         RegisterCreatedSession
    <3>2. ASSUME NEW s \in Sessions, Reply(s), NEW req \in toUpload'
          PROVE  req \in toUpload \/ req.file \in asked[s]
      BY <3>2 DEF Reply
    <3>3. ASSUME NEW u \in Streams, StreamStep(u)
          PROVE  toUpload' \subseteq toUpload
      BY <3>3 DEF StreamStep, FirstChunk, TakeFile, ReceiveFile, CompileOwnPch, UploadFails,
         FileUploaded, SaveFileToCache
    <3> QED
      BY <1>t, <3>1, <3>2, <3>3, ScanMoves DEF Next, CloseSession, LoseUpload, vars
  <2>2. /\ \A req \in toUpload : req.file \in FileNames /\ fileState[req.file] # "absent"
        /\ \A s \in Sessions : \A f \in asked[s] : f \in FileNames /\ fileState[f] # "absent"
    BY <1>t DEF CInv, Known, Request
  <2> QED
    BY <1>s, <2>1, <2>2
<1>3. \A u \in Streams : pc'[u] # "idle" => fileState'[job'[u].file] # "absent"
  <2>1. \A u \in Streams : \/ pc'[u] = "idle"
                           \/ job'[u] \in toUpload
                           \/ job'[u] = job[u] /\ pc[u] # "idle"
    <3>1. ASSUME NEW u \in Streams, StreamStep(u)
          PROVE  \A v \in Streams : \/ pc'[v] = "idle"
                                    \/ job'[v] \in toUpload
                                    \/ job'[v] = job[v] /\ pc[v] # "idle"
      <4>1. \A v \in Streams \ {u} : pc'[v] = pc[v] /\ job'[v] = job[v]
        BY <1>t, <3>1, StreamMoves
      <4>2. ASSUME NEW req \in toUpload, FirstChunk(u, req)
            PROVE  pc'[u] = "idle" \/ job'[u] \in toUpload
        BY <1>t, <4>2 DEF FirstChunk, Goto, Inv, TypeOK
      <4>3. CASE ReceiveFile(u) \/ CompileOwnPch(u) \/ FileUploaded(u)
        BY <4>1, <4>3 DEF ReceiveFile, CompileOwnPch, FileUploaded
      <4>4. CASE UploadFails(u) \/ SaveFileToCache(u)
        <5>1. pc'[u] = "idle"
          BY <1>t, <4>4 DEF UploadFails, SaveFileToCache, Goto
        <5> QED
          BY <4>1, <5>1
      <4>5. CASE TakeFile(u)
        BY <1>t, <4>1, <4>5 DEF TakeFile, Goto
      <4> QED
        BY <3>1, <4>1, <4>2, <4>3, <4>4, <4>5 DEF StreamStep
    <3>2. ASSUME NEW s \in Sessions, HandlerStep(s), NEW u \in Streams
          PROVE  job' = job /\ pc'[u] = pc[u]
      BY <1>t, <3>2, HandlerMoves
    <3>3. ASSUME NEW p \in Procs, ScanStep(p), NEW u \in Streams
          PROVE  job' = job /\ (pc'[u] = "idle" <=> pc[u] = "idle")
      BY <1>t, <3>3, ScanMoves DEF ScanPcs
    <3> QED
      BY <3>1, <3>2, <3>3 DEF Next, CloseSession, LoseUpload, vars
  <2>2. /\ \A req \in toUpload : req.file \in FileNames /\ fileState[req.file] # "absent"
        /\ \A u \in Streams : pc[u] # "idle" =>
             job[u].file \in FileNames /\ fileState[job[u].file] # "absent"
    BY <1>t DEF CInv, Known, Request, Inv, Stages
  <2> QED
    BY <1>s, <2>1, <2>2
<1>4. \A s \in Sessions :
        pc'[s] \in {"claim", "resolve", "reclaim"} => fileState'[File(s)'] # "absent"
  <2>1. ASSUME NEW s \in Sessions, HandlerStep(s),
               pc'[s] \in {"claim", "resolve", "reclaim"}
        PROVE  File(s)' = File(s) /\ File(s) \in FileNames /\ fileState[File(s)] # "absent"
    <3>1. CASE SwitchOnState(s)
      <4>1. /\ idx' = idx /\ HasFile(s) /\ fileState[File(s)] # "absent"
        BY <1>t, <2>1, <3>1 DEF SwitchOnState
      <4> QED
        BY <1>f, <4>1 DEF File
    <3>2. CASE ClaimFile(s)
      <4>1. idx' = idx /\ pc[s] = "claim"
        BY <3>2 DEF ClaimFile
      <4> QED
        BY <1>f, <4>1 DEF File
    <3> QED
      BY <1>t, <2>1, <3>1, <3>2 DEF HandlerStep, Refuse, CreateNewSession, LookupFile,
         InsertFile, FromObjCache, NotInObjCache, SystemHeaderDiffers, SystemHeaderEqual,
         LinkedFromSrcCache, AskForFile, AskAgain, RegisterCreatedSession, Reply, Goto
  <2>2. ASSUME NEW s \in Sessions, HandlerStep(s), NEW t \in Sessions \ {s}
        PROVE  pc'[t] = pc[t] /\ File(t)' = File(t)
    BY <1>t, <2>2, HandlerMoves
  <2>3. ASSUME ~ \E s \in Sessions : HandlerStep(s), NEW s \in Sessions,
               pc'[s] \in {"claim", "resolve", "reclaim"}
        PROVE  pc'[s] = pc[s] /\ File(s)' = File(s)
    BY <1>t, <2>3, ScanMoves, StreamMoves
    DEF Next, CloseSession, LoseUpload, vars, File, ScanPcs
  <2> QED
    BY <1>s, <1>f, <2>1, <2>2, <2>3
<1> QED
  BY <1>1, <1>2, <1>3, <1>4 DEF Known

\* What a step may write to the disk is what the sessions mean.
LEMMA HasShaStays ==
  ASSUME Unedited, CInv, [Next]_vars, NEW f \in FileNames, HasSha(f, onDisk[f])
  PROVE  HasSha(f, onDisk'[f])
<1> USE DEF fileVars, sessionVars, handlerVars, clientVars, scanVars
<1>t. /\ onDisk \in [FileNames -> Shas \cup {None}] /\ Inv
      /\ ShaOf \in [Sessions -> [FileNames -> Shas]] /\ None \notin Shas
  BY SessionUploadsAssumption DEF CInv, Inv, TypeOK
<1>1. ASSUME NEW s \in Sessions, LinkedFromSrcCache(s)
      PROVE  HasSha(f, onDisk'[f])
  <2>1. onDisk'[f] = onDisk[f] \/ (onDisk[f] = None /\ f = File(s))
    BY <1>1, <1>t DEF LinkedFromSrcCache
  <2>2. pc[s] = "resolve"
    BY <1>1 DEF LinkedFromSrcCache
  <2>3. File(s) \in FilesOf(s)
    BY <1>t, <2>2, FileOfSession DEF Inv, Stages, HasFile, File
  <2>4. f = File(s) => onDisk[f] # None
    BY <1>t, <2>3 DEF HasSha
  <2> QED
    BY <2>1, <2>4
<1>2. ASSUME NEW u \in Streams, ReceiveFile(u)
      PROVE  HasSha(f, onDisk'[f])
  <2>1. /\ job[u].session \in Sessions /\ job[u].file \in FilesOf(job[u].session)
        /\ onDisk' = [onDisk EXCEPT ![job[u].file] = ShaOf[job[u].session][job[u].file]]
    BY <1>2, <1>t DEF ReceiveFile, CInv, AskedFor, Inv, Stages, Request
  <2> QED
    BY <1>t, <2>1, TheSha
<1>3. ASSUME NEW s \in Sessions, HandlerStep(s)
      PROVE  LinkedFromSrcCache(s) \/ onDisk' = onDisk
  BY <1>3 DEF HandlerStep, Refuse, CreateNewSession, LookupFile, InsertFile,
     FromObjCache, NotInObjCache, SwitchOnState, ClaimFile,
     SystemHeaderDiffers, SystemHeaderEqual, AskForFile, AskAgain,
     RegisterCreatedSession, Reply
<1>4. ASSUME NEW p \in Procs, ScanStep(p)
      PROVE  onDisk' = onDisk
  BY <1>t, <1>4, ScanMoves
<1>5. ASSUME NEW u \in Streams, StreamStep(u)
      PROVE  ReceiveFile(u) \/ onDisk' = onDisk
  BY <1>5 DEF StreamStep, FirstChunk, TakeFile, CompileOwnPch, UploadFails, FileUploaded,
              SaveFileToCache
<1> QED
  BY <1>1, <1>2, <1>3, <1>4, <1>5 DEF Next, CloseSession, LoseUpload, vars

\* Steps which change no file and move no stream towards its end.
LEMMA ContentsFrame ==
  ASSUME Contents, UNCHANGED <<fileSha, onDisk, srcCache, job>>,
         \A f \in FileNames :
           \/ fileState'[f] = fileState[f]
           \/ fileState[f] # "absent" /\ fileState'[f] # "uploaded",
         \A u \in Streams :
           pc'[u] \notin {"idle", "found", "panicked", "receiving"} =>
             pc[u] \notin {"idle", "found", "panicked", "receiving"}
  PROVE  Contents'
<1>1. \A f, c : HasSha(f, c)' <=> HasSha(f, c)
  BY DEF HasSha
<1> QED
  BY DEF Contents, HasSha

LEMMA ResolvedContents ==
  ASSUME Unedited, CInv, [Next]_vars, NEW s \in Sessions,
         SystemHeaderEqual(s) \/ LinkedFromSrcCache(s)
  PROVE  Contents'
<1> USE DEF fileVars, sessionVars, handlerVars, clientVars, scanVars
<1>t. /\ onDisk \in [FileNames -> Shas \cup {None}] /\ fileState \in [FileNames -> FileStates]
      /\ pc \in [Procs -> HandlerPcs \cup StreamPcs \cup ScanPcs]
      /\ Streams \subseteq Procs \ {s} /\ Inv /\ AskedFor /\ Known /\ Contents /\ [Next]_vars
  BY SessionUploadsAssumption DEF CInv, Inv, TypeOK, Procs
<1>1. /\ pc[s] = "resolve" /\ File(s) \in FileNames /\ File(s) \in FilesOf(s)
      /\ fileState' = [fileState EXCEPT ![File(s)] = "uploaded"]
      /\ UNCHANGED <<fileSha, srcCache, job>> /\ \A u \in Streams : pc'[u] = pc[u]
  <2>1. /\ pc[s] = "resolve"
        /\ fileState' = [fileState EXCEPT ![File(s)] = "uploaded"]
        /\ UNCHANGED <<fileSha, srcCache, job>> /\ \A u \in Streams : pc'[u] = pc[u]
    BY <1>t DEF SystemHeaderEqual, LinkedFromSrcCache, Goto
  <2> QED
    BY <1>t, <2>1, FileOfSession DEF Inv, Stages, HasFile, File
<1>2. HasSha(File(s), fileSha[File(s)])
  BY <1>t, <1>1 DEF Known, Contents
<1>3. HasSha(File(s), onDisk'[File(s)])
  <2>1. CASE SystemHeaderEqual(s)
    <3>1. /\ onDisk' = onDisk /\ File(s) \in SystemHeaders
          /\ fileSha[File(s)] = SystemSha[File(s)]
      BY <2>1 DEF SystemHeaderEqual, IsEqualSystemHeader
    <3> QED
      BY <1>t, <1>1, <1>2, <3>1 DEF Contents
  <2>2. CASE LinkedFromSrcCache(s)
    <3>1. PICK entry \in srcCache :
            /\ entry[1] = fileSha[File(s)] /\ File(s) \notin SystemHeaders
            /\ onDisk' = [onDisk EXCEPT ![File(s)] = IF @ = None THEN entry[2] ELSE @]
      BY <2>2 DEF LinkedFromSrcCache
    <3>2. entry[2] = fileSha[File(s)]
      BY <1>t, <3>1 DEF Contents
    <3>3. onDisk[File(s)] = None \/ HasSha(File(s), onDisk[File(s)])
      BY <1>t, <1>1, <3>1 DEF Contents
    <3> QED
      BY <1>t, <1>1, <1>2, <3>1, <3>2, <3>3
  <2> QED
    BY <2>1, <2>2
<1>4. \A f \in FileNames \ {File(s)} : onDisk'[f] = onDisk[f] /\ fileState'[f] = fileState[f]
  BY <1>t, <1>1 DEF SystemHeaderEqual, LinkedFromSrcCache
<1>5. \A f \in FileNames : HasSha(f, onDisk[f]) => HasSha(f, onDisk'[f])
  BY <1>t, HasShaStays
<1>6. \A f \in FileNames : fileState'[f] # "absent" => HasSha(f, fileSha[f])
  BY <1>t, <1>1, <1>2, <1>4 DEF Contents
<1>7. \A f \in FileNames :
        \/ onDisk'[f] = IF f \in SystemHeaders THEN SystemSha[f] ELSE None
        \/ HasSha(f, onDisk'[f])
  BY <1>t, <1>3, <1>4 DEF Contents
<1>8. \A f \in FileNames : fileState'[f] = "uploaded" => HasSha(f, onDisk'[f])
  BY <1>t, <1>3, <1>4 DEF Contents
<1>9. \A u \in Streams : pc[u] \notin {"idle", "found", "panicked", "receiving"} =>
        HasSha(job[u].file, onDisk'[job[u].file])
  <2>1. \A u \in Streams : pc[u] # "idle" => job[u].file \in FileNames
    BY <1>t DEF Inv, Stages, Request
  <2> QED
    BY <1>t, <1>5, <2>1 DEF Contents
<1> QED
  BY <1>t, <1>1, <1>6, <1>7, <1>8, <1>9 DEF Contents, HasSha

LEMMA ReceivedContents ==
  ASSUME Unedited, CInv, [Next]_vars, NEW u \in Streams, ReceiveFile(u)
  PROVE  Contents'
<1> USE DEF fileVars, sessionVars, handlerVars, clientVars, scanVars
<1>t. /\ onDisk \in [FileNames -> Shas \cup {None}] /\ Inv /\ AskedFor /\ Contents
      /\ pc \in [Procs -> HandlerPcs \cup StreamPcs \cup ScanPcs] /\ [Next]_vars
      /\ Streams \subseteq Procs
  BY DEF CInv, Inv, TypeOK, Procs
<1>1. /\ pc[u] = "receiving" /\ job[u].session \in Sessions
      /\ job[u].file \in FilesOf(job[u].session) /\ job[u].file \in FileNames
      /\ onDisk' = [onDisk EXCEPT ![job[u].file] = ShaOf[job[u].session][job[u].file]]
      /\ UNCHANGED <<fileState, fileSha, srcCache, job>>
      /\ \A v \in Streams \ {u} : pc'[v] = pc[v]
  BY <1>t DEF ReceiveFile, AskedFor, Inv, Stages, Request, Goto
<1>2. HasSha(job[u].file, onDisk'[job[u].file])
  BY <1>t, <1>1, TheSha
<1>3. \A f \in FileNames : onDisk'[f] = onDisk[f] \/ HasSha(f, onDisk'[f])
  BY <1>t, <1>1, <1>2
<1>4. \A f \in FileNames : HasSha(f, onDisk[f]) => HasSha(f, onDisk'[f])
  BY <1>3
<1>5. \A v \in Streams : pc'[v] \notin {"idle", "found", "panicked", "receiving"} =>
        HasSha(job[v].file, onDisk'[job[v].file])
  <2>1. \A v \in Streams : pc[v] # "idle" => job[v].file \in FileNames
    BY <1>t DEF Inv, Stages, Request
  <2> QED
    BY <1>t, <1>1, <1>2, <1>4, <2>1 DEF Contents
<1> QED
  BY <1>t, <1>1, <1>3, <1>4, <1>5 DEF Contents, HasSha

LEMMA HandlerContents ==
  ASSUME Unedited, CInv, [Next]_vars, NEW s \in Sessions, HandlerStep(s)
  PROVE  Contents'
<1> USE DEF fileVars, sessionVars, handlerVars, clientVars, scanVars
<1>t. /\ fileState \in [FileNames -> FileStates] /\ Inv /\ Contents
      /\ fileSha \in [FileNames -> Shas \cup {None}]
      /\ Streams \subseteq Procs \ {s} /\ Known
  BY SessionUploadsAssumption DEF CInv, Inv, TypeOK, Procs
<1>1. job' = job /\ \A u \in Streams : pc'[u] = pc[u]
  BY <1>t, HandlerMoves
<1>2. CASE InsertFile(s)
  <2>1. File(s) \in FileNames /\ File(s) \in FilesOf(s)
    BY <1>t, <1>2, FileOfSession DEF InsertFile, Inv, Stages, HasFile, File
  <2>2. CASE fileState[File(s)] # "absent"
    BY <1>1, <1>2, <1>t, <2>2, ContentsFrame DEF InsertFile
  <2>3. CASE fileState[File(s)] = "absent"
    <3>1. /\ fileState' = [fileState EXCEPT ![File(s)] = "created"]
          /\ fileSha' = [fileSha EXCEPT ![File(s)] = ShaOf[s][File(s)]]
          /\ UNCHANGED <<onDisk, srcCache>>
      BY <1>2, <2>3 DEF InsertFile
    <3>2. HasSha(File(s), fileSha'[File(s)])
      BY <1>t, <2>1, <3>1, TheSha
    <3>3. \A f \in FileNames : fileState'[f] # "absent" => HasSha(f, fileSha'[f])
      BY <1>t, <2>1, <3>1, <3>2 DEF Contents
    <3>4. \A f \in FileNames : fileState'[f] = "uploaded" => HasSha(f, onDisk[f])
      BY <1>t, <2>1, <3>1 DEF Contents
    <3> QED
      BY <1>1, <1>t, <3>1, <3>3, <3>4 DEF Contents, HasSha
  <2> QED
    BY <2>2, <2>3
<1>3. CASE ClaimFile(s) \/ AskAgain(s)
  <2>1. /\ fileState[File(s)] # "absent"
        /\ fileState' = [fileState EXCEPT ![File(s)] = "uploading"]
        /\ UNCHANGED <<fileSha, onDisk, srcCache>>
    BY <1>3, <1>t DEF ClaimFile, AskAgain, Known
  <2> QED
    BY <1>1, <1>t, <2>1, ContentsFrame
<1>4. CASE SystemHeaderEqual(s) \/ LinkedFromSrcCache(s)
  BY <1>4, ResolvedContents
<1>5. CASE UNCHANGED <<fileState, fileSha, onDisk, srcCache>>
  BY <1>1, <1>5, <1>t, ContentsFrame
<1> QED
  BY <1>2, <1>3, <1>4, <1>5 DEF HandlerStep, Refuse, CreateNewSession, LookupFile,
     FromObjCache, NotInObjCache, SwitchOnState, SystemHeaderDiffers, AskForFile,
     RegisterCreatedSession, Reply

LEMMA StreamContents ==
  ASSUME Unedited, CInv, [Next]_vars, NEW u \in Streams, StreamStep(u)
  PROVE  Contents'
<1> USE DEF fileVars, sessionVars, handlerVars, clientVars, scanVars
<1>t. /\ fileState \in [FileNames -> FileStates] /\ Inv /\ Contents /\ Known /\ AskedFor
      /\ pc \in [Procs -> HandlerPcs \cup StreamPcs \cup ScanPcs] /\ u \in Procs
      /\ Streams \subseteq Procs
  BY DEF CInv, Inv, TypeOK, Procs
<1>m. \A v \in Streams \ {u} : pc'[v] = pc[v] /\ job'[v] = job[v]
  BY <1>t, StreamMoves
<1>j. /\ pc[u] # "idle" => /\ job[u].session \in Sessions /\ job[u].file \in FileNames
                           /\ job[u].file \in FilesOf(job[u].session)
                           /\ fileState[job[u].file] # "absent"
      /\ pc[u] \notin {"idle", "found", "panicked", "receiving"} =>
           HasSha(job[u].file, onDisk[job[u].file])
  BY <1>t DEF Known, AskedFor, Contents, Inv, Stages, Request
<1>1. ASSUME NEW req \in toUpload, FirstChunk(u, req)
      PROVE  Contents'
  <2>1. /\ UNCHANGED <<fileState, fileSha, onDisk, srcCache>>
        /\ pc'[u] \in {"idle", "found", "panicked", "receiving"}
    BY <1>1, <1>t DEF FirstChunk, Goto
  <2> QED
    BY <1>m, <1>t, <2>1 DEF Contents, HasSha
<1>7. CASE TakeFile(u)
  <2>1. /\ UNCHANGED <<fileState, fileSha, onDisk, srcCache>>
        /\ pc'[u] \in {"idle", "panicked", "receiving"}
    BY <1>7, <1>t DEF TakeFile, Goto
  <2> QED
    BY <1>m, <1>t, <2>1 DEF Contents, HasSha
<1>2. CASE CompileOwnPch(u)
  <2>1. /\ UNCHANGED <<fileState, fileSha, onDisk, srcCache, job>> /\ pc[u] = "pch"
    BY <1>2 DEF CompileOwnPch
  <2> QED
    BY <1>m, <1>t, <2>1, ContentsFrame
<1>3. CASE UploadFails(u)
  <2>1. /\ fileState' = [fileState EXCEPT ![job[u].file] = "error"]
        /\ UNCHANGED <<fileSha, onDisk, srcCache>> /\ pc'[u] = "idle" /\ pc[u] # "idle"
    BY <1>3, <1>t DEF UploadFails, Goto
  <2>2. \A f \in FileNames :
          \/ fileState'[f] = fileState[f]
          \/ fileState[f] # "absent" /\ fileState'[f] # "uploaded"
    BY <1>j, <1>t, <2>1
  <2> QED
    BY <1>m, <1>t, <2>1, <2>2 DEF Contents, HasSha
<1>4. CASE FileUploaded(u)
  <2>1. /\ fileState' = [fileState EXCEPT ![job[u].file] = "uploaded"]
        /\ UNCHANGED <<fileSha, onDisk, srcCache, job>> /\ pc[u] = "received"
    BY <1>4 DEF FileUploaded
  <2>2. \A f \in FileNames : fileState'[f] = fileState[f] \/ f = job[u].file
    BY <1>t, <2>1
  <2>3. \A f \in FileNames : fileState'[f] = "uploaded" => HasSha(f, onDisk[f])
    BY <1>j, <1>t, <2>1, <2>2 DEF Contents
  <2>4. \A f \in FileNames : fileState'[f] # "absent" => HasSha(f, fileSha[f])
    BY <1>j, <1>t, <2>1, <2>2 DEF Contents
  <2> QED
    BY <1>m, <1>t, <2>1, <2>3, <2>4 DEF Contents, HasSha
<1>5. CASE SaveFileToCache(u)
  <2>1. /\ UNCHANGED <<fileState, fileSha, onDisk>> /\ pc[u] = "pick" /\ pc'[u] = "idle"
        /\ \/ srcCache' = srcCache
           \/ srcCache' = srcCache \cup {<<fileSha[job[u].file], onDisk[job[u].file]>>}
    BY <1>5, <1>t DEF SaveFileToCache, Goto
  <2>2. HasSha(job[u].file, fileSha[job[u].file])
    BY <1>j, <1>t, <2>1 DEF Contents
  <2>3. fileSha[job[u].file] = onDisk[job[u].file]
    BY <1>j, <2>1, <2>2, TheSha
  <2>4. \A entry \in srcCache' : entry[1] = entry[2]
    BY <1>t, <2>1, <2>3 DEF Contents
  <2> QED
    BY <1>m, <1>t, <2>1, <2>4 DEF Contents, HasSha
<1>6. CASE ReceiveFile(u)
  BY <1>6, ReceivedContents
<1> QED
  BY <1>1, <1>2, <1>3, <1>4, <1>5, <1>6, <1>7 DEF StreamStep

LEMMA ContentsKept ==
  ASSUME Unedited, CInv, [Next]_vars
  PROVE  Contents'
<1> USE DEF fileVars, sessionVars, handlerVars, clientVars, scanVars
<1>1. ASSUME NEW p \in Procs, ScanStep(p)
      PROVE  Contents'
  BY <1>1, ScanMoves, ContentsFrame, SessionUploadsAssumption DEF CInv, ScanPcs, Procs
<1>2. CASE UNCHANGED <<fileState, fileSha, onDisk, srcCache, job, pc>>
  BY <1>2, ContentsFrame DEF CInv
<1> QED
  BY <1>1, <1>2, HandlerContents, StreamContents DEF Next, CloseSession, LoseUpload, vars

LEMMA ScannedContentsKept ==
  ASSUME Unedited, CInv, ScannedFiles, ScannedContents, [Next]_vars
  PROVE  ScannedContents'
<1> USE DEF fileVars, sessionVars, handlerVars, clientVars, scanVars
<1>t. /\ pc \in [Procs -> HandlerPcs \cup StreamPcs \cup ScanPcs] /\ Inv /\ Contents
      /\ started \in [Sessions -> BOOLEAN] /\ todo \in [Procs -> SUBSET Sessions]
      /\ cur \in [Procs -> Sessions \cup {None}] /\ pos \in [Procs -> Nat \ {0}]
      /\ Sessions \subseteq Procs /\ Streams \subseteq Procs
      /\ \A q \in Procs : pc[q] = "check" => cur[q] \in Sessions
  BY DEF CInv, Inv, TypeOK, Procs, Stages
<1>0. \A s \in Sessions : \A i \in DOMAIN Required[s] :
        HasSha(Required[s][i], onDisk[Required[s][i]])
          => HasSha(Required[s][i], onDisk'[Required[s][i]])
  BY HasShaStays, FileOfSession
<1>1. ASSUME UNCHANGED <<cur, pos>>,
             \A q \in Procs : pc'[q] = "check" => pc[q] = "check",
             \A s \in Sessions : started[s] => started'[s]
      PROVE  ScannedContents'
  BY <1>0, <1>1, <1>t DEF ScannedContents, HasSha
<1>2. ASSUME NEW p \in Procs, ScanStep(p),
             pc'[p] = "check" /\ ~ started'[cur'[p]] =>
               \A i \in DOMAIN Required[cur'[p]] : i < pos'[p] =>
                 HasSha(Required[cur'[p]][i], onDisk[Required[cur'[p]][i]])
      PROVE  ScannedContents'
  <2>1. /\ \A q \in Procs \ {p} : pc'[q] = pc[q] /\ cur'[q] = cur[q] /\ pos'[q] = pos[q]
        /\ onDisk' = onDisk
    BY <1>2, <1>t, ScanMoves
  <2>2. \A s \in Sessions : started[s] => started'[s]
    BY <1>2, <1>t DEF ScanStep, GetSessionsNotStartedCompilation, PickSession, CheckFile,
       SwapCompilationStarted
  <2> QED
    BY <1>2, <1>t, <2>1, <2>2 DEF ScannedContents, HasSha
<1>3. ASSUME NEW p \in Procs, GetSessionsNotStartedCompilation(p) \/ SwapCompilationStarted(p)
      PROVE  ScannedContents'
  <2>1. pc'[p] = "pick" /\ ScanStep(p)
    BY <1>3, <1>t DEF GetSessionsNotStartedCompilation, SwapCompilationStarted, Goto, ScanStep
  <2> QED
    BY <1>2, <2>1
<1>4. ASSUME NEW p \in Procs, PickSession(p)
      PROVE  ScannedContents'
  <2>1. PICK s \in todo[p] :
          \/ pc' = pc /\ cur' = cur /\ pos' = pos
          \/ /\ s \in sessions => fileState[Required[s][1]] = "uploaded"
             /\ pc' = [pc EXCEPT ![p] = "check"]
             /\ cur' = [cur EXCEPT ![p] = s]
             /\ pos' = [pos EXCEPT ![p] =
                          IF s \in sessions THEN 2 ELSE Len(Required[s]) + 1]
    BY <1>4, Zenon DEF PickSession, Goto
  <2>2. UNCHANGED <<sessions, started, onDisk>> /\ s \in Sessions /\ pc[p] = "pick"
    BY <1>4, <1>t DEF PickSession
  <2>3. CASE pc' = pc
    BY <1>2, <1>4, <2>2, <2>3 DEF ScanStep
  <2>4. CASE pc' # pc
    <3>1. cur'[p] = s /\ (s \notin sessions => started[s])
      BY <1>t, <2>1, <2>4 DEF ScannedFiles
    <3>2. s \in sessions => HasSha(Required[s][1], onDisk[Required[s][1]])
      BY <1>t, <2>1, <2>2, <2>4, FileOfSession, IndexesOfSession DEF Contents
    <3>3. s \in sessions => pos'[p] = 2
      BY <1>t, <2>1, <2>4
    <3>4. \A i \in DOMAIN Required[s] : i < 2 => i = 1
      BY <2>2, IndexesOfSession
    <3> QED
      BY <1>2, <1>4, <2>2, <3>1, <3>2, <3>3, <3>4 DEF ScanStep
  <2> QED
    BY <2>3, <2>4
<1>5. ASSUME NEW p \in Procs, CheckFile(p)
      PROVE  ScannedContents'
  <2>1. /\ started' = started /\ pc[p] = "check" /\ cur[p] \in Sessions
        /\ pos[p] \in DOMAIN Required[cur[p]]
        /\ \/ /\ fileState[Required[cur[p]][pos[p]]] = "uploaded"
              /\ pos' = [pos EXCEPT ![p] = @ + 1] /\ UNCHANGED <<pc, cur>>
           \/ pc' = [pc EXCEPT ![p] = "pick"]
    BY <1>5, <1>t, Zenon DEF CheckFile, Goto
  <2>2. CASE pc' = [pc EXCEPT ![p] = "pick"]
    BY <1>2, <1>5, <1>t, <2>2 DEF ScanStep
  <2>3. CASE /\ fileState[Required[cur[p]][pos[p]]] = "uploaded"
             /\ pos' = [pos EXCEPT ![p] = @ + 1] /\ UNCHANGED <<pc, cur>>
    <3>1. HasSha(Required[cur[p]][pos[p]], onDisk[Required[cur[p]][pos[p]]])
      BY <1>t, <2>1, <2>3, FileOfSession DEF Contents
    <3>2. pos'[p] = pos[p] + 1
      BY <1>t, <2>3
    <3>3. \A i \in DOMAIN Required[cur[p]] : i < pos[p] + 1 => i < pos[p] \/ i = pos[p]
      BY <1>t, <2>1, IndexesOfSession
    <3> QED
      BY <1>2, <1>5, <2>1, <2>3, <3>1, <3>2, <3>3 DEF ScanStep, ScannedContents
  <2> QED
    BY <2>1, <2>2, <2>3
<1>6. ASSUME NEW s \in Sessions, HandlerStep(s)
      PROVE  ScannedContents'
  <2>1. /\ pc'[s] # "check" /\ \A t \in Sessions : started[t] => started'[t]
    BY <1>6, <1>t DEF HandlerStep, Refuse, CreateNewSession, LookupFile,
       InsertFile, FromObjCache, NotInObjCache, SwitchOnState, ClaimFile,
       SystemHeaderDiffers, SystemHeaderEqual, LinkedFromSrcCache, AskForFile,
       AskAgain, RegisterCreatedSession, Reply, Goto
  <2> QED
    BY <1>1, <1>6, <1>t, <2>1, HandlerMoves
<1>7. ASSUME NEW u \in Streams, StreamStep(u)
      PROVE  ScannedContents'
  BY <1>1, <1>7, <1>t, StreamMoves
<1>8. CASE \/ UNCHANGED vars
           \/ \E s \in Sessions : CloseSession(s)
           \/ \E req \in toUpload : LoseUpload(req)
  BY <1>1, <1>8 DEF vars, LoseUpload, CloseSession
<1> QED
  BY <1>3, <1>4, <1>5, <1>6, <1>7, <1>8 DEF Next, ScanStep

(* When no file is edited between the sessions of a client that need it,   *)
(* what is on the disk at a launch is what the session was opened for, and *)
(* the src cache, which other clients share, holds under a sha256 what has *)
(* it: however often a file was uploaded, linked from the src cache or     *)
(* taken from the server's own headers.                                    *)
THEOREM CompiledFromOwnFiles == Unedited => (Spec => []CompiledFromItsFiles)
<1> SUFFICES ASSUME Unedited
             PROVE  Spec => []CompiledFromItsFiles
  OBVIOUS
<1> DEFINE LaunchedContents == \A s \in Sessions : launches[s] > 0 =>
                                 \A f \in FilesOf(s) : HasSha(f, onDisk[f])
           FInv == CInv /\ ScannedFiles /\ ScannedContents /\ LaunchedContents
<1>1. Init => FInv
  <2> SUFFICES ASSUME Init PROVE FInv
    OBVIOUS
  <2>1. /\ \A q \in Procs : pc[q] \in {"new", "idle"} /\ todo[q] = {}
        /\ \A s \in Sessions : pc[s] = "new" /\ asked[s] = {} /\ launches[s] = 0
        /\ \A u \in Streams : pc[u] = "idle"
        /\ Sessions \subseteq Procs /\ Streams \subseteq Procs /\ toUpload = {}
    BY SessionUploadsAssumption, Zenon DEF Init, Procs
  <2>2. AskedFor /\ Known /\ ScannedFiles /\ ScannedContents
    BY <2>1 DEF AskedFor, Known, ScannedFiles, ScannedContents
  <2>3. LaunchedContents
    BY <2>1
  <2>4. Contents
    <3>1. /\ \A f \in FileNames : fileState[f] = "absent"
          /\ \A f \in FileNames :
               onDisk[f] = IF f \in SystemHeaders THEN SystemSha[f] ELSE None
      BY DEF Init
    <3>2. srcCache \subseteq {<<key, key>> : key \in CachedShas}
      BY DEF Init
    <3>3. \A entry \in srcCache : entry[1] = entry[2]
      BY <3>2
    <3> QED
      BY <2>1, <3>1, <3>3 DEF Contents
  <2> QED
    BY <2>2, <2>3, <2>4, InitInv DEF CInv
<1>2. FInv /\ [Next]_vars => FInv'
  <2> SUFFICES ASSUME CInv, ScannedFiles, ScannedContents, LaunchedContents, [Next]_vars
               PROVE  LaunchedContents'
    BY InvKept, AskedForKept, KnownKept, ContentsKept, ScannedFilesKept, ScannedContentsKept
    DEF CInv
  <2> USE DEF fileVars, sessionVars, handlerVars, clientVars, scanVars
  <2>1. CASE launches' = launches
    BY <2>1, HasShaStays, FilesOfSession DEF HasSha
  <2>2. ASSUME NEW p \in Procs, SwapCompilationStarted(p)
        PROVE  LaunchedContents'
    <3>1. cur[p] \in Sessions /\ pc[p] = "check" /\ onDisk' = onDisk
      BY <2>2 DEF SwapCompilationStarted, CInv, Inv, Stages
    <3>2. CASE started[cur[p]]
      <4>1. launches' = launches
        BY <2>2, <3>1, <3>2 DEF SwapCompilationStarted, CInv, Inv, TypeOK
      <4> QED
        BY <2>1, <4>1
    <3>3. CASE ~started[cur[p]]
      <4>1. \A i \in DOMAIN Required[cur[p]] : i < pos[p]
        BY <2>2, <3>1, IndexesOfSession DEF SwapCompilationStarted, CInv, Inv, TypeOK
      <4>2. \A f \in FilesOf(cur[p]) : HasSha(f, onDisk[f])
        BY <3>1, <3>3, <4>1 DEF ScannedContents, FilesOf
      <4>3. \A s \in Sessions : launches'[s] = launches[s] \/ s = cur[p]
        BY <2>2, <3>1 DEF SwapCompilationStarted, CInv, Inv, TypeOK
      <4> QED
        BY <3>1, <4>2, <4>3 DEF HasSha
    <3> QED
      BY <3>2, <3>3
  <2>3. ASSUME NEW s \in Sessions, HandlerStep(s)
        PROVE  launches' = launches
    BY <2>3, HandlerMoves DEF CInv
  <2>4. ASSUME NEW p \in Procs, ScanStep(p)
        PROVE  SwapCompilationStarted(p) \/ launches' = launches
    BY <2>4 DEF ScanStep, GetSessionsNotStartedCompilation, PickSession, CheckFile
  <2>5. ASSUME NEW u \in Streams, StreamStep(u)
        PROVE  launches' = launches
    BY <2>5, StreamMoves DEF CInv
  <2> QED
    BY <2>1, <2>2, <2>3, <2>4, <2>5 DEF Next, CloseSession, LoseUpload, vars
<1>3. FInv => CompiledFromItsFiles
  BY DEF CompiledFromItsFiles, CInv, Contents, HasSha
<1> QED
  BY <1>1, <1>2, <1>3, PTL DEF Spec
=============================================================================
