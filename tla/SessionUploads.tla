--------------------------- MODULE SessionUploads ---------------------------
(***************************************************************************)
(* How one nocc-server brings the files of a client's sessions together    *)
(* and starts their compilations.                                          *)
(*                                                                         *)
(* A client (one nocc-daemon) calls StartCompilationSession concurrently   *)
(* for many .cpp files which share most of their headers.  Every handler   *)
(* runs in a goroutine of its own, and so does every upload stream; they   *)
(* meet in client.files and client.sessions.  client.mu guards the two     *)
(* maps, nothing guards the state of a file.  The pipeline must not lose a *)
(* wake-up (a session whose last file has just arrived must be compiled),  *)
(* must not compile a session twice, nor before its files are on disk.     *)
(*                                                                         *)
(* An action is what a goroutine does between two points at which another  *)
(* one can observe or disturb it.  The src cache is a set of contents a    *)
(* lookup may hit (FileCache models it); from the launch to the close of a *)
(* session everything is one action, CloseSession.                         *)
(***************************************************************************)
EXTENDS Naturals, Sequences

CONSTANTS
  Sessions,       \* StartCompilationSession calls of one client
  Streams,        \* its UploadFileStream streams
  FileNames,      \* client file names
  Shas,           \* contents of files, identified with their sha256
  Required,       \* Required[s]: names in s.RequiredFiles, in order
  ShaOf,          \* ShaOf[s][f]: the sha256 that s reports for f
  SystemHeaders,  \* names under the server's own include dirs
  SystemSha,      \* SystemSha[f]: what the server has under that name
  PchFiles,       \* .nocc-pch files
  CachedShas,     \* contents other clients may have uploaded before
  CachedObjs,     \* sessions whose .o may be in the obj cache
  MayFail,        \* files the upload of which may fail
  MayHang,        \* files the upload of which may take longer than 15/60 s
  None            \* "no session", "no request", "no content"

FilesOf(s) == {Required[s][i] : i \in DOMAIN Required[s]}

ASSUME SessionUploadsAssumption ==
  /\ Sessions \cap Streams = {}
  /\ Required \in [Sessions -> Seq(FileNames) \ {<<>>}]
  /\ ShaOf \in [Sessions -> [FileNames -> Shas]]
  /\ SystemHeaders \subseteq FileNames
  /\ SystemSha \in [SystemHeaders -> Shas]
  /\ PchFiles \subseteq FileNames \ SystemHeaders
  /\ CachedShas \subseteq Shas
  /\ CachedObjs \subseteq Sessions
  /\ MayFail \subseteq FileNames
  /\ MayHang \subseteq FileNames
  /\ None \notin Shas \cup Sessions

Procs == Sessions \cup Streams
Request == [session : Sessions, file : FileNames]

VARIABLES
  fileState,   \* client.files: file.state, "absent" if not in the map
  fileSha,     \* client.files: file.fileSHA256
  onDisk,      \* content at file.serverFileName, None if there is no file
  srcCache,    \* pairs <<key, content>> the src cache holds
  sessions,    \* client.sessions: the registered sessions
  started,     \* session.compilationStarted
  launches,    \* how often LaunchCxxWhenPossible was called for a session
  pc,          \* what a handler or an upload stream does next
  idx,         \* position of a handler in session.files
  asked,       \* fileIndexesToUpload of a handler
  toUpload,    \* requests the client has got and not begun to upload
  job,         \* the request a stream is serving
  failed,      \* history: files an upload of which has failed
  todo,        \* launchCxxOnServerOnReadySessions: sessions yet to look at
  cur,         \* StartCompilingObjIfPossible: the session it looks at
  pos          \* ... and the position of the file it reads next

fileVars == <<fileState, fileSha, onDisk, srcCache>>
sessionVars == <<sessions, started, launches>>
handlerVars == <<idx, asked>>
scanVars == <<todo, cur, pos>>
clientVars == <<toUpload, failed>>
vars == <<fileVars, sessionVars, pc, handlerVars, clientVars, job, scanVars>>

FileStates == {"absent", "created", "uploading", "error", "uploaded"}

\* Stages of a StartCompilationSession handler, of an upload stream, of both.
HandlerPcs == {"new", "lookup", "insert", "loop", "claim", "resolve",
               "reclaim", "replied", "refused", "headerDiffers"}
StreamPcs == {"idle", "found", "panicked", "receiving", "pch", "received"}
ScanPcs == {"scan", "pick", "check"}

TypeOK ==
  /\ fileState \in [FileNames -> FileStates]
  /\ fileSha \in [FileNames -> Shas \cup {None}]
  /\ onDisk \in [FileNames -> Shas \cup {None}]
  /\ srcCache \subseteq (Shas \cup {None}) \X Shas
  /\ sessions \subseteq Sessions
  /\ started \in [Sessions -> BOOLEAN]
  /\ launches \in [Sessions -> Nat]
  /\ pc \in [Procs -> HandlerPcs \cup StreamPcs \cup ScanPcs]
  /\ \A s \in Sessions : pc[s] \in HandlerPcs \cup ScanPcs
  /\ \A u \in Streams : pc[u] \in StreamPcs \cup ScanPcs
  /\ idx \in [Sessions -> Nat \ {0}]
  /\ asked \in [Sessions -> SUBSET FileNames]
  /\ toUpload \subseteq Request
  /\ failed \subseteq FileNames
  /\ job \in [Streams -> Request \cup {None}]
  /\ todo \in [Procs -> SUBSET Sessions]
  /\ cur \in [Procs -> Sessions \cup {None}]
  /\ pos \in [Procs -> Nat \ {0}]

\* A fresh client; the src cache holds what other clients have uploaded.
Init ==
  /\ fileState = [f \in FileNames |-> "absent"]
  /\ fileSha = [f \in FileNames |-> None]
  /\ onDisk = [f \in FileNames |->
                 IF f \in SystemHeaders THEN SystemSha[f] ELSE None]
  /\ srcCache \in SUBSET {<<key, key>> : key \in CachedShas}
  /\ sessions = {}
  /\ started = [s \in Sessions |-> FALSE]
  /\ launches = [s \in Sessions |-> 0]
  /\ pc = [p \in Procs |-> IF p \in Sessions THEN "new" ELSE "idle"]
  /\ idx = [s \in Sessions |-> 1]
  /\ asked = [s \in Sessions |-> {}]
  /\ toUpload = {}
  /\ failed = {}
  /\ job = [u \in Streams |-> None]
  /\ todo = [p \in Procs |-> {}]
  /\ cur = [p \in Procs |-> None]
  /\ pos = [p \in Procs |-> 1]

Goto(p, stage) == pc' = [pc EXCEPT ![p] = stage]

\* The loops over session.files.
HasFile(s) == idx[s] \in DOMAIN Required[s]
File(s) == Required[s][idx[s]]
NextFile(s) == idx' = [idx EXCEPT ![s] = @ + 1]

-----------------------------------------------------------------------------
(* StartCompilationSession: the checks and CreateNewSession                *)

\* The client isn't known, or the server has no such compiler.
Refuse(s) ==
  /\ pc[s] = "new"
  /\ Goto(s, "refused")
  /\ UNCHANGED <<fileVars, sessionVars, handlerVars, clientVars, job, scanVars>>

CreateNewSession(s) ==
  /\ pc[s] = "new"
  /\ Goto(s, "lookup")
  /\ UNCHANGED <<fileVars, sessionVars, handlerVars, clientVars, job, scanVars>>

\* StartUsingFileInSession, under the read lock: a known file is taken if the
\* sha256 agrees, refused if it does not.
LookupFile(s) ==
  /\ pc[s] = "lookup" /\ HasFile(s)
  /\ \/ /\ fileState[File(s)] = "absent"
        /\ Goto(s, "insert")
        /\ UNCHANGED idx
     \/ /\ fileState[File(s)] # "absent"
        /\ fileSha[File(s)] = ShaOf[s][File(s)]
        /\ NextFile(s)
        /\ UNCHANGED pc
     \/ /\ fileState[File(s)] # "absent"
        /\ fileSha[File(s)] # ShaOf[s][File(s)]
        /\ Goto(s, "refused")
        /\ UNCHANGED idx
  /\ UNCHANGED <<fileVars, sessionVars, asked, clientVars, job, scanVars>>

\* ... and under the write lock: a file another handler has created meanwhile
\* is taken as it is.
InsertFile(s) ==
  /\ pc[s] = "insert"
  /\ IF fileState[File(s)] = "absent"
       THEN /\ fileState' = [fileState EXCEPT ![File(s)] = "created"]
            /\ fileSha' = [fileSha EXCEPT ![File(s)] = ShaOf[s][File(s)]]
       ELSE UNCHANGED <<fileState, fileSha>>
  /\ NextFile(s)
  /\ Goto(s, "lookup")
  /\ UNCHANGED <<onDisk, srcCache, sessionVars, asked, clientVars, job,
                 scanVars>>

\* All files are known, and the .o is in the obj cache: nothing is uploaded and
\* nothing compiled.
FromObjCache(s) ==
  /\ pc[s] = "lookup" /\ ~HasFile(s) /\ s \in CachedObjs
  /\ started' = [started EXCEPT ![s] = TRUE]
  /\ sessions' = sessions \cup {s}
  /\ Goto(s, "replied")
  /\ UNCHANGED <<fileVars, launches, handlerVars, clientVars, job, scanVars>>

NotInObjCache(s) ==
  /\ pc[s] = "lookup" /\ ~HasFile(s)
  /\ idx' = [idx EXCEPT ![s] = 1]
  /\ Goto(s, "loop")
  /\ UNCHANGED <<fileVars, sessionVars, asked, clientVars, job, scanVars>>

-----------------------------------------------------------------------------
(* StartCompilationSession: the loop over session.files                    *)

\* `switch file.state' only reads: another handler may read the same state.
SwitchOnState(s) ==
  /\ pc[s] = "loop" /\ HasFile(s)
  /\ \/ /\ fileState[File(s)] = "created"
        /\ Goto(s, "claim")
        /\ UNCHANGED idx
     \/ /\ \/ fileState[File(s)] = "error"
           \/ fileState[File(s)] = "uploading" /\ File(s) \in MayHang
        /\ Goto(s, "reclaim")
        /\ UNCHANGED idx
     \/ /\ fileState[File(s)] \in {"uploading", "uploaded"}
        /\ NextFile(s)
        /\ UNCHANGED pc
  /\ UNCHANGED <<fileVars, sessionVars, asked, clientVars, job, scanVars>>

ClaimFile(s) ==
  /\ pc[s] = "claim"
  /\ fileState' = [fileState EXCEPT ![File(s)] = "uploading"]
  /\ Goto(s, "resolve")
  /\ UNCHANGED <<fileSha, onDisk, srcCache, sessionVars, handlerVars,
                 clientVars, job, scanVars>>

\* A system header must be the server's own; if not, the handler returns.
IsEqualSystemHeader(f) == f \in SystemHeaders /\ fileSha[f] = SystemSha[f]

SystemHeaderDiffers(s) ==
  /\ pc[s] = "resolve"
  /\ File(s) \in SystemHeaders
  /\ ~IsEqualSystemHeader(File(s))
  /\ Goto(s, "headerDiffers")
  /\ UNCHANGED <<fileVars, sessionVars, handlerVars, clientVars, job, scanVars>>

SystemHeaderEqual(s) ==
  /\ pc[s] = "resolve"
  /\ IsEqualSystemHeader(File(s))
  /\ fileState' = [fileState EXCEPT ![File(s)] = "uploaded"]
  /\ NextFile(s)
  /\ Goto(s, "loop")
  /\ UNCHANGED <<fileSha, onDisk, srcCache, sessionVars, asked, clientVars, job,
                 scanVars>>

\* Mutant of LinkedFromSrcCache: any file of the src cache will do.
LinkedAnything(s) ==
  /\ pc[s] = "resolve"
  /\ File(s) \notin SystemHeaders
  /\ \E entry \in srcCache :
       onDisk' = [onDisk EXCEPT ![File(s)] = IF @ = None THEN entry[2] ELSE @]
  /\ fileState' = [fileState EXCEPT ![File(s)] = "uploaded"]
  /\ NextFile(s)
  /\ Goto(s, "loop")
  /\ UNCHANGED <<fileSha, srcCache, sessionVars, asked, clientVars, job, scanVars>>

\* CreateHardLinkFromCache: a file which is there already is left alone.
LinkedFromSrcCache(s) ==
  /\ pc[s] = "resolve"
  /\ File(s) \notin SystemHeaders
  /\ \E entry \in srcCache :
       /\ entry[1] = fileSha[File(s)]
       /\ onDisk' = [onDisk EXCEPT ![File(s)] = IF @ = None THEN entry[2] ELSE @]
  /\ fileState' = [fileState EXCEPT ![File(s)] = "uploaded"]
  /\ NextFile(s)
  /\ Goto(s, "loop")
  /\ UNCHANGED <<fileSha, srcCache, sessionVars, asked, clientVars, job,
                 scanVars>>

\* Mutant of AskForFile: the index of the file in place of the file.
AskForIndex(s) ==
  /\ pc[s] = "resolve"
  /\ File(s) \notin SystemHeaders
  /\ asked' = [asked EXCEPT ![s] = @ \cup {idx[s]}]
  /\ NextFile(s)
  /\ Goto(s, "loop")
  /\ UNCHANGED <<fileVars, sessionVars, clientVars, job, scanVars>>

\* A miss; the cache may have purged the file at any time.
AskForFile(s) ==
  /\ pc[s] = "resolve"
  /\ File(s) \notin SystemHeaders
  /\ asked' = [asked EXCEPT ![s] = @ \cup {File(s)}]
  /\ NextFile(s)
  /\ Goto(s, "loop")
  /\ UNCHANGED <<fileVars, sessionVars, clientVars, job, scanVars>>

\* Mutant of AskAgain: the hanged file is left out of the reply.
RestartUploadTime(s) ==
  /\ pc[s] = "reclaim"
  /\ fileState' = [fileState EXCEPT ![File(s)] = "uploading"]
  /\ NextFile(s)
  /\ Goto(s, "loop")
  /\ UNCHANGED <<fileSha, onDisk, srcCache, sessionVars, asked, clientVars, job,
                 scanVars>>

\* The previous upload has failed or hanged: the file is asked for again.
AskAgain(s) ==
  /\ pc[s] = "reclaim"
  /\ fileState' = [fileState EXCEPT ![File(s)] = "uploading"]
  /\ asked' = [asked EXCEPT ![s] = @ \cup {File(s)}]
  /\ NextFile(s)
  /\ Goto(s, "loop")
  /\ UNCHANGED <<fileSha, onDisk, srcCache, sessionVars, clientVars, job,
                 scanVars>>

\* Mutant of RegisterCreatedSession: no look at the sessions after it.
RegisterAndReply(s) ==
  /\ pc[s] = "loop" /\ ~HasFile(s)
  /\ sessions' = sessions \cup {s}
  /\ Goto(s, "pick")
  /\ UNCHANGED <<fileVars, started, launches, handlerVars, clientVars, job,
                 scanVars>>

RegisterCreatedSession(s) ==
  /\ pc[s] = "loop" /\ ~HasFile(s)
  /\ sessions' = sessions \cup {s}
  /\ Goto(s, "scan")
  /\ UNCHANGED <<fileVars, started, launches, handlerVars, clientVars, job,
                 scanVars>>

-----------------------------------------------------------------------------
(* launchCxxOnServerOnReadySessions, in a handler or in an upload stream   *)

GetSessionsNotStartedCompilation(p) ==
  /\ pc[p] = "scan"
  /\ todo' = [todo EXCEPT ![p] = {s \in sessions : ~started[s]}]
  /\ Goto(p, "pick")
  /\ UNCHANGED <<fileVars, sessionVars, handlerVars, clientVars, job, cur, pos>>

\* CloseSession sets session.files to nil, and a snapshot keeps the session;
\* otherwise the state of the first file decides whether to go on.
PickSession(p) ==
  /\ pc[p] = "pick"
  /\ \E s \in todo[p] :
       /\ todo' = [todo EXCEPT ![p] = @ \ {s}]
       /\ IF s \in sessions /\ fileState[Required[s][1]] # "uploaded"
            THEN UNCHANGED <<pc, cur, pos>>
            ELSE /\ cur' = [cur EXCEPT ![p] = s]
                 /\ pos' = [pos EXCEPT ![p] = IF s \in sessions
                                             THEN 2 ELSE Len(Required[s]) + 1]
                 /\ Goto(p, "check")
  /\ UNCHANGED <<fileVars, sessionVars, handlerVars, clientVars, job>>

\* Mutant of CheckFile: waits for failed uploads only.
CheckFileNotFailed(p) ==
  /\ pc[p] = "check" /\ pos[p] \in DOMAIN Required[cur[p]]
  /\ IF fileState[Required[cur[p]][pos[p]]] # "error"
       THEN /\ pos' = [pos EXCEPT ![p] = @ + 1]
            /\ UNCHANGED <<pc, cur>>
       ELSE /\ pos' = [pos EXCEPT ![p] = 1]
            /\ cur' = [cur EXCEPT ![p] = None]
            /\ Goto(p, "pick")
  /\ UNCHANGED <<fileVars, sessionVars, handlerVars, clientVars, job, todo>>

\* The states of the other files are read one after another.
CheckFile(p) ==
  /\ pc[p] = "check" /\ pos[p] \in DOMAIN Required[cur[p]]
  /\ IF fileState[Required[cur[p]][pos[p]]] = "uploaded"
       THEN /\ pos' = [pos EXCEPT ![p] = @ + 1]
            /\ UNCHANGED <<pc, cur>>
       ELSE /\ pos' = [pos EXCEPT ![p] = 1]
            /\ cur' = [cur EXCEPT ![p] = None]
            /\ Goto(p, "pick")
  /\ UNCHANGED <<fileVars, sessionVars, handlerVars, clientVars, job, todo>>

\* Mutant of SwapCompilationStarted: the old value is not looked at.
StoreCompilationStarted(p) ==
  /\ pc[p] = "check" /\ pos[p] \notin DOMAIN Required[cur[p]]
  /\ started' = [started EXCEPT ![cur[p]] = TRUE]
  /\ launches' = [launches EXCEPT ![cur[p]] = @ + 1]
  /\ cur' = [cur EXCEPT ![p] = None]
  /\ pos' = [pos EXCEPT ![p] = 1]
  /\ Goto(p, "pick")
  /\ UNCHANGED <<fileVars, sessions, handlerVars, clientVars, job, todo>>

\* All were uploaded: atomic.SwapInt32 lets one goroutine launch the compiler.
SwapCompilationStarted(p) ==
  /\ pc[p] = "check" /\ pos[p] \notin DOMAIN Required[cur[p]]
  /\ started' = [started EXCEPT ![cur[p]] = TRUE]
  /\ launches' = [launches EXCEPT ![cur[p]] = IF started[cur[p]] THEN @ ELSE @ + 1]
  /\ cur' = [cur EXCEPT ![p] = None]
  /\ pos' = [pos EXCEPT ![p] = 1]
  /\ Goto(p, "pick")
  /\ UNCHANGED <<fileVars, sessions, handlerVars, clientVars, job, todo>>

\* The compilation has ended and its .o was streamed back to the client.
CloseSession(s) ==
  /\ s \in sessions /\ started[s]
  /\ sessions' = sessions \ {s}
  /\ UNCHANGED <<fileVars, started, launches, pc, handlerVars, clientVars, job,
                 scanVars>>

\* The scan of a handler is over: the client gets fileIndexesToUpload and
\* queues an upload for each.
Reply(s) ==
  /\ pc[s] = "pick" /\ todo[s] = {}
  /\ toUpload' = toUpload \cup {[session |-> s, file |-> f] : f \in asked[s]}
  /\ asked' = [asked EXCEPT ![s] = {}]
  /\ Goto(s, "replied")
  /\ UNCHANGED <<fileVars, sessionVars, idx, failed, job, scanVars>>

-----------------------------------------------------------------------------
(* UploadFileStream                                                        *)

\* The upload of a request breaks before its first chunk reaches the server.
LoseUpload(req) ==
  /\ req \in toUpload /\ req.file \in MayFail
  /\ toUpload' = toUpload \ {req}
  /\ failed' = failed \cup {req.file}
  /\ UNCHANGED <<fileVars, sessionVars, pc, handlerVars, job, scanVars>>

\* The first chunk of a file.  GetSession does not find a session which is closed
\* by now: that ends the stream, and the client opens the next one.
FirstChunk(u, req) ==
  /\ pc[u] = "idle" /\ req \in toUpload
  /\ toUpload' = toUpload \ {req}
  /\ IF req.session \in sessions
       THEN /\ job' = [job EXCEPT ![u] = req]
            /\ Goto(u, "found")
       ELSE UNCHANGED <<job, pc>>
  /\ UNCHANGED <<fileVars, sessionVars, handlerVars, failed, scanVars>>

\* The index is compared with the length of session.files, and then the file is
\* taken from them.  CloseSession, after it has removed the session, sets them to
\* nil without a lock: before the comparison that ends the stream, between the
\* two the server panics, and later it does not matter.
TakeFile(u) ==
  /\ pc[u] = "found"
  /\ \/ /\ Goto(u, "receiving")
        /\ UNCHANGED job
     \/ /\ job[u].session \notin sessions
        /\ Goto(u, "idle")
        /\ job' = [job EXCEPT ![u] = None]
     \/ /\ job[u].session \notin sessions
        /\ Goto(u, "panicked")
        /\ UNCHANGED job
  /\ UNCHANGED <<fileVars, sessionVars, handlerVars, clientVars, scanVars>>

\* receiveUploadedFileByChunks renames a complete temporary file into place.
ReceiveFile(u) ==
  /\ pc[u] = "receiving"
  /\ onDisk' = [onDisk EXCEPT ![job[u].file] = ShaOf[job[u].session][job[u].file]]
  /\ Goto(u, IF job[u].file \in PchFiles THEN "pch" ELSE "received")
  /\ UNCHANGED <<fileState, fileSha, srcCache, sessionVars, handlerVars,
                 clientVars, job, scanVars>>

CompileOwnPch(u) ==
  /\ pc[u] = "pch"
  /\ Goto(u, "received")
  /\ UNCHANGED <<fileVars, sessionVars, handlerVars, clientVars, job, scanVars>>

\* The transfer or the compilation of a .nocc-pch fails: the stream ends.
UploadFails(u) ==
  /\ pc[u] \in {"receiving", "pch"} /\ job[u].file \in MayFail
  /\ fileState' = [fileState EXCEPT ![job[u].file] = "error"]
  /\ failed' = failed \cup {job[u].file}
  /\ job' = [job EXCEPT ![u] = None]
  /\ Goto(u, "idle")
  /\ UNCHANGED <<fileSha, onDisk, srcCache, sessionVars, handlerVars, toUpload,
                 scanVars>>

\* Mutant of FileUploaded: waiting sessions are not looked at.
FileUploadedQuietly(u) ==
  /\ pc[u] = "received"
  /\ fileState' = [fileState EXCEPT ![job[u].file] = "uploaded"]
  /\ Goto(u, "pick")
  /\ UNCHANGED <<fileSha, onDisk, srcCache, sessionVars, handlerVars,
                 clientVars, job, scanVars>>

FileUploaded(u) ==
  /\ pc[u] = "received"
  /\ fileState' = [fileState EXCEPT ![job[u].file] = "uploaded"]
  /\ Goto(u, "scan")
  /\ UNCHANGED <<fileSha, onDisk, srcCache, sessionVars, handlerVars,
                 clientVars, job, scanVars>>

\* The scan of a stream is over: it confirms the upload.  SaveFileToCache keeps
\* the entry it has if the key is there already.
SaveFileToCache(u) ==
  /\ pc[u] = "pick" /\ todo[u] = {}
  /\ LET f == job[u].file IN
       srcCache' = IF \E entry \in srcCache : entry[1] = fileSha[f]
                     THEN srcCache
                     ELSE srcCache \cup {<<fileSha[f], onDisk[f]>>}
  /\ job' = [job EXCEPT ![u] = None]
  /\ Goto(u, "idle")
  /\ UNCHANGED <<fileState, fileSha, onDisk, sessionVars, handlerVars,
                 clientVars, scanVars>>

-----------------------------------------------------------------------------
HandlerStep(s) ==
  \/ Refuse(s)
  \/ CreateNewSession(s)
  \/ LookupFile(s)
  \/ InsertFile(s)
  \/ FromObjCache(s)
  \/ NotInObjCache(s)
  \/ SwitchOnState(s)
  \/ ClaimFile(s)
  \/ SystemHeaderDiffers(s)
  \/ SystemHeaderEqual(s)
  \/ LinkedFromSrcCache(s)
  \/ AskForFile(s)
  \/ AskAgain(s)
  \/ RegisterCreatedSession(s)
  \/ Reply(s)

ScanStep(p) ==
  \/ GetSessionsNotStartedCompilation(p)
  \/ PickSession(p)
  \/ CheckFile(p)
  \/ SwapCompilationStarted(p)

StreamStep(u) ==
  \/ \E req \in toUpload : FirstChunk(u, req)
  \/ TakeFile(u)
  \/ ReceiveFile(u)
  \/ CompileOwnPch(u)
  \/ UploadFails(u)
  \/ FileUploaded(u)
  \/ SaveFileToCache(u)

\* A goroutine that panics takes the server with it.
Running == \A u \in Streams : pc[u] # "panicked"

Next ==
  /\ Running
  /\ \/ \E s \in Sessions : HandlerStep(s)
     \/ \E s \in Sessions : CloseSession(s)
     \/ \E p \in Procs : ScanStep(p)
     \/ \E u \in Streams : StreamStep(u)
     \/ \E req \in toUpload : LoseUpload(req)

Spec == Init /\ [][Next]_vars

\* Goroutines are scheduled, and a client uploads what it was asked for; that
\* clients start sessions and that sessions are closed is not assumed.
Fairness ==
  /\ \A s \in Sessions : WF_vars(Running /\ pc[s] # "new" /\ HandlerStep(s))
  /\ \A p \in Procs : WF_vars(Running /\ ScanStep(p))
  /\ \A u \in Streams : WF_vars(Running /\ StreamStep(u))

FairSpec == Spec /\ Fairness

-----------------------------------------------------------------------------
(* Properties                                                              *)

\* Process p, the handler of a session that shares a file with s, is still to
\* scan, or scans and has s before it.
WillCheck(p, s) ==
  \/ /\ p \in Sessions
     /\ pc[p] \in {"loop", "claim", "resolve", "reclaim"}
     /\ FilesOf(p) \cap FilesOf(s) # {}
  \/ pc[p] = "scan"
  \/ pc[p] \in {"pick", "check"} /\ s \in todo[p]
  \/ pc[p] = "check" /\ cur[p] = s

AllUploaded(s) == \A f \in FilesOf(s) : fileState[f] = "uploaded"

Ready(s) == s \in sessions /\ ~started[s] /\ AllUploaded(s)

(* No lost wake-up.  Once the last file of a registered session is there,  *)
(* some goroutine is on its way to start the compilation: a handler        *)
(* registers its session before it looks at the files, a stream looks at   *)
(* the sessions after it has changed the state of its file.                *)
(* The one way to lose it: a handler that took a shared file from the src  *)
(* cache and then gave up on a system header, which returns without a      *)
(* scan.                                                                   *)
NoLostWakeup ==
  \A s \in Sessions : Ready(s) =>
    \/ \E p \in Procs : WillCheck(p, s)
    \/ \E q \in Sessions : /\ pc[q] = "headerDiffers"
                           /\ FilesOf(q) \cap FilesOf(s) # {}

(* The C++ compiler is launched at most once for a session, whichever      *)
(* handlers and streams find its files ready at the same time, even if it  *)
(* is closed while one of them still looks at it.                          *)
LaunchedAtMostOnce ==
  \A s \in Sessions : launches[s] <= IF started[s] THEN 1 ELSE 0

(* A compilation is launched only when every file of its session is on the *)
(* disk, although the states it reads one by one can change meanwhile.     *)
LaunchedWithFiles ==
  \A s \in Sessions : launches[s] > 0 =>
    \A f \in FilesOf(s) : onDisk[f] # None

\* Somebody is going to take f out of the state "uploading".
Awaited(f) ==
  \/ \E s \in Sessions :
       \/ pc[s] = "resolve" /\ File(s) = f
       \/ /\ f \in asked[s]
          /\ pc[s] \in {"loop", "claim", "resolve", "reclaim"} \cup ScanPcs
  \/ \E req \in toUpload : req.file = f /\ req.session \in sessions
  \/ \E u \in Streams :
       /\ \/ pc[u] \in {"receiving", "pch", "received"}
          \/ pc[u] = "found" /\ job[u].session \in sessions
       /\ job[u].file = f

(* Every file in the state "uploading" is being looked up or has an upload *)
(* on its way, so sessions that leave it to the one that claimed it do not *)
(* wait in vain.  The exceptions: an upload that failed, which the server  *)
(* need not have seen, and a handler that returned on a system header.     *)
UploadingIsAwaited ==
  \A f \in FileNames \ failed :
    fileState[f] = "uploading" =>
      \/ Awaited(f)
      \/ \E q \in Sessions : pc[q] = "headerDiffers" /\ f \in FilesOf(q)

(* A session with a system header that differs from the server's is never  *)
(* opened: the comment on MapClientFileNameToServerAbs says it fails to    *)
(* start and the client compiles locally.  (A .o from the obj cache needs  *)
(* no header.)                                                             *)
DifferingHeaderRefused ==
  \A s \in sessions \ CachedObjs : \A f \in FilesOf(s) \cap SystemHeaders :
    ShaOf[s][f] = SystemSha[f]

(* A session that got past its creation agrees with client.files on the    *)
(* sha256 of every file: the comment on StartUsingFileInSession calls      *)
(* anything else a dependency conflict.                                    *)
CreatedWithItsShas ==
  \A s \in Sessions :
    pc[s] \in {"loop", "claim", "resolve", "reclaim", "replied"} \cup ScanPcs =>
      \A f \in FilesOf(s) : fileSha[f] = ShaOf[s][f]

(* The compiler sees the contents its session was opened for, and the src  *)
(* cache, which other clients share, holds under a sha256 what has it.     *)
CompiledFromItsFiles ==
  /\ \A s \in Sessions : launches[s] > 0 =>
       \A f \in FilesOf(s) : onDisk[f] = ShaOf[s][f]
  /\ \A entry \in srcCache : entry[1] = entry[2]

(* Every session that is registered is compiled in the end (or served from *)
(* the obj cache), unless an upload of one of its files failed: then it is *)
(* the next session with that file that asks for it again, if one comes.   *)
(* Nor is it if the server panics, see StreamsOnlyEnd.                     *)
EverySessionStarts ==
  \A s \in Sessions :
    (s \in sessions) ~> (started[s] \/ FilesOf(s) \cap failed # {} \/ ~Running)

(* "This stream is alive until any error happens.  On upload error, it's   *)
(* closed" (nocc-server.go:233): an upload that arrives late, for a        *)
(* session which is being closed, costs its stream and not the server.     *)
StreamsOnlyEnd == Running

=============================================================================
