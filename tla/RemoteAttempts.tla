--------------------------- MODULE RemoteAttempts ---------------------------
(***************************************************************************)
(* Attempts of nocc-daemon to compile files on one remote.                 *)
(*                                                                         *)
(* An attempt (an Invocation) registers itself, opens a session on the     *)
(* server, queues the files the server asked for, waits on wgUpload until  *)
(* all are uploaded and on wgRecv until the .o is there.  One goroutine    *)
(* uploads files from the queue, one receives .o files, and either opens   *)
(* its stream again when it breaks.  Both, and the ticker looking for      *)
(* attempts that hang, may interrupt attempts while these go on.           *)
(*                                                                         *)
(* A release of a WaitGroup merges with the decrement before it, which no  *)
(* other goroutine can tell apart; the two steps that fill waitUploads and *)
(* wgUpload can be told apart and stay two.                                *)
(***************************************************************************)
EXTENDS Integers, Sequences, SequencesExt, FiniteSets

CONSTANTS
  Attempts,       \* attempts, each with a session of its own
  None,           \* "no attempt"
  MaxFiles,       \* bound: files a server asks an attempt to upload
  QueueCap,       \* capacity of chanToUpload
  MaxUploadErrs,  \* bound: uploads that fail
  MaxBreaks       \* bound: times the stream of .o files breaks

ASSUME RemoteAttemptsAssumption ==
  /\ None \notin Attempts
  /\ MaxFiles \in Nat /\ QueueCap \in Nat \ {0}
  /\ MaxUploadErrs \in Nat /\ MaxBreaks \in Nat

VARIABLES
  pc,           \* stage of an attempt
  nFiles,       \* files it has to upload
  queued,       \* how many of these it has queued
  waitUploads, wgUpload, wgRecv, doneRecv, err,  \* fields of Invocation
  result,       \* what the attempt ended with
  active,       \* Daemon.activeInvocations
  chanToUpload, \* a request is the attempt it belongs to
  upload,       \* stage of the goroutine that uploads
  uploading,    \* the attempt whose file it has in hand
  reporting,    \* failed uploads that goroutines of earlier streams have to report
  recv,         \* stage of the goroutine that receives
  receiving,    \* the attempt whose .o it has in hand
  interrupting, \* attempts a holder of Daemon.mu has still to interrupt
  isUnavailable,
  marking,      \* who has set it, and has still to interrupt the attempts
  isCleared,    \* the connection was replaced by a reconnect
  session,      \* the server's session of an attempt
  uploaded,     \* files of it the server has
  inFlight,     \* sessions with an .o in the stream
  trailer,      \* the session named by the server as it ended the stream
  received,     \* history: replies received to the end
  lost,         \* history: replies lost with the stream
  uploadErrs, breaks,  \* history: counts of failures
  panicked      \* the WaitGroup released too often, which ends the daemon

attemptVars == <<pc, nFiles, queued, result, active>>
groupVars == <<waitUploads, wgUpload, wgRecv, doneRecv, err, panicked>>
uploadVars == <<chanToUpload, upload, uploading, reporting, uploadErrs>>
recvVars == <<recv, receiving, received, lost, breaks>>
remoteVars == <<isUnavailable, marking, isCleared>>
serverVars == <<session, uploaded, inFlight, trailer>>
vars == <<attemptVars, groupVars, uploadVars, recvVars, remoteVars, serverVars,
          interrupting>>

Interrupters == {"upload", "recv", "ticker"}
Stages == {"new", "chosen", "registered", "collecting", "asking", "started", "checked",
           "counted", "queueing", "receiving", "leaving", "ended"}
UploadStages == {"listening", "sending", "recreating", "unauthenticated",
                 "givenUp", "quit"}
RecvStages == {"listening", "saving", "broken", "recreating", "quitting", "quit"}

TypeOK ==
  /\ pc \in [Attempts -> Stages]
  /\ nFiles \in [Attempts -> 0 .. MaxFiles]
  /\ queued \in [Attempts -> 0 .. MaxFiles]
  /\ waitUploads \in [Attempts -> 0 .. MaxFiles]
  /\ wgUpload \in [Attempts -> 0 .. MaxFiles]
  /\ wgRecv \in [Attempts -> 0 .. 1]
  /\ doneRecv \in [Attempts -> BOOLEAN]
  /\ err \in [Attempts -> BOOLEAN]
  /\ result \in [Attempts -> {"none", "failed", "replied"}]
  /\ active \subseteq Attempts
  /\ chanToUpload \in Seq(Attempts) /\ Len(chanToUpload) <= QueueCap
  /\ upload \in UploadStages
  /\ uploading \in Attempts \cup {None}
  /\ reporting \in [Attempts -> Nat]
  /\ recv \in RecvStages
  /\ receiving \in Attempts \cup {None}
  /\ interrupting \in [Interrupters -> Seq(Attempts)]
  /\ isUnavailable \in BOOLEAN /\ marking \subseteq Interrupters /\ isCleared \in BOOLEAN
  /\ session \in [Attempts -> {"none", "open", "over"}]
  /\ uploaded \in [Attempts -> 0 .. MaxFiles]
  /\ inFlight \subseteq Attempts
  /\ trailer \in Attempts \cup {None}
  /\ received \subseteq Attempts /\ lost \subseteq Attempts
  /\ uploadErrs \in 0 .. MaxUploadErrs /\ breaks \in 0 .. MaxBreaks
  /\ panicked \in {"no", "upload", "recv"}

(***************************************************************************)
(* A stream of a connection that a reconnect has made may be given up      *)
(* before the connection is in the daemon's list: nobody hears of it then, *)
(* as OnRemoteBecameUnavailable looks for the connection there, and        *)
(* attempts are made on it (see GivenUpIsInterrupted of DaemonRetries).    *)
(***************************************************************************)
Init ==
  /\ pc = [i \in Attempts |-> "new"]
  /\ nFiles = [i \in Attempts |-> 0]
  /\ queued = [i \in Attempts |-> 0]
  /\ waitUploads = [i \in Attempts |-> 0]
  /\ wgUpload = [i \in Attempts |-> 0]
  /\ wgRecv = [i \in Attempts |-> 0]
  /\ doneRecv = [i \in Attempts |-> FALSE]
  /\ err = [i \in Attempts |-> FALSE]
  /\ result = [i \in Attempts |-> "none"]
  /\ active = {}
  /\ chanToUpload = <<>>
  /\ upload \in {"listening", "quit"} /\ uploading = None
  /\ reporting = [i \in Attempts |-> 0]
  /\ recv \in {"listening", "quit"} /\ receiving = None
  /\ interrupting = [p \in Interrupters |-> <<>>]
  /\ isUnavailable = FALSE /\ marking = {} /\ isCleared = FALSE
  /\ session = [i \in Attempts |-> "none"]
  /\ uploaded = [i \in Attempts |-> 0]
  /\ inFlight = {} /\ trailer = None
  /\ received = {} /\ lost = {}
  /\ uploadErrs = 0 /\ breaks = 0
  /\ panicked = "no"

\* A panic ends the daemon.
Running == panicked = "no"

At(i, stage) == Running /\ pc[i] = stage
UploadAt(stage) == Running /\ upload = stage
RecvAt(stage) == Running /\ recv = stage

-----------------------------------------------------------------------------
(* Invocation: the two WaitGroups and who releases them                    *)

\* Nothing is released once waitUploads is 0, but the error is kept.
DoneUploadFile(i, failed) ==
  /\ err' = [err EXCEPT ![i] = @ \/ failed]
  /\ \/ /\ waitUploads[i] = 0
        /\ UNCHANGED <<waitUploads, wgUpload, panicked>>
     \/ /\ waitUploads[i] > 0
        /\ waitUploads' = [waitUploads EXCEPT ![i] = @ - 1]
        /\ \/ /\ wgUpload[i] > 0
              /\ wgUpload' = [wgUpload EXCEPT ![i] = @ - 1]
              /\ UNCHANGED panicked
           \/ /\ wgUpload[i] = 0
              /\ panicked' = "upload"
              /\ UNCHANGED wgUpload
  /\ UNCHANGED <<wgRecv, doneRecv>>

\* Only the first call has an effect.
DoneRecvObj(i, failed) ==
  /\ \/ /\ doneRecv[i]
        /\ UNCHANGED <<doneRecv, err, wgRecv, panicked>>
     \/ /\ ~doneRecv[i]
        /\ doneRecv' = [doneRecv EXCEPT ![i] = TRUE]
        /\ err' = [err EXCEPT ![i] = @ \/ failed]
        /\ \/ /\ wgRecv[i] > 0
              /\ wgRecv' = [wgRecv EXCEPT ![i] = @ - 1]
              /\ UNCHANGED panicked
           \/ /\ wgRecv[i] = 0
              /\ panicked' = "recv"
              /\ UNCHANGED wgRecv
  /\ UNCHANGED <<waitUploads, wgUpload>>

\* ForceInterrupt: uploads are drained one by one, ...
DrainUpload(p) ==
  /\ Running /\ interrupting[p] # <<>>
  /\ LET i == Head(interrupting[p]) IN
       /\ waitUploads[i] > 0
       /\ DoneUploadFile(i, TRUE)
  /\ UNCHANGED <<attemptVars, uploadVars, recvVars, remoteVars, serverVars,
                 interrupting>>

\* Mutant of EndInterrupt: the attempt gets no error.
EndInterruptQuietly(p) ==
  /\ Running /\ interrupting[p] # <<>>
  /\ waitUploads[Head(interrupting[p])] = 0
  /\ DoneRecvObj(Head(interrupting[p]), FALSE)
  /\ interrupting' = [interrupting EXCEPT ![p] = Tail(@)]
  /\ UNCHANGED <<attemptVars, uploadVars, recvVars, remoteVars, serverVars>>

\* Mutant of EndInterrupt: pending uploads are left alone.
EndInterruptOfRecv(p) ==
  /\ Running /\ interrupting[p] # <<>>
  /\ DoneRecvObj(Head(interrupting[p]), TRUE)
  /\ interrupting' = [interrupting EXCEPT ![p] = Tail(@)]
  /\ UNCHANGED <<attemptVars, uploadVars, recvVars, remoteVars, serverVars>>

\* ... and when none is left the .o is given up.
EndInterrupt(p) ==
  /\ Running /\ interrupting[p] # <<>>
  /\ waitUploads[Head(interrupting[p])] = 0
  /\ DoneRecvObj(Head(interrupting[p]), TRUE)
  /\ interrupting' = [interrupting EXCEPT ![p] = Tail(@)]
  /\ UNCHANGED <<attemptVars, uploadVars, recvVars, remoteVars, serverVars>>

\* Daemon.mu: whoever interrupts holds it, the ticker for writing.
MayRead == interrupting["ticker"] = <<>>
MayWrite == \A p \in Interrupters : interrupting[p] = <<>>

\* A map is iterated in any order.
Interrupt(p, attempts) ==
  \E order \in SetToSeqs(attempts) :
    interrupting' = [interrupting EXCEPT ![p] = order]

\* The first to find out marks the remote, which takes no lock, ...
OnRemoteBecameUnavailable(p) ==
  \/ /\ isUnavailable
     /\ UNCHANGED <<isUnavailable, marking>>
  \/ /\ ~isUnavailable
     /\ isUnavailable' = TRUE
     /\ marking' = {p}

\* ... and then interrupts all attempts on the remote.
InterruptInvocations(p) ==
  /\ Running /\ p \in marking
  /\ MayRead
  /\ Interrupt(p, active)
  /\ marking' = marking \ {p}
  /\ UNCHANGED <<attemptVars, groupVars, uploadVars, recvVars, isUnavailable, isCleared,
                 serverVars>>

\* It has told everyone, if it was the first.
HasTold(p) == p \notin marking /\ interrupting[p] = <<>>

-----------------------------------------------------------------------------
(* tryCompileCppRemotely and CompileCppRemotely                            *)

Goto(i, stage) == pc' = [pc EXCEPT ![i] = stage]

\* The attempt is over, but for its registration.
Fail(i) ==
  /\ result' = [result EXCEPT ![i] = "failed"]
  /\ Goto(i, "leaving")

Choose(i) ==
  /\ At(i, "new")
  /\ \/ /\ ~isUnavailable
        /\ Goto(i, "chosen")
        /\ UNCHANGED result
     \/ /\ isUnavailable
        /\ Goto(i, "ended")
        /\ result' = [result EXCEPT ![i] = "failed"]
  /\ UNCHANGED <<nFiles, queued, active, groupVars, uploadVars, recvVars, remoteVars,
                 serverVars, interrupting>>

Register(i) ==
  /\ At(i, "chosen")
  /\ MayWrite
  /\ active' = active \cup {i}
  /\ Goto(i, "registered")
  /\ UNCHANGED <<nFiles, queued, result, groupVars, uploadVars, recvVars, remoteVars,
                 serverVars, interrupting>>

AddRecv(i) ==
  /\ At(i, "registered")
  /\ wgRecv' = [wgRecv EXCEPT ![i] = @ + 1]
  /\ Goto(i, "collecting")
  /\ UNCHANGED <<nFiles, queued, result, active, waitUploads, wgUpload, doneRecv, err,
                 panicked, uploadVars, recvVars, remoteVars, serverVars, interrupting>>

\* Includes can't be collected, the remote is known to be down, or the call fails.
SessionNotStarted(i) ==
  /\ At(i, "collecting") \/ At(i, "asking")
  /\ Fail(i)
  /\ UNCHANGED <<nFiles, queued, active, groupVars, uploadVars, recvVars, remoteVars,
                 serverVars, interrupting>>

IncludesCollected(i) ==
  /\ At(i, "collecting")
  /\ ~isUnavailable
  /\ Goto(i, "asking")
  /\ UNCHANGED <<nFiles, queued, result, active, groupVars, uploadVars, recvVars, remoteVars,
                 serverVars, interrupting>>

\* The call itself: the remote may be known to be down meanwhile.
StartCompilationSession(i) ==
  /\ At(i, "asking")
  /\ \E n \in 0 .. MaxFiles : nFiles' = [nFiles EXCEPT ![i] = n]
  /\ session' = [session EXCEPT ![i] = "open"]
  /\ Goto(i, "started")
  /\ UNCHANGED <<queued, result, active, groupVars, uploadVars, recvVars, remoteVars,
                 uploaded, inFlight, trailer, interrupting>>

\* UploadFilesToRemote
CheckAvailable(i) ==
  /\ At(i, "started")
  /\ \/ /\ isUnavailable
        /\ Fail(i)
     \/ /\ ~isUnavailable
        /\ Goto(i, "checked")
        /\ UNCHANGED result
  /\ UNCHANGED <<nFiles, queued, active, groupVars, uploadVars, recvVars, remoteVars,
                 serverVars, interrupting>>

SetWaitUploads(i) ==
  /\ At(i, "checked")
  /\ waitUploads' = [waitUploads EXCEPT ![i] = nFiles[i]]
  /\ Goto(i, "counted")
  /\ UNCHANGED <<nFiles, queued, result, active, wgUpload, wgRecv, doneRecv, err,
                 panicked, uploadVars, recvVars, remoteVars, serverVars, interrupting>>

\* It adds the field as read back, which may have been drained since.
AddUploads(i) ==
  /\ At(i, "counted")
  /\ wgUpload' = [wgUpload EXCEPT ![i] = @ + waitUploads[i]]
  /\ Goto(i, "queueing")
  /\ UNCHANGED <<nFiles, queued, result, active, waitUploads, wgRecv, doneRecv, err,
                 panicked, uploadVars, recvVars, remoteVars, serverVars, interrupting>>

\* StartUploadingFileToRemote: it waits while the channel is full.
StartUploadingFile(i) ==
  /\ At(i, "queueing")
  /\ queued[i] < nFiles[i]
  /\ Len(chanToUpload) < QueueCap
  /\ chanToUpload' = Append(chanToUpload, i)
  /\ queued' = [queued EXCEPT ![i] = @ + 1]
  /\ UNCHANGED <<pc, nFiles, result, active, groupVars, upload, uploading, reporting,
                 uploadErrs, recvVars, remoteVars, serverVars, interrupting>>

WaitUploads(i) ==
  /\ At(i, "queueing")
  /\ queued[i] = nFiles[i]
  /\ wgUpload[i] = 0
  /\ \/ /\ err[i]
        /\ Fail(i)
     \/ /\ ~err[i]
        /\ Goto(i, "receiving")
        /\ UNCHANGED result
  /\ UNCHANGED <<nFiles, queued, active, groupVars, uploadVars, recvVars, remoteVars,
                 serverVars, interrupting>>

WaitForCompiledObj(i) ==
  /\ At(i, "receiving")
  /\ wgRecv[i] = 0
  /\ result' = [result EXCEPT ![i] = IF err[i] THEN "failed" ELSE "replied"]
  /\ Goto(i, "leaving")
  /\ UNCHANGED <<nFiles, queued, active, groupVars, uploadVars, recvVars, remoteVars,
                 serverVars, interrupting>>

Unregister(i) ==
  /\ At(i, "leaving")
  /\ MayWrite
  /\ active' = active \ {i}
  /\ Goto(i, "ended")
  /\ UNCHANGED <<nFiles, queued, result, groupVars, uploadVars, recvVars, remoteVars,
                 serverVars, interrupting>>

-----------------------------------------------------------------------------
(* PeriodicallyInterruptHangedInvocations: any set of attempts may be late *)

Tick(late) ==
  /\ Running /\ late # {} /\ late \subseteq active
  /\ MayWrite
  /\ Interrupt("ticker", late)
  /\ UNCHANGED <<attemptVars, groupVars, uploadVars, recvVars, remoteVars, serverVars>>

-----------------------------------------------------------------------------
(* FilesUploading                                                          *)

TakeRequest ==
  /\ UploadAt("listening")
  /\ chanToUpload # <<>>
  /\ uploading' = Head(chanToUpload)
  /\ chanToUpload' = Tail(chanToUpload)
  /\ upload' = "sending"
  /\ UNCHANGED <<attemptVars, groupVars, reporting, uploadErrs, recvVars, remoteVars,
                 serverVars, interrupting>>

UploadSucceeds ==
  /\ UploadAt("sending")
  /\ DoneUploadFile(uploading, FALSE)
  /\ uploaded' = [uploaded EXCEPT ![uploading] = @ + 1]
  /\ upload' = "listening"
  /\ uploading' = None
  /\ UNCHANGED <<attemptVars, chanToUpload, reporting, uploadErrs, recvVars, remoteVars,
                 session, inFlight, trailer, interrupting>>

\* The stream, the server or the reading of the file failed.
UploadFails ==
  /\ UploadAt("sending")
  /\ ~isCleared
  /\ uploadErrs < MaxUploadErrs
  /\ uploadErrs' = uploadErrs + 1
  /\ upload' = "recreating"
  /\ UNCHANGED <<attemptVars, groupVars, chanToUpload, uploading, reporting, recvVars,
                 remoteVars, serverVars, interrupting>>

\* The server does not know this client: it restarted.
UploadUnauthenticated ==
  /\ UploadAt("sending")
  /\ ~isCleared
  /\ OnRemoteBecameUnavailable("upload")
  /\ upload' = "unauthenticated"
  /\ UNCHANGED <<attemptVars, groupVars, chanToUpload, uploading, reporting, uploadErrs,
                 recvVars, isCleared, serverVars, interrupting>>

UploadOfCleared ==
  /\ UploadAt("sending")
  /\ isCleared
  /\ DoneUploadFile(uploading, TRUE)
  /\ upload' = "quit"
  /\ uploading' = None
  /\ UNCHANGED <<attemptVars, chanToUpload, reporting, uploadErrs, recvVars, remoteVars,
                 serverVars, interrupting>>

\* Mutant of RecreateUploadStream: the attempt is not told.
RecreateUploadStreamOnly ==
  /\ UploadAt("recreating")
  /\ upload' = "listening"
  /\ uploading' = None
  /\ UNCHANGED <<attemptVars, groupVars, chanToUpload, reporting, uploadErrs, recvVars,
                 remoteVars, serverVars, interrupting>>

\* A new goroutine listens, and the old one has still to report the error.
RecreateUploadStream ==
  /\ UploadAt("recreating")
  /\ reporting' = [reporting EXCEPT ![uploading] = @ + 1]
  /\ upload' = "listening"
  /\ uploading' = None
  /\ UNCHANGED <<attemptVars, groupVars, chanToUpload, uploadErrs, recvVars, remoteVars,
                 serverVars, interrupting>>

ReportUploadFailed(i) ==
  /\ Running /\ reporting[i] > 0
  /\ DoneUploadFile(i, TRUE)
  /\ reporting' = [reporting EXCEPT ![i] = @ - 1]
  /\ UNCHANGED <<attemptVars, chanToUpload, upload, uploading, uploadErrs, recvVars,
                 remoteVars, serverVars, interrupting>>

UploadStreamNotRecreated ==
  /\ UploadAt("recreating")
  /\ OnRemoteBecameUnavailable("upload")
  /\ upload' = "givenUp"
  /\ UNCHANGED <<attemptVars, groupVars, chanToUpload, uploading, reporting, uploadErrs,
                 recvVars, isCleared, serverVars, interrupting>>

\* After the attempts on the remote were interrupted.
ReportUploadGivenUp ==
  /\ UploadAt("givenUp")
  /\ HasTold("upload")
  /\ DoneUploadFile(uploading, TRUE)
  /\ upload' = "quit"
  /\ uploading' = None
  /\ UNCHANGED <<attemptVars, chanToUpload, reporting, uploadErrs, recvVars, remoteVars,
                 serverVars, interrupting>>

QuitUploading ==
  /\ \/ UploadAt("listening") /\ isCleared
     \/ UploadAt("unauthenticated") /\ HasTold("upload")
  /\ upload' = "quit"
  /\ uploading' = None
  /\ UNCHANGED <<attemptVars, groupVars, chanToUpload, reporting, uploadErrs, recvVars,
                 remoteVars, serverVars, interrupting>>

-----------------------------------------------------------------------------
(* FilesReceiving                                                          *)

\* FindBySessionID, for the reply of a session nobody waits for any more
DiscardReply(i) ==
  /\ RecvAt("listening")
  /\ i \in inFlight \ active
  /\ MayRead
  /\ inFlight' = inFlight \ {i}
  /\ UNCHANGED <<attemptVars, groupVars, uploadVars, recvVars, remoteVars, session,
                 uploaded, trailer, interrupting>>

ReceiveFirstChunk(i) ==
  /\ RecvAt("listening")
  /\ i \in inFlight \cap active
  /\ MayRead
  /\ inFlight' = inFlight \ {i}
  /\ recv' = "saving"
  /\ receiving' = i
  /\ UNCHANGED <<attemptVars, groupVars, uploadVars, received, lost, breaks, remoteVars,
                 session, uploaded, trailer, interrupting>>

\* The .o is saved, or the compiler's exit code is not 0.
ObjReceived ==
  /\ RecvAt("saving")
  /\ DoneRecvObj(receiving, FALSE)
  /\ received' = received \cup {receiving}
  /\ recv' = "listening"
  /\ receiving' = None
  /\ UNCHANGED <<attemptVars, uploadVars, lost, breaks, remoteVars, serverVars,
                 interrupting>>

\* The .o can't be saved or has no .gcno, or the compiler was killed.
ObjNotUsable ==
  /\ RecvAt("saving")
  /\ DoneRecvObj(receiving, TRUE)
  /\ recv' = "listening"
  /\ receiving' = None
  /\ UNCHANGED <<attemptVars, uploadVars, received, lost, breaks, remoteVars, serverVars,
                 interrupting>>

\* The stream breaks within an .o.
ObjCutShort ==
  /\ RecvAt("saving")
  /\ breaks < MaxBreaks
  /\ DoneRecvObj(receiving, TRUE)
  /\ recv' = "broken"
  /\ receiving' = None
  /\ lost' = lost \cup inFlight
  /\ inFlight' = {}
  /\ trailer' = None
  /\ breaks' = breaks + 1
  /\ UNCHANGED <<attemptVars, uploadVars, received, remoteVars, session, uploaded,
                 interrupting>>

\* The stream breaks under the transport: what it held is lost.
RecvBreaks ==
  /\ RecvAt("listening")
  /\ ~isCleared
  /\ breaks < MaxBreaks
  /\ recv' = "broken"
  /\ lost' = lost \cup inFlight
  /\ inFlight' = {}
  /\ trailer' = None
  /\ breaks' = breaks + 1
  /\ UNCHANGED <<attemptVars, groupVars, uploadVars, receiving, received, remoteVars,
                 session, uploaded, interrupting>>

\* Mutant of OnRecvStreamBroke: only the stream is seen to.
OnRecvStreamBrokeQuietly ==
  /\ RecvAt("broken")
  /\ recv' = "recreating"
  /\ UNCHANGED <<attemptVars, groupVars, uploadVars, receiving, received, lost, breaks,
                 remoteVars, serverVars, interrupting>>

OnRecvStreamBroke ==
  /\ RecvAt("broken")
  /\ MayRead
  /\ Interrupt("recv", active)
  /\ recv' = "recreating"
  /\ UNCHANGED <<attemptVars, groupVars, uploadVars, receiving, received, lost, breaks,
                 remoteVars, serverVars>>

\* The server ended the stream and named a session: that one fails.
StreamEndedByServer ==
  /\ RecvAt("listening")
  /\ ~isCleared
  /\ trailer # None
  /\ inFlight = {}
  /\ MayRead
  /\ \/ trailer \in active /\ DoneRecvObj(trailer, TRUE)
     \/ trailer \notin active /\ UNCHANGED groupVars
  /\ trailer' = None
  /\ recv' = "recreating"
  /\ UNCHANGED <<attemptVars, uploadVars, receiving, received, lost, breaks, remoteVars,
                 session, uploaded, inFlight, interrupting>>

RecreateReceiveStream ==
  /\ RecvAt("recreating")
  /\ interrupting["recv"] = <<>>
  /\ recv' = "listening"
  /\ UNCHANGED <<attemptVars, groupVars, uploadVars, receiving, received, lost, breaks,
                 remoteVars, serverVars, interrupting>>

\* The stream can't be opened again, or the server does not know this client.
ReceivingGivenUp ==
  /\ \/ RecvAt("recreating") /\ interrupting["recv"] = <<>>
     \/ RecvAt("listening") /\ ~isCleared
  /\ OnRemoteBecameUnavailable("recv")
  /\ recv' = "quitting"
  /\ lost' = lost \cup inFlight
  /\ inFlight' = {}
  /\ trailer' = None
  /\ UNCHANGED <<attemptVars, groupVars, uploadVars, receiving, received, breaks,
                 isCleared, session, uploaded, interrupting>>

QuitReceiving ==
  /\ \/ RecvAt("listening") /\ isCleared
     \/ RecvAt("quitting") /\ HasTold("recv")
  /\ recv' = "quit"
  /\ lost' = lost \cup inFlight
  /\ inFlight' = {}
  /\ trailer' = None
  /\ UNCHANGED <<attemptVars, groupVars, uploadVars, receiving, received, breaks,
                 remoteVars, session, uploaded, interrupting>>

\* reconnectUnavailableRemotes, run by any retry: old.Clear()
Clear ==
  /\ Running
  /\ isUnavailable
  /\ ~isCleared
  /\ isCleared' = TRUE
  /\ UNCHANGED <<attemptVars, groupVars, uploadVars, recvVars, isUnavailable, marking,
                 serverVars, interrupting>>

-----------------------------------------------------------------------------
(* The server, as far as the daemon can tell                               *)

HasReply(i) == Running /\ session[i] = "open" /\ uploaded[i] = nFiles[i]

ServerReplies(i) ==
  /\ HasReply(i)
  /\ recv \in {"listening", "saving"}
  /\ trailer = None
  /\ session' = [session EXCEPT ![i] = "over"]
  /\ inFlight' = inFlight \cup {i}
  /\ UNCHANGED <<attemptVars, groupVars, uploadVars, recvVars, remoteVars, uploaded,
                 trailer, interrupting>>

\* The compiler was killed there, or notes of a coverage compilation are bad.
ServerEndsStream(i) ==
  /\ HasReply(i)
  /\ recv \in {"listening", "saving"}
  /\ trailer = None
  /\ session' = [session EXCEPT ![i] = "over"]
  /\ trailer' = i
  /\ UNCHANGED <<attemptVars, groupVars, uploadVars, recvVars, remoteVars, uploaded,
                 inFlight, interrupting>>

\* It has not noticed yet that an earlier stream broke, and sends into that.
ServerSendsIntoBroken(i) ==
  /\ HasReply(i)
  /\ breaks > 0
  /\ session' = [session EXCEPT ![i] = "over"]
  /\ UNCHANGED <<attemptVars, groupVars, uploadVars, recvVars, remoteVars, uploaded,
                 inFlight, trailer, interrupting>>

-----------------------------------------------------------------------------
Attempt(i) ==
  \/ Choose(i) \/ AddRecv(i) \/ IncludesCollected(i) \/ SessionNotStarted(i)
  \/ StartCompilationSession(i)
  \/ CheckAvailable(i) \/ SetWaitUploads(i) \/ AddUploads(i)
  \/ StartUploadingFile(i) \/ WaitUploads(i) \/ WaitForCompiledObj(i)

Uploading ==
  \/ TakeRequest \/ UploadSucceeds \/ UploadFails \/ UploadUnauthenticated
  \/ UploadOfCleared \/ RecreateUploadStream \/ UploadStreamNotRecreated
  \/ ReportUploadGivenUp \/ QuitUploading
  \/ \E i \in Attempts : ReportUploadFailed(i)

Receiving ==
  \/ \E i \in Attempts : DiscardReply(i) \/ ReceiveFirstChunk(i)
  \/ ObjReceived \/ ObjNotUsable \/ ObjCutShort \/ RecvBreaks \/ OnRecvStreamBroke
  \/ StreamEndedByServer \/ RecreateReceiveStream \/ ReceivingGivenUp \/ QuitReceiving

Server ==
  \E i \in Attempts :
    ServerReplies(i) \/ ServerEndsStream(i) \/ ServerSendsIntoBroken(i)

Interrupting(p) == InterruptInvocations(p) \/ DrainUpload(p) \/ EndInterrupt(p)

Next ==
  \/ \E i \in Attempts : Attempt(i) \/ Register(i) \/ Unregister(i)
  \/ \E p \in Interrupters : Interrupting(p)
  \/ \E late \in SUBSET active : Tick(late)
  \/ Uploading \/ Receiving \/ Clear \/ Server

Spec == Init /\ [][Next]_vars

(***************************************************************************)
(* Goroutines run, sync.RWMutex lets a writer in before new readers, calls *)
(* return (keepalive ends those of a dead connection) and the ticker finds *)
(* every attempt late some day.  Nothing is assumed of the server.         *)
(***************************************************************************)
FairSpec ==
  /\ Spec
  /\ \A i \in Attempts : /\ WF_vars(Attempt(i))
                         /\ SF_vars(Register(i)) /\ SF_vars(Unregister(i))
                         /\ WF_vars(ReportUploadFailed(i))
  /\ \A p \in Interrupters : WF_vars(Interrupting(p))
  /\ WF_vars(Tick(active))
  /\ WF_vars(Uploading)

-----------------------------------------------------------------------------
InQueue(i) == Cardinality({k \in DOMAIN chanToUpload : chanToUpload[k] = i})

InHand(i) == IF uploading = i THEN 1 ELSE 0

Owed(i) ==
  (IF pc[i] \in {"counted", "queueing"} THEN nFiles[i] - queued[i] ELSE 0)
    + InQueue(i) + InHand(i) + reporting[i]

(***************************************************************************)
(* While the remote is available, whatever an attempt waits to be uploaded *)
(* is about to be queued, in the queue, in hand of the goroutine that      *)
(* uploads, or of an earlier one that has to report its failure: no        *)
(* failure leaves the attempt waiting for a call of DoneUploadFile which   *)
(* nobody will make.                                                       *)
(***************************************************************************)
UploadsAreOwed ==
  ~isUnavailable /\ Running => \A i \in Attempts : waitUploads[i] <= Owed(i)

(***************************************************************************)
(* An attempt is taken as compiled only if its reply was received to the   *)
(* end after all its files had got to the server; an interrupt at any step *)
(* of the attempt makes it fail instead.                                   *)
(***************************************************************************)
CompiledOnlyIfReceived ==
  \A i \in Attempts :
    result[i] = "replied" => i \in received /\ uploaded[i] = nFiles[i]

(***************************************************************************)
(* When a broken stream of .o files is open again, every attempt whose .o  *)
(* was lost with it has failed by itself or is released with an error, and *)
(* none waits for a reply the server will not send again.                  *)
(***************************************************************************)
LostObjFailsItsAttempt ==
  recv = "listening" /\ Running =>
    \A i \in lost : result[i] = "failed" \/ (err[i] /\ wgRecv[i] = 0)

(***************************************************************************)
(* Every registered attempt ends, whatever becomes of the streams and the  *)
(* server, so that nocc's caller gets an answer.                           *)
(***************************************************************************)
EveryAttemptEnds ==
  \A i \in Attempts : i \in active ~> pc[i] = "ended" \/ ~Running

(***************************************************************************)
(* invocation.go:337: DoneUploadFile and ForceInterrupt "never let the two *)
(* together release wgUpload more times than it was added".                *)
(***************************************************************************)
UploadsNeverOverReleased == panicked # "upload"

(***************************************************************************)
(* remote-connection.go:158: "nobody may be reading the upload queue of a  *)
(* dead remote; don't wait on it".                                         *)
(***************************************************************************)
DeadQueueNotAwaited ==
  \A i \in Attempts :
    pc[i] = "queueing" /\ isUnavailable ~> pc[i] = "ended" \/ ~Running

=============================================================================
