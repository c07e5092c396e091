---------------------------- MODULE ObjTransfer -----------------------------
(***************************************************************************)
(* How an .o and its .gcno get from a server to the paths where the build  *)
(* looks for them: chunk by chunk over a stream which many sessions share, *)
(* while writes fail, streams break, and a retry of the same compilation   *)
(* arrives over the stream of another server at the same paths.            *)
(*                                                                         *)
(* A file is the sequence of its bytes, and a byte is known by the attempt *)
(* whose compiler made it.                                                 *)
(***************************************************************************)
EXTENDS Naturals, SequencesExt

CONSTANTS
  Attempts,     \* numbers; a later attempt at a request is a retry of it
  Request,      \* Request[a]: the request it is made for
  Stream,       \* Stream[a]: the receive stream of its remote
  ExitCode,     \* ExitCode[a]: "ok", "error", or "killed" on an old server
  ObjSize,      \* bytes of its .o
  NotesSize,    \* bytes of its .gcno, 0 if the server sends none
  WantsNotes,   \* requests with coverageNotes
  ChunkSize,    \* bytes that a chunk may have
  MaxFailures,  \* bound: writes that fail
  MaxBreaks,    \* bound: streams that break
  MaxInterrupts, \* bound: attempts that are interrupted
  None          \* "no file"

Requests == {Request[a] : a \in Attempts}
Streams == {Stream[a] : a \in Attempts}

Bytes(a, file, size) == [k \in 1 .. size |-> <<a, file, k>>]
Obj(a) == Bytes(a, "obj", ObjSize[a])
Notes(a) == Bytes(a, "notes", NotesSize[a])

ASSUME ObjTransferAssumption ==
  /\ Attempts \subseteq Nat
  /\ ExitCode \in [Attempts -> {"ok", "error", "killed"}]
  /\ ObjSize \in [Attempts -> Nat \ {0}] /\ NotesSize \in [Attempts -> Nat]
  /\ WantsNotes \subseteq Requests
  /\ ChunkSize \in Nat \ {0}
  /\ MaxFailures \in Nat /\ MaxBreaks \in Nat /\ MaxInterrupts \in Nat
  /\ None \notin {Obj(a) : a \in Attempts}

VARIABLES
  result,    \* of an attempt: "unmade", "none" yet, "done", "failed" (the
             \* compiler did), or "error"
  sent,      \* attempts whose session the server has sent
  wire,      \* chunks in a stream, not read yet
  broken,    \* streams that broke, which the client hasn't noticed
  receiving, \* what the goroutine of a stream is about
  obj,       \* the file at the path of the .o of a request
  notes,     \* the file at the path of its .gcno
  failures,  \* writes that failed
  breaks,    \* streams that broke
  interrupts, \* attempts that were interrupted
  saved      \* history: what of an attempt was saved, see NotesSaved

vars ==
  <<result, sent, wire, broken, receiving, obj, notes, failures, breaks, interrupts, saved>>

\* Reads of the server's file, each as much as the buffer takes.
Chopped(bytes) ==
  [k \in 1 .. (Len(bytes) + ChunkSize - 1) \div ChunkSize |->
     SubSeq(bytes, (k - 1) * ChunkSize + 1, Min({k * ChunkSize, Len(bytes)}))]

(***************************************************************************)
(* sendObjFileByChunks: the .o, then the .gcno, no chunk with parts of     *)
(* both.  A compiler that failed makes for one empty chunk.                *)
(***************************************************************************)
Chunks(a) ==
  LET bodies == IF ExitCode[a] = "ok" THEN Chopped(Obj(a)) \o Chopped(Notes(a)) ELSE <<<<>>>>
  IN [k \in DOMAIN bodies |-> [session |-> a, body |-> bodies[k]]]

Idle == [at |-> "idle"]

Init ==
  /\ result = [a \in Attempts |-> "unmade"]
  /\ sent = {}
  /\ wire = [s \in Streams |-> <<>>] /\ broken = {}
  /\ receiving = [s \in Streams |-> Idle]
  /\ obj = [r \in Requests |-> None] /\ notes = [r \in Requests |-> None]
  /\ failures = 0 /\ breaks = 0 /\ interrupts = 0
  /\ saved = [a \in Attempts |-> "none"]

-----------------------------------------------------------------------------
\* The attempts that FindBySessionID finds.
Active == {a \in Attempts : result[a] = "none"}

Siblings(a) == {b \in Attempts : Request[b] = Request[a]}

StartAttempt(a) ==
  /\ result[a] = "unmade"
  /\ \A b \in Siblings(a) : b < a => result[b] = "error"
  /\ result' = [result EXCEPT ![a] = "none"]
  /\ UNCHANGED <<sent, wire, broken, receiving, obj, notes, failures, breaks, interrupts, saved>>

\* By its timeout, for instance; its transfer goes on.
ForceInterrupt(a) ==
  /\ a \in Active /\ interrupts < MaxInterrupts
  /\ interrupts' = interrupts + 1
  /\ result' = [result EXCEPT ![a] = "error"]
  /\ UNCHANGED <<sent, wire, broken, receiving, obj, notes, failures, breaks, saved>>

\* Into a broken stream it sends in vain (ObjDelivery is about that).
ServerSends(a) ==
  /\ result[a] # "unmade" /\ a \notin sent
  /\ sent' = sent \cup {a}
  /\ wire' = IF Stream[a] \in broken THEN wire
             ELSE [wire EXCEPT ![Stream[a]] = @ \o Chunks(a)]
  /\ UNCHANGED <<result, broken, receiving, obj, notes, failures, breaks, interrupts, saved>>

\* All that comes after some chunk is lost.
StreamBreaks(s) ==
  /\ breaks < MaxBreaks /\ s \notin broken
  /\ breaks' = breaks + 1
  /\ broken' = broken \cup {s}
  /\ \E n \in 0 .. Len(wire[s]) : wire' = [wire EXCEPT ![s] = SubSeq(@, 1, n)]
  /\ UNCHANGED <<result, sent, receiving, obj, notes, failures, interrupts, saved>>

-----------------------------------------------------------------------------
\* DoneRecvObj, where the first of it and an interrupt counts.
WithResult(a, value) == IF a \in Active THEN [result EXCEPT ![a] = value] ELSE result

\* RecreateReceiveStreamOrQuit fails all that may be lost with the stream.
Recreated(s, results) ==
  [a \in Attempts |-> IF results[a] = "none" /\ Stream[a] = s THEN "error" ELSE results[a]]

ReplaceStream(s) ==
  /\ wire' = [wire EXCEPT ![s] = <<>>]
  /\ broken' = broken \ {s}
  /\ receiving' = [receiving EXCEPT ![s] = Idle]

\* A write ends well or, so often, not.
WriteOutcomes == IF failures < MaxFailures THEN {TRUE, FALSE} ELSE {TRUE}
CountWrite(succeeds) == failures' = failures + (IF succeeds THEN 0 ELSE 1)

Read(s) == wire' = [wire EXCEPT ![s] = Tail(@)]
Go(s, transfer) == receiving' = [receiving EXCEPT ![s] = transfer]

\* Mutant of MoreToRead: there is no use in reading what can't be written.
MoreToWrite(t) == ~ t.errWrite /\ t.received < ObjSize[t.session] + NotesSize[t.session]

MoreToRead(t) == t.received < ObjSize[t.session] + NotesSize[t.session]

(***************************************************************************)
(* The closure `write' of receiveObjFileByChunks: what the .o still lacks  *)
(* goes to its temporary file, the rest is kept for the .gcno.  It counts  *)
(* bytes also when it can't write them any more.                           *)
(***************************************************************************)
Take(t, body, succeeds) ==
  LET n == Min({Len(body), t.objLeft})
      failed == t.errWrite \/ ~ succeeds
  IN [t EXCEPT !.tmp = IF failed THEN @ ELSE @ \o SubSeq(body, 1, n),
               !.notes = @ \o SubSeq(body, n + 1, Len(body)),
               !.objLeft = @ - n,
               !.received = @ + Len(body),
               !.errWrite = failed]

\* known: the invocation was found; else it goes to /tmp/nocc-dev-null.
NewTransfer(a, at) ==
  [at |-> at, session |-> a, known |-> a \in Active, received |-> 0, objLeft |-> ObjSize[a],
   tmp |-> <<>>, notes |-> <<>>, errWrite |-> FALSE, errRecv |-> FALSE]

-----------------------------------------------------------------------------
FirstChunkOf(s, a) ==
  /\ receiving[s] = Idle
  /\ wire[s] # <<>> /\ Head(wire[s]).session = a
  /\ Read(s)

ReceiveFailure(s, a) ==
  /\ FirstChunkOf(s, a)
  /\ ExitCode[a] # "ok"
  /\ result' = WithResult(a, IF ExitCode[a] = "killed" THEN "error" ELSE "failed")
  /\ UNCHANGED <<sent, broken, receiving, obj, notes, failures, breaks, interrupts, saved>>

IsWhole(a, body) == Len(body) >= ObjSize[a] + NotesSize[a] /\ NotesSize[a] = 0

\* os.WriteFile empties the file that is there and fills it.
ReceiveAtOnce(s, a) ==
  /\ FirstChunkOf(s, a)
  /\ ExitCode[a] = "ok" /\ IsWhole(a, Head(wire[s]).body)
  /\ Go(s, [NewTransfer(a, "write") EXCEPT !.tmp = Head(wire[s]).body])
  /\ obj' = IF a \in Active THEN [obj EXCEPT ![Request[a]] = <<>>] ELSE obj
  /\ UNCHANGED <<result, sent, broken, notes, failures, breaks, interrupts, saved>>

EndWriteFile(s) ==
  /\ receiving[s].at = "write"
  /\ \E succeeds \in WriteOutcomes :
       /\ CountWrite(succeeds)
       /\ obj' = IF succeeds /\ receiving[s].known
                 THEN [obj EXCEPT ![Request[receiving[s].session]] = receiving[s].tmp] ELSE obj
       /\ Go(s, [receiving[s] EXCEPT !.at = "end", !.errWrite = ~ succeeds])
  /\ UNCHANGED <<result, sent, wire, broken, notes, breaks, interrupts, saved>>

\* A temporary file that can't be opened counts as a write that fails.
ReceiveFirst(s, a) ==
  /\ FirstChunkOf(s, a)
  /\ ExitCode[a] = "ok" /\ ~ IsWhole(a, Head(wire[s]).body)
  /\ \E succeeds \in WriteOutcomes :
       /\ CountWrite(succeeds)
       /\ Go(s, Take(NewTransfer(a, "chunks"), Head(wire[s]).body, succeeds))
  /\ UNCHANGED <<result, sent, broken, obj, notes, breaks, interrupts, saved>>

\* A chunk of another session would end the transfer, but none comes
\* (StreamStaysInStep).
ReceiveNext(s) ==
  /\ receiving[s].at = "chunks" /\ MoreToRead(receiving[s])
  /\ wire[s] # <<>> /\ Head(wire[s]).session = receiving[s].session
  /\ \E succeeds \in WriteOutcomes :
       /\ receiving[s].errWrite => succeeds
       /\ CountWrite(succeeds)
       /\ Go(s, Take(receiving[s], Head(wire[s]).body, succeeds))
  /\ Read(s)
  /\ UNCHANGED <<result, sent, broken, obj, notes, breaks, interrupts, saved>>

\* The stream is at its end.
ReceiveNothing(s) ==
  /\ receiving[s].at = "chunks" /\ MoreToRead(receiving[s])
  /\ s \in broken /\ wire[s] = <<>>
  /\ Go(s, [receiving[s] EXCEPT !.at = "notes", !.errRecv = TRUE])
  /\ UNCHANGED <<result, sent, wire, broken, obj, notes, failures, breaks, interrupts, saved>>

ReceivedAll(s) ==
  /\ receiving[s].at = "chunks" /\ ~ MoreToRead(receiving[s])
  /\ Go(s, [receiving[s] EXCEPT !.at = "notes"])
  /\ UNCHANGED <<result, sent, wire, broken, obj, notes, failures, breaks, interrupts, saved>>

(***************************************************************************)
(* History, for NotesBeforeObj: of an attempt nothing was saved, or its    *)
(* .gcno, or then also its .o, or another attempt at the request saved a   *)
(* .gcno before the .o of this one could follow its own.                   *)
(***************************************************************************)
NotesSaved(a) ==
  saved' = [b \in Attempts |->
              IF b = a THEN "notes"
              ELSE IF b \in Siblings(a) /\ saved[b] = "notes" THEN "overtaken" ELSE saved[b]]

ObjSaved(a) ==
  saved' = IF saved[a] = "notes" THEN [saved EXCEPT ![a] = "both"] ELSE saved

ToSave(t) ==
  /\ ~ t.errRecv /\ ~ t.errWrite
  /\ t.known /\ Request[t.session] \in WantsNotes /\ t.notes # <<>>

PutNotes(t) ==
  /\ notes' = [notes EXCEPT ![Request[t.session]] = t.notes]
  /\ NotesSaved(t.session)

\* Mutant of SaveNotes: that it fails has no consequence.
SaveNotesOrNot(s) ==
  /\ receiving[s].at = "notes"
  /\ \E succeeds \in (IF ToSave(receiving[s]) THEN WriteOutcomes ELSE {TRUE}) :
       /\ CountWrite(succeeds)
       /\ IF succeeds /\ ToSave(receiving[s])
          THEN PutNotes(receiving[s]) ELSE UNCHANGED <<notes, saved>>
       /\ Go(s, [receiving[s] EXCEPT !.at = "obj"])
  /\ UNCHANGED <<result, sent, wire, broken, obj, breaks, interrupts>>

SaveNotes(s) ==
  /\ receiving[s].at = "notes"
  /\ \E succeeds \in (IF ToSave(receiving[s]) THEN WriteOutcomes ELSE {TRUE}) :
       /\ CountWrite(succeeds)
       /\ IF succeeds /\ ToSave(receiving[s])
          THEN PutNotes(receiving[s]) ELSE UNCHANGED <<notes, saved>>
       /\ Go(s, [receiving[s] EXCEPT !.at = "obj", !.errWrite = @ \/ ~ succeeds])
  /\ UNCHANGED <<result, sent, wire, broken, obj, breaks, interrupts>>

\* Mutant of MayRename: what has been received is taken for the .o.
MayRenameUnchecked(t) == ~ t.errWrite

MayRename(t) == ~ t.errWrite /\ ~ t.errRecv

PutObj(t) ==
  /\ obj' = [obj EXCEPT ![Request[t.session]] = t.tmp]
  /\ ObjSaved(t.session)

SaveObj(s) ==
  /\ receiving[s].at = "obj"
  /\ \E succeeds \in (IF MayRename(receiving[s]) THEN WriteOutcomes ELSE {TRUE}) :
       /\ CountWrite(succeeds)
       /\ IF succeeds /\ MayRename(receiving[s]) /\ receiving[s].known
          THEN PutObj(receiving[s]) ELSE UNCHANGED <<obj, saved>>
       /\ Go(s, [receiving[s] EXCEPT !.at = "end", !.errWrite = @ \/ ~ succeeds])
  /\ UNCHANGED <<result, sent, wire, broken, notes, breaks, interrupts>>

(***************************************************************************)
(* The rest of the loop of monitorRemoteStreamForObjReceiving, when the    *)
(* invocation was found.  An .o without the .gcno that belongs to it is    *)
(* removed again.                                                          *)
(***************************************************************************)
EndTransfer(s) ==
  LET t == receiving[s]
      err == t.errWrite \/ t.errRecv
      lacksNotes == Request[t.session] \in WantsNotes /\ NotesSize[t.session] = 0
      results == WithResult(t.session, IF err \/ lacksNotes THEN "error" ELSE "done")
  IN /\ t.at = "end" /\ t.known
     /\ obj' = IF ~ err /\ lacksNotes THEN [obj EXCEPT ![Request[t.session]] = None] ELSE obj
     /\ IF t.errRecv
        THEN result' = Recreated(s, results) /\ ReplaceStream(s)
        ELSE result' = results /\ Go(s, Idle) /\ UNCHANGED <<wire, broken>>
     /\ UNCHANGED <<sent, notes, failures, breaks, interrupts, saved>>

\* A transfer to /tmp/nocc-dev-null makes a new stream after any error.
EndUnknownTransfer(s) ==
  /\ receiving[s].at = "end" /\ ~ receiving[s].known
  /\ IF receiving[s].errRecv \/ receiving[s].errWrite
     THEN result' = Recreated(s, result) /\ ReplaceStream(s)
     ELSE Go(s, Idle) /\ UNCHANGED <<result, wire, broken>>
  /\ UNCHANGED <<sent, obj, notes, failures, breaks, interrupts, saved>>

\* The stream breaks between two sessions.
RecreateStream(s) ==
  /\ receiving[s] = Idle
  /\ s \in broken /\ wire[s] = <<>>
  /\ result' = Recreated(s, result)
  /\ ReplaceStream(s)
  /\ UNCHANGED <<sent, obj, notes, failures, breaks, interrupts, saved>>

-----------------------------------------------------------------------------
Receive(s) ==
  \/ \E a \in Attempts : ReceiveFailure(s, a) \/ ReceiveAtOnce(s, a) \/ ReceiveFirst(s, a)
  \/ EndWriteFile(s) \/ ReceiveNext(s) \/ ReceiveNothing(s) \/ ReceivedAll(s)
  \/ SaveNotes(s) \/ SaveObj(s) \/ EndTransfer(s) \/ EndUnknownTransfer(s) \/ RecreateStream(s)

Next ==
  \/ \E a \in Attempts : StartAttempt(a) \/ ForceInterrupt(a) \/ ServerSends(a)
  \/ \E s \in Streams : StreamBreaks(s) \/ Receive(s)

Spec == Init /\ [][Next]_vars

-----------------------------------------------------------------------------
(***************************************************************************)
(* "The .gcno before the .o: a build that sees the .o takes the            *)
(* compilation as done" (files-receiving.go:217), and the two "must come   *)
(* from one compilation" (docs/architecture.md:288, nocc-server.go:144).   *)
(* Wherever there is the .o of an attempt whose server has sent its .gcno, *)
(* there is the .gcno of the same attempt.                                 *)
(*                                                                         *)
(* The code replaces the one file and then the other, so it doesn't hold   *)
(* when two attempts at a request are saved at a time.  Excepted is an .o  *)
(* which came after another attempt had saved a .gcno over that of its     *)
(* own, and a .gcno whose attempt has yet to save its .o or could not.     *)
(***************************************************************************)
NotesBeforeObj ==
  \A a \in Attempts :
    Request[a] \in WantsNotes /\ NotesSize[a] > 0 /\ obj[Request[a]] = Obj(a)
      => \/ notes[Request[a]] = Notes(a)
         \/ saved[a] = "overtaken"
         \/ \E b \in Siblings(a) \ {a} : saved[b] = "notes" /\ notes[Request[a]] = Notes(b)

(***************************************************************************)
(* What has been answered as compiled has a whole .o on the disk and keeps *)
(* it, although the transfer of an attempt that timed out goes on beside   *)
(* the retry.  Only a late .o that fits one chunk is not saved through a   *)
(* temporary file, and one that lacks its .gcno is removed after it was    *)
(* saved over the other.                                                   *)
(***************************************************************************)
Endangers(b) ==
  /\ b \in sent /\ NotesSize[b] = 0
  /\ ObjSize[b] <= ChunkSize \/ Request[b] \in WantsNotes

DoneIsWhole ==
  \A a \in Attempts : result[a] = "done" =>
    \/ obj[Request[a]] \in {Obj(b) : b \in Siblings(a)}
    \/ \E b \in Siblings(a) \ {a} : Endangers(b)

(***************************************************************************)
(* However a transfer ends, the next chunk of the stream is the first of   *)
(* its session: an .o that can't be written costs no other session its .o. *)
(* Within a transfer no chunk of another session comes.                    *)
(***************************************************************************)
StreamStaysInStep ==
  \A s \in Streams : wire[s] # <<>> =>
    /\ receiving[s] = Idle => Head(wire[s]) = Chunks(Head(wire[s]).session)[1]
    /\ receiving[s].at = "chunks" /\ MoreToRead(receiving[s])
         => Head(wire[s]).session = receiving[s].session

(***************************************************************************)
(* "A `.o` and its `.gcno` must come from one compilation"                 *)
(* (docs/architecture.md:288), without the exceptions of NotesBeforeObj:   *)
(* when one attempt at the request was answered as compiled and none is    *)
(* being received any more.                                                *)
(***************************************************************************)
FromOneCompilation ==
  \A a \in Attempts :
    /\ Request[a] \in WantsNotes /\ NotesSize[a] > 0 /\ obj[Request[a]] = Obj(a)
    /\ \E b \in Siblings(a) : result[b] = "done"
    /\ \A s \in Streams : receiving[s] # Idle => receiving[s].session \notin Siblings(a)
    => notes[Request[a]] = Notes(a)

=============================================================================
