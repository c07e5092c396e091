---------------------------- MODULE ObjDelivery -----------------------------
(***************************************************************************)
(* How nocc-server compiles the sessions of a client that are ready, and   *)
(* how their .o files get to that client.                                  *)
(*                                                                         *)
(* LaunchCxxWhenPossible compiles a few sessions at a time and pushes each *)
(* to chanReadySessions, which blocks when it is full.  A goroutine of     *)
(* RecvCompiledObjStream, one per stream the client has opened, takes the  *)
(* sessions off again and sends their .o.  The client reads one stream at  *)
(* a time; when it gives one up, the goroutine of that stream goes on      *)
(* until it notices, beside the one of the next stream.                    *)
(*                                                                         *)
(* The client is modelled as far as it makes the difference: it fails all  *)
(* that it waits for when its stream breaks, and a single session when the *)
(* server ended the stream and named it.                                   *)
(***************************************************************************)
EXTENDS Naturals, Sequences, FiniteSets

CONSTANTS
  Sessions,       \* sessions of the client, all their files uploaded
  MaxStreams,     \* bound: streams the client opens
  ReadyCap,       \* capacity of chanReadySessions
  MaxParallel,    \* capacity of serverCxxThrottle
  NoticesAtOnce,  \* whether a cancelled stream ends on the server before
                  \* anything the client sends later arrives
  None            \* "no session"

Streams == 1 .. MaxStreams

ASSUME ObjDeliveryAssumption ==
  /\ None \notin Sessions
  /\ MaxStreams \in Nat \ {0}
  /\ ReadyCap \in Nat \ {0}
  /\ MaxParallel \in Nat \ {0}
  /\ NoticesAtOnce \in BOOLEAN

VARIABLES
  stage,        \* what has become of the compilation of a session
  outcome,      \* what it resulted in
  registered,   \* client.sessions
  objExists,    \* sessions with an .o on the server's disk
  pushing,      \* goroutines that push a session to chanReadySessions
  ready,        \* chanReadySessions
  disconnected, \* client.chanDisconnected is closed
  stream,       \* stage of RecvCompiledObjStream for a stream
  held,         \* the session it has taken
  ctxDone,      \* stream.Context() is done
  trailer,      \* the session named in the trailer
  inTransit,    \* sessions sent over a stream, not read by the client yet
  current,      \* the stream that the client has opened last
  reading,      \* whether it still reads it
  awaited       \* sessions the client waits for

compileVars == <<stage, outcome>>
sessionVars == <<registered, objExists>>
queueVars == <<pushing, ready>>
streamVars == <<stream, held, ctxDone, trailer, inTransit>>
clientVars == <<current, reading, awaited>>
vars == <<compileVars, sessionVars, queueVars, disconnected, streamVars, clientVars>>

CompileStages == {"new", "queued", "compiling", "over"}
StreamStages == {"unopened", "select", "taken", "sending", "ended"}
Outcomes == {"none", "obj", "killed"}   \* a compile error is sent as an .o is

TypeOK ==
  /\ stage \in [Sessions -> CompileStages]
  /\ outcome \in [Sessions -> Outcomes]
  /\ registered \subseteq Sessions /\ objExists \subseteq Sessions
  /\ pushing \in [Sessions -> Nat]
  /\ ready \in Seq(Sessions) /\ Len(ready) <= ReadyCap
  /\ disconnected \in BOOLEAN
  /\ stream \in [Streams -> StreamStages]
  /\ held \in [Streams -> Sessions \cup {None}]
  /\ \A r \in Streams : held[r] # None <=> stream[r] \in {"taken", "sending"}
  /\ ctxDone \in [Streams -> BOOLEAN]
  /\ trailer \in [Streams -> Sessions \cup {None}]
  /\ inTransit \in [Streams -> SUBSET Sessions]
  /\ current \in Streams
  /\ reading \in BOOLEAN
  /\ awaited \subseteq Sessions

\* The client has opened its first stream; it does so as it starts.
Init ==
  /\ stage = [s \in Sessions |-> "new"]
  /\ outcome = [s \in Sessions |-> "none"]
  /\ registered = {} /\ objExists = {}
  /\ pushing = [s \in Sessions |-> 0]
  /\ ready = <<>>
  /\ disconnected = FALSE
  /\ stream = [r \in Streams |-> IF r = 1 THEN "select" ELSE "unopened"]
  /\ held = [r \in Streams |-> None]
  /\ ctxDone = [r \in Streams |-> FALSE]
  /\ trailer = [r \in Streams |-> None]
  /\ inTransit = [r \in Streams |-> {}]
  /\ current = 1
  /\ reading = TRUE
  /\ awaited = {}

-----------------------------------------------------------------------------
(* Compilations                                                            *)

PushLater(s) == pushing' = [pushing EXCEPT ![s] = @ + 1]

\* The .o is in the obj cache: the handler itself pushes the session.
FromObjCache(s) ==
  /\ stage[s] = "new"
  /\ stage' = [stage EXCEPT ![s] = "over"]
  /\ outcome' = [outcome EXCEPT ![s] = "obj"]
  /\ registered' = registered \cup {s}
  /\ objExists' = objExists \cup {s}
  /\ awaited' = awaited \cup {s}
  /\ PushLater(s)
  /\ UNCHANGED <<ready, disconnected, streamVars, current, reading>>

\* SessionUploads shows how a session gets here.
LaunchCxxWhenPossible(s) ==
  /\ stage[s] = "new"
  /\ stage' = [stage EXCEPT ![s] = "queued"]
  /\ registered' = registered \cup {s}
  /\ awaited' = awaited \cup {s}
  /\ UNCHANGED <<outcome, objExists, queueVars, disconnected, streamVars, current, reading>>

EnterThrottle(s) ==
  /\ stage[s] = "queued"
  /\ Cardinality({t \in Sessions : stage[t] = "compiling"}) < MaxParallel
  /\ stage' = [stage EXCEPT ![s] = "compiling"]
  /\ UNCHANGED <<outcome, sessionVars, queueVars, disconnected, streamVars, clientVars>>

\* Mutant of CompilerEnds: it leaves the throttle after the push.
CompilerEndsWithPush(s) ==
  /\ stage[s] = "compiling"
  /\ \E result \in Outcomes \ {"none"} :
       /\ outcome' = [outcome EXCEPT ![s] = result]
       /\ objExists' = IF result = "obj" THEN objExists \cup {s} ELSE objExists
  /\ Len(ready) < ReadyCap
  /\ ready' = Append(ready, s)
  /\ stage' = [stage EXCEPT ![s] = "over"]
  /\ UNCHANGED <<registered, pushing, disconnected, streamVars, clientVars>>

\* The throttle is left before the push, and the push may block.
CompilerEnds(s) ==
  /\ stage[s] = "compiling"
  /\ \E result \in Outcomes \ {"none"} :
       /\ outcome' = [outcome EXCEPT ![s] = result]
       /\ objExists' = IF result = "obj" THEN objExists \cup {s} ELSE objExists
  /\ stage' = [stage EXCEPT ![s] = "over"]
  /\ PushLater(s)
  /\ UNCHANGED <<registered, ready, disconnected, streamVars, clientVars>>

PushToClientReadyChannel(s) ==
  /\ pushing[s] > 0
  /\ \/ Len(ready) < ReadyCap /\ ready' = Append(ready, s)
     \/ disconnected /\ UNCHANGED ready
  /\ pushing' = [pushing EXCEPT ![s] = @ - 1]
  /\ UNCHANGED <<compileVars, sessionVars, disconnected, streamVars, clientVars>>

-----------------------------------------------------------------------------
(* RecvCompiledObjStream                                                   *)

\* The handler returns; sessionID is what it sets in the trailer, which gets
\* to the client only if the stream is alive.
EndStream(r, sessionID) ==
  /\ stream' = [stream EXCEPT ![r] = "ended"]
  /\ held' = [held EXCEPT ![r] = None]
  /\ trailer' = [trailer EXCEPT ![r] = IF ctxDone[r] THEN None ELSE sessionID]

CloseSession(s) ==
  /\ registered' = registered \ {s}
  /\ objExists' = objExists \ {s}

\* The `select' with nothing to send.
SelectEnds(r) ==
  /\ stream[r] = "select"
  /\ disconnected \/ ctxDone[r]
  /\ EndStream(r, None)
  /\ UNCHANGED <<compileVars, sessionVars, queueVars, disconnected, ctxDone, inTransit,
                 clientVars>>

\* `select' picks at random, so a stream which is done may take one, too.
TakeReadySession(r) ==
  /\ stream[r] = "select"
  /\ ready # <<>>
  /\ held' = [held EXCEPT ![r] = Head(ready)]
  /\ ready' = Tail(ready)
  /\ stream' = [stream EXCEPT ![r] = "taken"]
  /\ UNCHANGED <<compileVars, sessionVars, pushing, disconnected, ctxDone, trailer,
                 inTransit, clientVars>>

\* Mutant of GiveBack: the session is dropped.
EndWithoutGiveBack(r) ==
  /\ stream[r] = "taken" /\ ctxDone[r]
  /\ EndStream(r, None)
  /\ UNCHANGED <<compileVars, sessionVars, queueVars, disconnected, ctxDone,
                 inTransit, clientVars>>

\* Mutant of GiveBack: the handler goes on with the session.
GiveBackAndGoOn(r) ==
  /\ stream[r] = "taken" /\ ctxDone[r]
  /\ PushLater(held[r])
  /\ stream' = [stream EXCEPT ![r] = "sending"]
  /\ UNCHANGED <<compileVars, sessionVars, ready, disconnected, held, ctxDone, trailer,
                 inTransit, clientVars>>

GiveBack(r) ==
  /\ stream[r] = "taken" /\ ctxDone[r]
  /\ PushLater(held[r])
  /\ EndStream(r, None)
  /\ UNCHANGED <<compileVars, sessionVars, ready, disconnected, ctxDone, inTransit,
                 clientVars>>

\* The compiler was killed, or the .gcno is bad: the client tries it again.
FailSession(r) ==
  /\ stream[r] = "taken" /\ ~ctxDone[r]
  /\ outcome[held[r]] = "killed"
  /\ CloseSession(held[r])
  /\ EndStream(r, held[r])
  /\ UNCHANGED <<compileVars, queueVars, disconnected, ctxDone, inTransit, clientVars>>

StartSending(r) ==
  /\ stream[r] = "taken" /\ ~ctxDone[r]
  /\ outcome[held[r]] # "killed"
  /\ stream' = [stream EXCEPT ![r] = "sending"]
  /\ UNCHANGED <<compileVars, sessionVars, queueVars, disconnected, held, ctxDone, trailer,
                 inTransit, clientVars>>

\* Send only queues into the transport: what the client has stopped reading
\* counts as sent.
SendSucceeds(r) ==
  /\ stream[r] = "sending" /\ ~ctxDone[r]
  /\ inTransit' = [inTransit EXCEPT ![r] = @ \cup {held[r]}]
  /\ CloseSession(held[r])
  /\ held' = [held EXCEPT ![r] = None]
  /\ stream' = [stream EXCEPT ![r] = "select"]
  /\ UNCHANGED <<compileVars, queueVars, disconnected, ctxDone, trailer, clientVars>>

\* The stream died under it, and the next one sends the session again; or the
\* .o can't be read, which leaves the session as it is.
SendFails(r) ==
  /\ stream[r] = "sending"
  /\ IF ctxDone[r] THEN PushLater(held[r]) ELSE UNCHANGED pushing
  /\ EndStream(r, held[r])
  /\ UNCHANGED <<compileVars, sessionVars, ready, disconnected, ctxDone, inTransit,
                 clientVars>>

\* The transport died, or the client cancelled the stream.
ServerNotices(r) ==
  /\ stream[r] \in {"select", "taken", "sending"}
  /\ ~ctxDone[r]
  /\ ctxDone' = [ctxDone EXCEPT ![r] = TRUE]
  /\ UNCHANGED <<compileVars, sessionVars, queueVars, disconnected, stream, held, trailer,
                 inTransit, clientVars>>

\* DeleteClient closes chanDisconnected.
Disconnect ==
  /\ ~disconnected
  /\ disconnected' = TRUE
  /\ UNCHANGED <<compileVars, sessionVars, queueVars, streamVars, clientVars>>

-----------------------------------------------------------------------------
(* The client: FilesReceiving                                              *)

ClientReceives(s) ==
  /\ reading /\ s \in inTransit[current]
  /\ inTransit' = [inTransit EXCEPT ![current] = @ \ {s}]
  /\ awaited' = awaited \ {s}
  /\ UNCHANGED <<compileVars, sessionVars, queueVars, disconnected, stream, held, ctxDone,
                 trailer, current, reading>>

\* The trailer comes after all that was sent: the client fails one session.
ClientReadsTrailer ==
  /\ reading /\ trailer[current] # None /\ inTransit[current] = {}
  /\ awaited' = awaited \ {trailer[current]}
  /\ reading' = FALSE
  /\ UNCHANGED <<compileVars, sessionVars, queueVars, disconnected, streamVars, current>>

\* The stream broke under the transport: what was in it is lost, and the
\* client fails all that it waits for.
ClientGivesUp ==
  /\ reading
  /\ awaited' = {}
  /\ reading' = FALSE
  /\ inTransit' = [inTransit EXCEPT ![current] = {}]
  /\ ctxDone' = [ctxDone EXCEPT ![current] = @ \/ NoticesAtOnce]
  /\ UNCHANGED <<compileVars, sessionVars, queueVars, disconnected, stream, held, trailer,
                 current>>

RecreateReceiveStream ==
  /\ ~reading /\ current < MaxStreams
  /\ ~disconnected
  /\ current' = current + 1
  /\ reading' = TRUE
  /\ stream' = [stream EXCEPT ![current'] = "select"]
  /\ UNCHANGED <<compileVars, sessionVars, queueVars, disconnected, held, ctxDone, trailer,
                 inTransit, awaited>>

-----------------------------------------------------------------------------
Compilation(s) == EnterThrottle(s) \/ CompilerEnds(s)

Stream(r) ==
  \/ SelectEnds(r) \/ TakeReadySession(r) \/ GiveBack(r) \/ FailSession(r)
  \/ StartSending(r) \/ SendSucceeds(r) \/ SendFails(r) \/ ServerNotices(r)

Client ==
  \/ \E s \in Sessions : ClientReceives(s)
  \/ ClientReadsTrailer \/ ClientGivesUp \/ RecreateReceiveStream

Next ==
  \/ \E s \in Sessions : \/ FromObjCache(s) \/ LaunchCxxWhenPossible(s)
                         \/ Compilation(s) \/ PushToClientReadyChannel(s)
  \/ \E r \in Streams : Stream(r)
  \/ Client
  \/ Disconnect

Spec == Init /\ [][Next]_vars

\* Compilers end.  The client need not read its stream.
FairSpec == Spec /\ \A s \in Sessions : WF_vars(Compilation(s))

-----------------------------------------------------------------------------
(* Properties                                                              *)

Count(s) ==
  pushing[s] + Cardinality({i \in DOMAIN ready : ready[i] = s})
             + Cardinality({r \in Streams : held[r] = s})

(***************************************************************************)
(* A compiled session is with one goroutine or in the queue, never in two  *)
(* places: it is sent once, and as long as it is to be sent its session is *)
(* open and its .o on the disk, although streams give sessions back while  *)
(* others take them.                                                       *)
(***************************************************************************)
ReadySessionIsSentOnce ==
  \A s \in Sessions :
    /\ Count(s) <= 1
    /\ Count(s) = 1 => /\ s \in registered
                       /\ outcome[s] = "obj" => s \in objExists

(***************************************************************************)
(* obj-stream_test.go:117: "the old stream must not take ready sessions: a *)
(* .o sent there never reaches the client".  What the client waits for is  *)
(* being compiled, on its way to a stream, in the stream that the client   *)
(* reads, or named in the trailer of that.                                 *)
(***************************************************************************)
AwaitedObjArrives ==
  disconnected \/ \A s \in awaited :
    \/ stage[s] \in {"queued", "compiling"}
    \/ Count(s) > 0
    \/ reading /\ (s \in inTransit[current] \/ trailer[current] = s)

(***************************************************************************)
(* A client which does not read its .o files holds up nobody's compilation:*)
(* a session waiting for the throttle gets through it even when the queue  *)
(* of ready sessions is full for good.                                     *)
(***************************************************************************)
QueuedIsCompiled ==
  \A s \in Sessions : stage[s] = "queued" ~> stage[s] = "over"

=============================================================================
