--------------------------- MODULE DaemonRetries ----------------------------
(***************************************************************************)
(* How nocc-daemon serves requests on a pool of servers: the choice of a   *)
(* remote, the retries, the reconnects, the fallback to the local compiler.*)
(*                                                                         *)
(* An attempt itself (RemoteAttempts) is here a step that starts a session *)
(* on a connection and then waits for one of two things, its .o or an      *)
(* interrupt.  A connection is known by its host and a number: a reconnect *)
(* makes a new one, and streams of the old one outlive it for a while.     *)
(***************************************************************************)
EXTENDS Naturals, FiniteSets

CONSTANTS
  Requests,        \* requests of `nocc`, one goroutine each
  NHosts,          \* servers, in the order of NOCC_SERVERS
  Kinds,           \* Kinds[r]: what the command line of a request may be
  StartIndex,      \* StartIndex[r]: hash of the base name of its .cpp
  Refused,         \* Refused[h]: what a server refuses to be
  OldServers,      \* servers that can't do coverage, and say so on StartClient
  RemoteRetries,   \* NOCC_REMOTE_RETRIES
  DisableLocalFallback,
  MaxLocalCxx,     \* size of the local queue, 0 disables the local compiler
  MaxReconnects,   \* bound: connections made to a host after the first
  MaxBreaks,       \* bound: broken streams, an upload stream beside a broken one not counted
  None             \* "no connection"

Hosts == 1 .. NHosts
Connections == Hosts \X (0 .. MaxReconnects)
Streams == {"upload", "receive"}
Names == {"cxx", "coverage"}

ASSUME DaemonRetriesAssumption ==
  /\ NHosts \in Nat \ {0}
  /\ RemoteRetries \in Nat /\ MaxLocalCxx \in Nat
  /\ MaxReconnects \in Nat /\ MaxBreaks \in Nat
  /\ Kinds \in [Requests -> SUBSET {"cpp", "coverage", "pch", "local"}]
  /\ StartIndex \in [Requests -> Hosts]
  /\ Refused \in [Hosts -> SUBSET Names]
  /\ OldServers \subseteq Hosts
  /\ DisableLocalFallback \in BOOLEAN
  /\ None \notin Connections /\ None \notin Requests

VARIABLES
  phase,        \* of the daemon: it starts, serves, or has panicked
  conns,        \* daemon.remoteConnections
  made,         \* how many reconnects a host has seen
  unavailable,  \* connections with isUnavailable
  incapable,    \* incapableCxxNames of the connections
  stream,       \* where the goroutine of a stream of a connection is
  cleared,      \* connections whose grpcClient is cleared
  breaks,       \* how many streams broke so far
  kind,         \* what the command line of a request is
  pc,           \* where the goroutine of a request is
  attempt,      \* number of its attempt
  remote,       \* invocation.remote
  result,       \* of the attempt: invocation.err, or the .o
  noCapable,    \* its error is a noCapableRemoteError
  active,       \* daemon.activeInvocations, by sessionID
  sessions,     \* sessions alive on the servers, whose .o may yet come
  gotFrom,      \* the session whose .o it has got
  reconnectMu,  \* who holds it
  updated,      \* what a reconnect round will install
  next,         \* the host a reconnect round has come to
  localCxx      \* requests inside localCxxThrottle

connVars == <<conns, made, unavailable, incapable, stream, cleared, breaks>>
requestVars == <<kind, pc, attempt, remote, result, noCapable>>
sessionVars == <<active, sessions, gotFrom>>
roundVars == <<reconnectMu, updated, next>>
vars == <<phase, connVars, requestVars, sessionVars, roundVars, localCxx>>

\* Mutant of SessionID: a retry goes on with the parsed command line.
SameSessionID(r) == <<r, 0>>

(***************************************************************************)
(* The sessionID of a request: a retry parses the command line again, and  *)
(* so has one of its own.  A session on a server is known by it, and by    *)
(* the connection and the attempt that started it.                         *)
(***************************************************************************)
SessionID(r) == <<r, attempt[r]>>

SessionOf(r) == [id |-> SessionID(r), conn |-> remote[r], attempt |-> attempt[r]]

Installed == {conns[h] : h \in Hosts} \ {None}

areAllRemotesAvailable == \A h \in Hosts : conns[h] \notin unavailable

CanCompileWithCxx(c, r) ==
  /\ c \notin unavailable
  /\ <<c, "cxx">> \notin incapable
  /\ kind[r] = "coverage" => /\ c[1] \notin OldServers
                             /\ <<c, "coverage">> \notin incapable

RefusalBy(h, r) ==
  IF "cxx" \in Refused[h] THEN "FailedPrecondition"
  ELSE IF kind[r] = "coverage" /\ "coverage" \in Refused[h] THEN "Unimplemented" ELSE "none"

(***************************************************************************)
(* A request may have sent a file to a connection: the server admits it,   *)
(* and an attempt of it has come as far.                                   *)
(***************************************************************************)
MayHaveUploaded(r, c) ==
  /\ kind[r] \in {"cpp", "coverage"} /\ RefusalBy(c[1], r) = "none"
  /\ attempt[r] > 0 \/ pc[r] \in {"wait", "failed", "reconnect", "fallback", "local", "done"}

(***************************************************************************)
(* From the host a file hashes to forward, to the first that can take it.  *)
(***************************************************************************)
Walk(r, offset) == 1 + ((StartIndex[r] - 1 + offset) % NHosts)

ChooseRemote(r) ==
  LET can(offset) == CanCompileWithCxx(conns[Walk(r, offset)], r)
      usable == {offset \in 0 .. NHosts - 1 : can(offset)}
  IN  IF usable = {} THEN None
      ELSE conns[Walk(r, CHOOSE o \in usable : \A p \in usable : o <= p)]

(***************************************************************************)
(* ForceInterrupt: the first of an interrupt and an .o counts.             *)
(***************************************************************************)
Interrupted(rs) ==
  [r \in Requests |-> IF r \in rs /\ result[r] = "none" THEN "error" ELSE result[r]]

OnConnection(c) ==
  {r \in Requests : SessionID(r) \in active /\ remote[r] = c}

NoRound == [h \in Hosts |-> None]

Init ==
  /\ phase = "starting"
  /\ conns = [h \in Hosts |-> None]
  /\ made = [h \in Hosts |-> 0]
  /\ unavailable = {} /\ incapable = {} /\ cleared = {}
  /\ stream = [cs \in Connections \X Streams |-> "none"]
  /\ breaks = 0
  /\ kind \in [Requests -> {"cpp", "coverage", "pch", "local"}]
  /\ \A r \in Requests : kind[r] \in Kinds[r]
  /\ pc = [r \in Requests |-> "idle"]
  /\ attempt = [r \in Requests |-> 0]
  /\ remote = [r \in Requests |-> None]
  /\ result = [r \in Requests |-> "none"]
  /\ noCapable = [r \in Requests |-> FALSE]
  /\ active = {} /\ sessions = {}
  /\ gotFrom = [r \in Requests |-> None]
  /\ reconnectMu = None
  /\ updated = [r \in Requests |-> NoRound]
  /\ next = [r \in Requests |-> 1]
  /\ localCxx = {}

-----------------------------------------------------------------------------
(***************************************************************************)
(* MakeDaemon: all remotes are connected to in parallel, each is entered   *)
(* in remoteConnections when its connection is made or has failed; its     *)
(* streams run from before that.  The daemon serves when all are entered.  *)
(* When only the receive stream can't be opened the connection has failed  *)
(* too, and nothing is ever sent into its upload stream.                   *)
(***************************************************************************)
OpenStreams(c) ==
  stream' = [stream EXCEPT ![<<c, "upload">>] = "live", ![<<c, "receive">>] = "live"]

StartConnecting(h) ==
  /\ phase = "starting"
  /\ conns[h] = None /\ stream[<<<<h, 0>>, "upload">>] = "none"
  /\ OpenStreams(<<h, 0>>)
  /\ UNCHANGED <<phase, conns, made, unavailable, incapable, cleared, breaks,
                 requestVars, sessionVars, roundVars, localCxx>>

EnterConnection(h) ==
  /\ phase = "starting"
  /\ conns[h] = None
  /\ conns' = [conns EXCEPT ![h] = <<h, 0>>]
  /\ unavailable' = IF stream[<<<<h, 0>>, "receive">>] = "none"
                    THEN unavailable \cup {<<h, 0>>} ELSE unavailable
  /\ phase' = IF \A g \in Hosts \ {h} : conns[g] # None
              THEN "serving" ELSE "starting"
  /\ UNCHANGED <<made, incapable, stream, cleared, breaks,
                 requestVars, sessionVars, roundVars, localCxx>>

-----------------------------------------------------------------------------
(***************************************************************************)
(* The stream goroutines of a connection, of which OnRecvStreamBroke and   *)
(* OnRemoteBecameUnavailable look for it in daemon.remoteConnections: they *)
(* panic while that list still has nil entries.                            *)
(***************************************************************************)
PanicOnNil == phase' = IF None \in {conns[h] : h \in Hosts} THEN "panicked" ELSE phase

LoseSessions(c) == \E lost \in SUBSET {s \in sessions : s.conn = c} : sessions' = sessions \ lost

(***************************************************************************)
(* A stream breaks while its connection is not cleared: on a cleared one a *)
(* live stream may only go on for a while.  With the receive stream .o     *)
(* files in it are lost: the attempts on the connection are interrupted,   *)
(* if it is in the list.  The attempt whose file was in the upload stream  *)
(* fails as any other may at any time (InterruptHanged).                   *)
(***************************************************************************)
BreakStream(c, s) ==
  /\ phase # "panicked"
  /\ stream[<<c, s>>] = "live" /\ c \notin cleared
  /\ breaks' = IF s = "upload" /\ stream[<<c, "receive">>] = "broken" THEN breaks ELSE breaks + 1
  /\ breaks' <= MaxBreaks
  /\ stream' = [stream EXCEPT ![<<c, s>>] = "broken"]
  /\ \/ /\ s = "receive"
        /\ LoseSessions(c)
        /\ result' = IF c \in Installed THEN Interrupted(OnConnection(c)) ELSE result
        /\ PanicOnNil
     \/ /\ s = "upload"
        /\ \E r \in Requests : MayHaveUploaded(r, c)
        /\ UNCHANGED <<sessions, result, phase>>
  /\ UNCHANGED <<conns, made, unavailable, incapable, cleared, kind, pc, attempt, remote,
                 noCapable, active, gotFrom, roundVars, localCxx>>

RecreateStream(c, s) ==
  /\ phase # "panicked"
  /\ stream[<<c, s>>] = "broken" /\ c \notin cleared
  /\ stream' = [stream EXCEPT ![<<c, s>>] = "live"]
  /\ UNCHANGED <<phase, conns, made, unavailable, incapable, cleared, breaks,
                 requestVars, sessionVars, roundVars, localCxx>>

\* Mutant of MarkUnavailable: the connection is matched by its host.
MarkSameHost(c) ==
  unavailable' = unavailable \cup {d \in Installed : d[1] = c[1]}

(***************************************************************************)
(* A stream can't be reopened: OnRemoteBecameUnavailable.  A connection    *)
(* that is not in the list, because it is replaced or because the round    *)
(* that made it hasn't installed it yet, is not found; the attempts on one *)
(* that is found are interrupted, by the first of its streams to give up.  *)
(***************************************************************************)
MarkUnavailable(c) ==
  unavailable' = unavailable \cup ({c} \cap Installed)

OnRemoteBecameUnavailable(c, s) ==
  /\ phase # "panicked"
  /\ stream[<<c, s>>] = "broken"
  /\ MarkUnavailable(c)
  /\ stream' = [stream EXCEPT ![<<c, s>>] = IF c \notin Installed THEN "unheard"
                                        ELSE IF c \in unavailable THEN "gone" ELSE "marking"]
  /\ sessions' = IF s = "receive" THEN {ss \in sessions : ss.conn # c} ELSE sessions
  /\ PanicOnNil
  /\ UNCHANGED <<conns, made, incapable, cleared, breaks, requestVars,
                 active, gotFrom, roundVars, localCxx>>

InterruptInvocations(c, s) ==
  /\ phase # "panicked"
  /\ stream[<<c, s>>] = "marking"
  /\ result' = Interrupted(OnConnection(c))
  /\ stream' = [stream EXCEPT ![<<c, s>>] = "gone"]
  /\ UNCHANGED <<phase, conns, made, unavailable, incapable, cleared, breaks, kind, pc, attempt,
                 remote, noCapable, sessionVars, roundVars, localCxx>>

(***************************************************************************)
(* A server has compiled a session and sends its .o: it is given to the    *)
(* invocation with that sessionID, if there is one.                        *)
(***************************************************************************)
ReceiveObj(s) ==
  /\ phase = "serving"
  /\ stream[<<s.conn, "receive">>] = "live" /\ s \in sessions
  /\ sessions' = sessions \ {s}
  /\ LET found == {r \in Requests : /\ s.id \in active /\ SessionID(r) = s.id
                                    /\ result[r] = "none"}
     IN  /\ result' = [r \in Requests |-> IF r \in found THEN "obj" ELSE result[r]]
         /\ gotFrom' = [r \in Requests |-> IF r \in found THEN s ELSE gotFrom[r]]
  /\ UNCHANGED <<phase, connVars, kind, pc, attempt, remote, noCapable, active,
                 roundVars, localCxx>>

-----------------------------------------------------------------------------
(***************************************************************************)
(* FallbackToLocalCxx fails at once when the local compiler is disabled.   *)
(***************************************************************************)
Fallback == IF MaxLocalCxx = 0 THEN "done" ELSE "fallback"

(***************************************************************************)
(* HandleInvocation.  Only a .cpp goes to a server.  A .pch is generated   *)
(* here for the servers, and the real one is compiled locally as well if   *)
(* some file may have to be compiled locally later.                        *)
(***************************************************************************)
Go(r, from, to) ==
  /\ phase = "serving"
  /\ pc[r] = from
  /\ pc' = [pc EXCEPT ![r] = to]

HandleInvocation(r) ==
  /\ Go(r, "idle", CASE kind[r] \in {"cpp", "coverage"} -> "choose"
                     [] kind[r] = "local" -> Fallback
                     [] kind[r] = "pch" -> "savePch")
  /\ UNCHANGED <<phase, connVars, kind, attempt, remote, result, noCapable,
                 sessionVars, roundVars, localCxx>>

SaveOwnPch(r) ==
  /\ \/ Go(r, "savePch", Fallback)     \* it can't be generated or written
     \/ Go(r, "savePch", IF ~ areAllRemotesAvailable /\ ~ DisableLocalFallback
                         THEN Fallback ELSE "done")
  /\ UNCHANGED <<phase, connVars, kind, attempt, remote, result, noCapable,
                 sessionVars, roundVars, localCxx>>

(***************************************************************************)
(* tryCompileCppRemotely.  When no remote can take the file, whether all   *)
(* of them are up is looked up afterwards.                                 *)
(***************************************************************************)
ChooseRemoteConnection(r) ==
  /\ Go(r, "choose", IF ChooseRemote(r) = None THEN "noRemote" ELSE "register")
  /\ remote' = [remote EXCEPT ![r] = ChooseRemote(r)]
  /\ UNCHANGED <<phase, connVars, kind, attempt, result, noCapable,
                 sessionVars, roundVars, localCxx>>

NoRemote(r) ==
  /\ Go(r, "noRemote", "failed")
  /\ noCapable' = [noCapable EXCEPT ![r] = areAllRemotesAvailable]
  /\ UNCHANGED <<phase, connVars, kind, attempt, remote, result,
                 sessionVars, roundVars, localCxx>>

Register(r) ==
  /\ Go(r, "register", "start")
  /\ active' = active \cup {SessionID(r)}
  /\ UNCHANGED <<phase, connVars, kind, attempt, remote, result, noCapable,
                 sessions, gotFrom, roundVars, localCxx>>

(***************************************************************************)
(* CompileCppRemotely: a session is started unless the connection is known *)
(* to be unavailable or the server refuses; then the .o is waited for.     *)
(***************************************************************************)
Refusal(r) == RefusalBy(remote[r][1], r)

\* Mutant of StartSession: isUnavailable is not looked at.
StartOnAnyRemote(r) ==
  /\ Go(r, "start", "wait")
  /\ sessions' = sessions \cup {SessionOf(r)}
  /\ UNCHANGED <<phase, connVars, kind, attempt, remote, result, noCapable, active, gotFrom,
                 roundVars, localCxx>>

StartSession(r) ==
  /\ Go(r, "start", "wait")
  /\ remote[r] \notin unavailable
  /\ Refusal(r) = "none"
  /\ sessions' = sessions \cup {SessionOf(r)}
  /\ UNCHANGED <<phase, connVars, kind, attempt, remote, result, noCapable, active, gotFrom,
                 roundVars, localCxx>>

LeaveInvocation(r) ==
  /\ active' = active \ {SessionID(r)}
  /\ remote' = [remote EXCEPT ![r] = None]
  /\ result' = [result EXCEPT ![r] = "none"]
  /\ gotFrom' = [gotFrom EXCEPT ![r] = None]

FailToStart(r) ==
  /\ Go(r, "start", "failed")
  /\ \/ remote[r] \in unavailable
     \/ \E s \in Streams : stream[<<remote[r], s>>] # "live"
     \/ result[r] = "error"
  /\ LeaveInvocation(r)
  /\ UNCHANGED <<phase, connVars, kind, attempt, noCapable, sessions,
                 roundVars, localCxx>>

MarkIncapableOfCxx(r) ==
  LET name == IF Refusal(r) = "FailedPrecondition" THEN "cxx" ELSE "coverage"
  IN  incapable' = incapable \cup {<<remote[r], name>>}

StartRefused(r) ==
  /\ Go(r, "start", "failed")
  /\ remote[r] \notin unavailable
  /\ Refusal(r) # "none"
  /\ LeaveInvocation(r)
  /\ MarkIncapableOfCxx(r)
  /\ UNCHANGED <<phase, conns, made, unavailable, stream, cleared, breaks, kind, attempt,
                 noCapable, sessions, roundVars, localCxx>>

EndAttempt(r) ==
  /\ Go(r, "wait", IF result[r] = "obj" THEN "done" ELSE "failed")
  /\ result[r] # "none"
  /\ LeaveInvocation(r)
  /\ UNCHANGED <<phase, connVars, kind, attempt, noCapable, sessions,
                 roundVars, localCxx>>

(***************************************************************************)
(* PeriodicallyInterruptHangedInvocations: after forceInterruptTimeout.    *)
(***************************************************************************)
InterruptHanged(r) ==
  /\ phase = "serving"
  /\ SessionID(r) \in active /\ result[r] = "none"
  /\ result' = Interrupted({r})
  /\ UNCHANGED <<phase, connVars, kind, pc, attempt, remote, noCapable,
                 sessionVars, roundVars, localCxx>>

-----------------------------------------------------------------------------
(***************************************************************************)
(* compileCppRemotelyWithRetries, after an attempt that failed: the end of *)
(* the road, or (after a sleep) a reconnect and another attempt.           *)
(***************************************************************************)
OnRemoteCompilationFailed(r) ==
  /\ Go(r, "failed", IF DisableLocalFallback THEN "done" ELSE Fallback)
  /\ attempt[r] >= RemoteRetries \/ noCapable[r]
  /\ UNCHANGED <<phase, connVars, kind, attempt, remote, result, noCapable,
                 sessionVars, roundVars, localCxx>>

(***************************************************************************)
(* reconnectUnavailableRemotes: one round at a time, over a copy of the    *)
(* list.                                                                   *)
(***************************************************************************)
StartRound(r) ==
  /\ Go(r, "failed", "reconnect")
  /\ reconnectMu = None
  /\ attempt[r] < RemoteRetries /\ ~ noCapable[r]
  /\ reconnectMu' = r
  /\ updated' = [updated EXCEPT ![r] = conns]
  /\ UNCHANGED <<phase, connVars, kind, attempt, remote, result, noCapable,
                 sessionVars, next, localCxx>>

(***************************************************************************)
(* A host is left as it is when its connection is available or was made    *)
(* less than a second ago.                                                 *)
(***************************************************************************)
SkipHost(r) ==
  /\ Go(r, "reconnect", "reconnect")
  /\ next[r] <= NHosts
  /\ next' = [next EXCEPT ![r] = @ + 1]
  /\ UNCHANGED <<phase, connVars, kind, attempt, remote, result, noCapable,
                 sessionVars, reconnectMu, updated, localCxx>>

\* Mutant of ReplaceAndClear: the old connection is not cleared.
ReplaceOnly(r, new) ==
  /\ updated' = [updated EXCEPT ![r][next[r]] = new]
  /\ UNCHANGED cleared

ReplaceAndClear(r, new) ==
  /\ updated' = [updated EXCEPT ![r][next[r]] = new]
  /\ cleared' = cleared \cup {updated[r][next[r]]}

ReconnectHost(r) ==
  LET h == next[r]
      new == <<h, made[h] + 1>>
  IN  /\ Go(r, "reconnect", "reconnect")
      /\ h <= NHosts
      /\ updated[r][h] \in unavailable
      /\ made[h] < MaxReconnects
      /\ made' = [made EXCEPT ![h] = @ + 1]
      /\ \/ OpenStreams(new) /\ UNCHANGED unavailable
         \/ unavailable' = unavailable \cup {new} /\ UNCHANGED stream
      /\ ReplaceAndClear(r, new)
      /\ next' = [next EXCEPT ![r] = @ + 1]
      /\ UNCHANGED <<phase, conns, incapable, breaks, kind, attempt, remote, result, noCapable,
                     sessionVars, reconnectMu, localCxx>>

InstallRound(r) ==
  /\ Go(r, "reconnect", "choose")
  /\ next[r] > NHosts
  /\ conns' = updated[r]
  /\ reconnectMu' = None
  /\ attempt' = [attempt EXCEPT ![r] = @ + 1]
  /\ updated' = [updated EXCEPT ![r] = NoRound]
  /\ next' = [next EXCEPT ![r] = 1]
  /\ UNCHANGED <<phase, made, unavailable, incapable, stream, cleared, breaks, kind,
                 remote, result, noCapable, sessionVars, localCxx>>

-----------------------------------------------------------------------------
(***************************************************************************)
(* FallbackToLocalCxx: the queue of the local compiler.                    *)
(***************************************************************************)
StartLocalCxx(r) ==
  /\ Go(r, "fallback", "local")
  /\ Cardinality(localCxx) < MaxLocalCxx
  /\ localCxx' = localCxx \cup {r}
  /\ UNCHANGED <<phase, connVars, kind, attempt, remote, result, noCapable,
                 sessionVars, roundVars>>

\* Mutant of EndLocalCxx: the throttle is not left.
EndLocalCxxHeld(r) ==
  /\ Go(r, "local", "done")
  /\ UNCHANGED <<phase, connVars, kind, attempt, remote, result, noCapable,
                 sessionVars, roundVars, localCxx>>

EndLocalCxx(r) ==
  /\ Go(r, "local", "done")
  /\ localCxx' = localCxx \ {r}
  /\ UNCHANGED <<phase, connVars, kind, attempt, remote, result, noCapable,
                 sessionVars, roundVars>>

-----------------------------------------------------------------------------
RequestStep(r) ==
  \/ HandleInvocation(r) \/ SaveOwnPch(r)
  \/ ChooseRemoteConnection(r) \/ NoRemote(r) \/ Register(r)
  \/ StartSession(r) \/ FailToStart(r) \/ StartRefused(r) \/ EndAttempt(r)
  \/ OnRemoteCompilationFailed(r)
  \/ StartRound(r) \/ SkipHost(r) \/ ReconnectHost(r) \/ InstallRound(r)
  \/ StartLocalCxx(r) \/ EndLocalCxx(r)

Next ==
  \/ \E h \in Hosts : StartConnecting(h) \/ EnterConnection(h)
  \/ \E c \in Connections, s \in Streams :
       \/ BreakStream(c, s) \/ RecreateStream(c, s)
       \/ OnRemoteBecameUnavailable(c, s) \/ InterruptInvocations(c, s)
  \/ \E s \in sessions : ReceiveObj(s)
  \/ \E r \in Requests : InterruptHanged(r) \/ RequestStep(r)

Spec == Init /\ [][Next]_vars

(***************************************************************************)
(* The goroutine of a request goes on, or the cron of hanged invocations   *)
(* comes to it.                                                            *)
(***************************************************************************)
FairSpec ==
  /\ Spec
  /\ \A r \in Requests : WF_vars(RequestStep(r) \/ InterruptHanged(r))

-----------------------------------------------------------------------------
SessionsOfAll ==
  [id : Requests \X (0 .. RemoteRetries), conn : Connections, attempt : 0 .. RemoteRetries]

TypeOK ==
  /\ phase \in {"starting", "serving", "panicked"}
  /\ \A h \in Hosts : conns[h] \in ({h} \X (0 .. MaxReconnects)) \cup {None}
  /\ phase = "serving" => None \notin {conns[h] : h \in Hosts}
  /\ made \in [Hosts -> 0 .. MaxReconnects]
  /\ unavailable \subseteq Connections /\ cleared \subseteq unavailable
  /\ incapable \subseteq Connections \X Names
  /\ stream \in [Connections \X Streams ->
                  {"none", "live", "broken", "marking", "gone", "unheard"}]
  /\ breaks \in 0 .. MaxBreaks
  /\ \A r \in Requests : kind[r] \in Kinds[r]
  /\ pc \in [Requests -> {"idle", "savePch", "choose", "noRemote", "register", "start",
                          "wait", "failed", "reconnect",
                          "fallback", "local", "done"}]
  /\ attempt \in [Requests -> 0 .. RemoteRetries]
  /\ remote \in [Requests -> Connections \cup {None}]
  /\ result \in [Requests -> {"none", "obj", "error"}]
  /\ noCapable \in [Requests -> BOOLEAN]
  /\ active \subseteq Requests \X (0 .. RemoteRetries)
  /\ sessions \subseteq SessionsOfAll
  /\ \A r \in Requests : gotFrom[r] = None \/ gotFrom[r] \in SessionsOfAll
  /\ reconnectMu \in Requests \cup {None}
  /\ updated \in [Requests -> [Hosts -> Connections \cup {None}]]
  /\ next \in [Requests -> 1 .. NHosts + 1]
  /\ localCxx \subseteq Requests
  /\ Cardinality(localCxx) <= MaxLocalCxx

BeingMarked(c) == \E s \in Streams : stream[<<c, s>>] = "marking"

(***************************************************************************)
(* Who waits for an .o is interrupted when the connection is marked, or    *)
(* given up by a stream while it is in the list: whatever the order of     *)
(* choosing, registering, starting a session and the two steps of          *)
(* OnRemoteBecameUnavailable, the interrupt has come or is on its way.     *)
(* Not so for a connection given up before its round installs it, which    *)
(* nobody hears of (daemon.go:192, :486): see GivenUpIsInterrupted.        *)
(***************************************************************************)
WaitingIsInterrupted ==
  \A r \in Requests, s \in Streams :
    /\ pc[r] = "wait" /\ result[r] = "none"
    /\ remote[r] \in unavailable \/ stream[<<remote[r], s>>] = "gone"
    => BeingMarked(remote[r])

(***************************************************************************)
(* What a request takes for its .o was compiled by its present attempt, on *)
(* the connection that attempt has chosen: the failed session of an        *)
(* earlier attempt, still alive on a server, is not confused with it.      *)
(***************************************************************************)
ObjIsOfThisAttempt ==
  \A r \in Requests :
    result[r] = "obj" => gotFrom[r] = SessionOf(r)

(***************************************************************************)
(* Of all connections made to a host the last is open and the others are   *)
(* cleared, so a reconnect leaks none; the last is the one in the list, or *)
(* a round under way is going to install it.  Only in such a round is the  *)
(* one in the list cleared (daemon.go:482, before :486), and then nobody   *)
(* chooses it: it is unavailable.                                          *)
(***************************************************************************)
ReplacedIsCleared ==
  phase = "serving" =>
    \A h \in Hosts :
      /\ \A n \in 0 .. made[h] : <<h, n>> \in cleared <=> n < made[h]
      /\ \/ conns[h] = <<h, made[h]>>
         \/ /\ conns[h] \in unavailable
            /\ \E r \in Requests : pc[r] = "reconnect" /\ updated[r][h] = <<h, made[h]>>

(***************************************************************************)
(* An available connection stays in the list: a round of reconnects that   *)
(* started from an older list doesn't overwrite what another has made, and *)
(* no stream of an older connection to the host takes it down.             *)
(***************************************************************************)
AvailableStays ==
  [][\A h \in Hosts :
       LET c == conns[h]
       IN  /\ (c # None /\ conns'[h] # c) => c \in unavailable
           /\ (c # None /\ c \notin unavailable /\ c \in unavailable')
                => \E s \in Streams : stream[<<c, s>>] = "broken"]_vars

(***************************************************************************)
(* Every request of `nocc` is answered.                                    *)
(***************************************************************************)
EveryRequestIsAnswered ==
  \A r \in Requests : phase = "serving" ~> (pc[r] = "done" \/ phase = "panicked")

(***************************************************************************)
(* "noCapableRemoteError is when every remote is up and has refused to be  *)
(* this compiler: a retry would be refused the same way" (daemon.go:303).  *)
(***************************************************************************)
RefusedByAll ==
  [][\A r \in Requests :
       ~ noCapable[r] /\ noCapable'[r]
         => \A h \in Hosts : ~ CanCompileWithCxx(conns[h], r)]_vars

(***************************************************************************)
(* "If a remote is not available on daemon start (or becomes unavailable   *)
(* in the middle), then all invocations that should be sent to that remote *)
(* go to another one" (remote-connection.go:18): the daemon goes on.       *)
(***************************************************************************)
NeverPanics == phase # "panicked"

(***************************************************************************)
(* "Their uploads or .o files will never arrive, and waiting for           *)
(* forceInterruptTimeout before retrying elsewhere (or falling back) would *)
(* stall the build for minutes" (daemon.go:211): nobody waits for a        *)
(* connection that one of its streams has given up.                        *)
(***************************************************************************)
GivenUpIsInterrupted ==
  \A r \in Requests, s \in Streams :
    /\ pc[r] = "wait" /\ result[r] = "none"
    /\ stream[<<remote[r], s>>] \in {"gone", "unheard"}
    => BeingMarked(remote[r])

=============================================================================
