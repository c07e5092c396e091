------------------------- MODULE DaemonRetriesProofs -------------------------
(***************************************************************************)
(* Requests, retries and reconnects, for any number of requests, servers   *)
(* and retries.                                                            *)
(***************************************************************************)
EXTENDS DaemonRetries, WellFoundedInduction, FiniteSetTheorems, TLAPS

MadeTo(h) == {h} \X (0 .. made[h])

(***************************************************************************)
(* The types, of which TypeOK leaves out what is a function.               *)
(***************************************************************************)
Typed ==
  /\ TypeOK
  /\ conns \in [Hosts -> Connections \cup {None}]
  /\ gotFrom \in [Requests -> SessionsOfAll \cup {None}]
  /\ IsFiniteSet(localCxx)

(***************************************************************************)
(* A connection that is used was made, one that is cleared has had a       *)
(* successor made; there are no requests while the daemon starts, nor      *)
(* reconnects.                                                             *)
(***************************************************************************)
ConnectionsMade ==
  /\ \A h \in Hosts : conns[h] \in MadeTo(h) \cup {None}
  /\ \A r \in Requests : remote[r] # None => remote[r][2] <= made[remote[r][1]]
  /\ \A h \in Hosts, n \in Nat : <<h, n>> \in cleared => n < made[h]
  /\ phase = "starting" => /\ \A h \in Hosts : made[h] = 0
                           /\ \A r \in Requests : pc[r] = "idle"

(***************************************************************************)
(* Only the holder of reconnectMu is in a round, with an attempt left, and *)
(* the list it is going to install has the last connection made to every   *)
(* host; it differs from the one in use where it has reconnected.          *)
(***************************************************************************)
Rounds ==
  \A r \in Requests :
    /\ pc[r] = "reconnect" <=> reconnectMu = r
    /\ pc[r] = "reconnect" => attempt[r] < RemoteRetries
    /\ pc[r] = "reconnect" =>
         \A h \in Hosts :
           /\ updated[r][h] = <<h, made[h]>>
           /\ updated[r][h] = conns[h] \/ (h < next[r] /\ conns[h] \in cleared)

(***************************************************************************)
(* An attempt is registered while it may get a result, and has a remote    *)
(* then.                                                                   *)
(***************************************************************************)
AttemptKnown(r) ==
  /\ \A n \in 0 .. RemoteRetries :
       <<r, n>> \in active => n = attempt[r] /\ pc[r] \in {"start", "wait"}
  /\ pc[r] \in {"start", "wait"} => SessionID(r) \in active
  /\ pc[r] \in {"register", "start", "wait"} => remote[r] # None
  /\ result[r] # "none" => pc[r] \in {"start", "wait"}
  /\ result[r] = "obj" => pc[r] = "wait" /\ gotFrom[r] = SessionOf(r)

AttemptsKnown == \A r \in Requests : AttemptKnown(r)

(***************************************************************************)
(* A session on a server is the one its request waits for, or of an        *)
(* attempt that is over.                                                   *)
(***************************************************************************)
Over == {"failed", "reconnect", "fallback", "local", "done"}

SessionsKnown ==
  \A s \in sessions :
    LET r == s.id[1]
    IN  /\ s.id = <<r, s.attempt>>
        /\ s.attempt <= attempt[r]
        /\ s.attempt = attempt[r] => \/ pc[r] = "wait" /\ remote[r] = s.conn
                                     \/ pc[r] \in Over

(***************************************************************************)
(* Who interrupts the invocations on a connection has marked it before.    *)
(***************************************************************************)
GivenUpIsMarked ==
  \A c \in Connections, s \in Streams :
    stream[<<c, s>>] \in {"marking", "gone"} => c \in unavailable

Inv == /\ Typed /\ ConnectionsMade /\ Rounds /\ AttemptsKnown /\ SessionsKnown
       /\ GivenUpIsMarked /\ WaitingIsInterrupted /\ ReplacedIsCleared

-----------------------------------------------------------------------------
LEMMA HostsAre == /\ Hosts \subseteq Nat /\ 1 \in Hosts
                  /\ \A c \in Connections : /\ c[1] \in Hosts /\ c[2] \in 0 .. MaxReconnects
                                            /\ c = <<c[1], c[2]>>
  BY DaemonRetriesAssumption DEF Hosts, Connections

LEMMA MadeIs ==
  ASSUME Typed, NEW h \in Hosts
  PROVE  /\ made[h] \in 0 .. MaxReconnects /\ MadeTo(h) \subseteq Connections
         /\ \A c \in MadeTo(h) : c[1] = h /\ c[2] \in 0 .. made[h] /\ c = <<h, c[2]>>
  BY DaemonRetriesAssumption DEF Typed, TypeOK, MadeTo, Connections

(***************************************************************************)
(* What a request chooses is in the list.                                  *)
(***************************************************************************)
LEMMA Smallest ==
  ASSUME NEW S, S \subseteq Nat, S # {}
  PROVE  \E o \in S : \A p \in S : o <= p
<1>1. PICK o \in S : \A p \in S : ~ (<<p, o>> \in OpToRel(<, Nat))
  BY WFMin, NatLessThanWellFounded
<1>2. \A p \in S : ~ (p < o)
  BY <1>1 DEF OpToRel
<1> QED
  BY <1>2

LEMMA Chosen ==
  ASSUME NEW r \in Requests, ChooseRemote(r) # None
  PROVE  \E h \in Hosts : ChooseRemote(r) = conns[h]
<1> DEFINE can(offset) == CanCompileWithCxx(conns[Walk(r, offset)], r)
           usable == {offset \in 0 .. NHosts - 1 : can(offset)}
           first == CHOOSE o \in usable : \A p \in usable : o <= p
<1>1. ChooseRemote(r) = IF usable = {} THEN None ELSE conns[Walk(r, first)]
  BY DEF ChooseRemote
<1>2. usable # {} /\ usable \subseteq 0 .. NHosts - 1 /\ usable \subseteq Nat
  BY <1>1
<1> HIDE DEF usable
<1>3. \E o \in usable : \A p \in usable : o <= p
  BY <1>2, Smallest
<1>4. first \in usable
  BY <1>3
<1>5. first \in 0 .. NHosts - 1
  BY <1>2, <1>4
<1> HIDE DEF first
<1>6. /\ StartIndex[r] \in 1 .. NHosts /\ NHosts \in Nat \ {0}
  BY DaemonRetriesAssumption DEF Hosts
<1>7. (StartIndex[r] - 1 + first) % NHosts \in 0 .. NHosts - 1
  BY <1>5, <1>6
<1>8. Walk(r, first) \in Hosts
  BY <1>6, <1>7 DEF Walk, Hosts
<1> QED
  BY <1>1, <1>2, <1>8

LEMMA InitInv == Init => Inv
<1> SUFFICES ASSUME Init PROVE Inv
  OBVIOUS
<1> USE DaemonRetriesAssumption, HostsAre DEF Init
<1>1. TypeOK
  <2>1. Cardinality(localCxx) <= MaxLocalCxx
    BY FS_EmptySet
  <2>2. updated \in [Requests -> [Hosts -> Connections \cup {None}]]
    BY DEF NoRound
  <2>3. next \in [Requests -> 1 .. NHosts + 1]
    OBVIOUS
  <2> QED
    BY <2>1, <2>2, <2>3 DEF TypeOK, MadeTo
<1>2. Typed
  BY <1>1, FS_EmptySet DEF Typed
<1>3. ConnectionsMade /\ Rounds /\ AttemptsKnown /\ SessionsKnown
  BY DEF ConnectionsMade, Rounds, AttemptsKnown, AttemptKnown, SessionsKnown
<1>4. GivenUpIsMarked /\ WaitingIsInterrupted /\ ReplacedIsCleared
  BY DEF GivenUpIsMarked, WaitingIsInterrupted, ReplacedIsCleared
<1> QED
  BY <1>2, <1>3, <1>4 DEF Inv

-----------------------------------------------------------------------------
(***************************************************************************)
(* The steps of the daemon's start and of the streams keep the types.      *)
(***************************************************************************)
ConnectionStep ==
  \/ \E h \in Hosts : StartConnecting(h) \/ EnterConnection(h)
  \/ \E c \in Connections, s \in Streams :
       \/ BreakStream(c, s) \/ RecreateStream(c, s)
       \/ OnRemoteBecameUnavailable(c, s) \/ InterruptInvocations(c, s)
  \/ \E s \in sessions : ReceiveObj(s)

StreamStages == {"none", "live", "broken", "marking", "gone", "unheard"}

LEMMA StreamTyped ==
  ASSUME stream \in [Connections \X Streams -> StreamStages],
         NEW c \in Connections, NEW s \in Streams, NEW to \in StreamStages
  PROVE  /\ [stream EXCEPT ![<<c, s>>] = to] \in [Connections \X Streams -> StreamStages]
         /\ \A d \in Connections, t \in Streams :
              [stream EXCEPT ![<<c, s>>] = to][<<d, t>>] =
                IF d = c /\ t = s THEN to ELSE stream[<<d, t>>]
  OBVIOUS

LEMMA OpenedTyped ==
  ASSUME stream \in [Connections \X Streams -> StreamStages], NEW c \in Connections,
         OpenStreams(c)
  PROVE  /\ stream' \in [Connections \X Streams -> StreamStages]
         /\ \A d \in Connections, t \in Streams :
              stream'[<<d, t>>] = IF d = c THEN "live" ELSE stream[<<d, t>>]
  BY DEF OpenStreams, Streams, StreamStages

LEMMA InterruptedTyped ==
  ASSUME TypeOK, NEW rs
  PROVE  Interrupted(rs) \in [Requests -> {"none", "obj", "error"}]
  BY DEF Interrupted, TypeOK

LEMMA TypedConnectionStep ==
  ASSUME Typed, ConnectionStep
  PROVE  Typed'
<1> USE DaemonRetriesAssumption
    DEF connVars, requestVars, sessionVars, roundVars, MarkUnavailable, Installed
<1>0. TypeOK /\ conns \in [Hosts -> Connections \cup {None}]
  BY DEF Typed
<1>c. \A h \in Hosts : <<h, 0>> \in Connections
  BY DEF Connections
<1>1. ASSUME NEW h \in Hosts, StartConnecting(h) PROVE Typed'
  <2>1. stream' \in [Connections \X Streams -> StreamStages]
    BY <1>0, <1>1, <1>c, OpenedTyped DEF StartConnecting, TypeOK, StreamStages
  <2> QED
    BY <1>1, <2>1 DEF StartConnecting, Typed, TypeOK, StreamStages
<1>2. ASSUME NEW h \in Hosts, EnterConnection(h) PROVE Typed'
  <2>1. <<h, 0>> \in {h} \X (0 .. MaxReconnects) /\ <<h, 0>> \in Connections
    BY HostsAre DEF Connections
  <2>2. /\ conns' \in [Hosts -> Connections \cup {None}]
        /\ \A g \in Hosts : conns'[g] \in ({g} \X (0 .. MaxReconnects)) \cup {None}
    BY <1>0, <1>2, <2>1 DEF EnterConnection, TypeOK
  <2>3. phase' = "serving" => None \notin {conns'[g] : g \in Hosts}
    <3>1. conns' = [conns EXCEPT ![h] = <<h, 0>>] /\ <<h, 0>> # None
      BY <1>2, <2>1 DEF EnterConnection
    <3>2. phase' = "serving" => \A g \in Hosts \ {h} : conns[g] # None
      BY <1>2 DEF EnterConnection
    <3> QED
      BY <1>0, <3>1, <3>2
  <2>4. unavailable' \subseteq Connections /\ cleared' \subseteq unavailable'
    BY <1>0, <1>2, <2>1 DEF EnterConnection, TypeOK
  <2>5. phase' \in {"starting", "serving", "panicked"}
    BY <1>2 DEF EnterConnection
  <2> QED
    BY <1>2, <2>2, <2>3, <2>4, <2>5 DEF EnterConnection, Typed, TypeOK
<1>3. ASSUME NEW c \in Connections, NEW t \in Streams, BreakStream(c, t) PROVE Typed'
  <2>1. stream' \in [Connections \X Streams -> StreamStages]
    BY <1>0, <1>3, StreamTyped DEF BreakStream, TypeOK, StreamStages
  <2>2. breaks' \in 0 .. MaxBreaks
    BY <1>0, <1>3 DEF BreakStream, TypeOK
  <2>3. sessions' \subseteq SessionsOfAll
    BY <1>0, <1>3 DEF BreakStream, LoseSessions, TypeOK
  <2>4. result' \in [Requests -> {"none", "obj", "error"}]
    BY <1>0, <1>3, InterruptedTyped DEF BreakStream, TypeOK
  <2>5. phase' \in {"starting", "serving", "panicked"} /\ (phase' = "serving" => phase = "serving")
    BY <1>0, <1>3 DEF BreakStream, PanicOnNil, TypeOK
  <2> QED
    BY <1>3, <2>1, <2>2, <2>3, <2>4, <2>5 DEF BreakStream, Typed, TypeOK, StreamStages
<1>4. ASSUME NEW c \in Connections, NEW t \in Streams, RecreateStream(c, t) PROVE Typed'
  <2>1. stream' \in [Connections \X Streams -> StreamStages]
    BY <1>0, <1>4, StreamTyped DEF RecreateStream, TypeOK, StreamStages
  <2> QED
    BY <1>4, <2>1 DEF RecreateStream, Typed, TypeOK, StreamStages
<1>5. ASSUME NEW c \in Connections, NEW t \in Streams, OnRemoteBecameUnavailable(c, t) PROVE Typed'
  <2>1. stream' \in [Connections \X Streams -> StreamStages]
    BY <1>0, <1>5, StreamTyped DEF OnRemoteBecameUnavailable, TypeOK, StreamStages
  <2>2. unavailable' \subseteq Connections /\ cleared' \subseteq unavailable'
    BY <1>0, <1>5 DEF OnRemoteBecameUnavailable, TypeOK
  <2>3. sessions' \subseteq SessionsOfAll
    BY <1>0, <1>5 DEF OnRemoteBecameUnavailable, TypeOK
  <2>4. phase' \in {"starting", "serving", "panicked"} /\ (phase' = "serving" => phase = "serving")
    BY <1>0, <1>5 DEF OnRemoteBecameUnavailable, PanicOnNil, TypeOK
  <2> QED
    BY <1>5, <2>1, <2>2, <2>3, <2>4 DEF OnRemoteBecameUnavailable, Typed, TypeOK, StreamStages
<1>6. ASSUME NEW c \in Connections, NEW t \in Streams, InterruptInvocations(c, t) PROVE Typed'
  <2>1. stream' \in [Connections \X Streams -> StreamStages]
    BY <1>0, <1>6, StreamTyped DEF InterruptInvocations, TypeOK, StreamStages
  <2>2. result' \in [Requests -> {"none", "obj", "error"}]
    BY <1>0, <1>6, InterruptedTyped DEF InterruptInvocations, TypeOK
  <2> QED
    BY <1>6, <2>1, <2>2 DEF InterruptInvocations, Typed, TypeOK, StreamStages
<1>8. ASSUME NEW s \in sessions, ReceiveObj(s) PROVE Typed'
  <2>1. s \in SessionsOfAll /\ sessions' \subseteq SessionsOfAll
    BY <1>0, <1>8 DEF ReceiveObj, TypeOK
  <2>2. result' \in [Requests -> {"none", "obj", "error"}]
    BY <1>0, <1>8 DEF ReceiveObj, TypeOK
  <2>3. gotFrom' \in [Requests -> SessionsOfAll \cup {None}]
    BY <1>8, <2>1 DEF ReceiveObj, Typed
  <2> QED
    BY <1>8, <2>1, <2>2, <2>3 DEF ReceiveObj, Typed, TypeOK
<1> QED
  BY <1>1, <1>2, <1>3, <1>4, <1>5, <1>6, <1>8 DEF ConnectionStep

(***************************************************************************)
(* The steps of a request.                                                 *)
(***************************************************************************)
PcStages == {"idle", "savePch", "choose", "noRemote", "register", "start", "wait", "failed",
             "reconnect", "fallback", "local", "done"}

LEMMA GoTyped ==
  ASSUME TypeOK, NEW r \in Requests, NEW from, NEW to \in PcStages, Go(r, from, to)
  PROVE  /\ pc' \in [Requests -> PcStages]
         /\ pc[r] = from /\ pc'[r] = to
         /\ \A q \in Requests \ {r} : pc'[q] = pc[q]
         /\ phase = "serving"
  BY DEF Go, TypeOK, PcStages

LEMMA LeaveTyped ==
  ASSUME Typed, NEW r \in Requests, LeaveInvocation(r)
  PROVE  /\ active' \subseteq Requests \X (0 .. RemoteRetries)
         /\ remote' \in [Requests -> Connections \cup {None}]
         /\ result' \in [Requests -> {"none", "obj", "error"}]
         /\ gotFrom' \in [Requests -> SessionsOfAll \cup {None}]
         /\ \A q \in Requests : gotFrom'[q] = None \/ gotFrom'[q] \in SessionsOfAll
  BY DEF LeaveInvocation, Typed, TypeOK

LEMMA ListComplete ==
  ASSUME Typed, phase = "serving"
  PROVE  \A h \in Hosts : conns[h] \in Connections
  BY DEF Typed, TypeOK

LEMMA AttemptStepTyped ==
  ASSUME Typed, AttemptsKnown, NEW r \in Requests,
         \/ HandleInvocation(r) \/ SaveOwnPch(r)
         \/ ChooseRemoteConnection(r) \/ NoRemote(r) \/ Register(r)
         \/ StartSession(r) \/ FailToStart(r) \/ StartRefused(r) \/ EndAttempt(r)
  PROVE  Typed'
<1> USE DaemonRetriesAssumption
    DEF connVars, requestVars, sessionVars, roundVars
<1>0. TypeOK
  BY DEF Typed
<1>f. Fallback \in PcStages
  BY DEF Fallback, PcStages
<1>a. attempt[r] \in 0 .. RemoteRetries /\ SessionID(r) \in Requests \X (0 .. RemoteRetries)
  BY <1>0 DEF TypeOK, SessionID
<1>1. CASE HandleInvocation(r)
  <2>1. kind[r] \in {"cpp", "coverage", "pch", "local"}
    BY <1>0 DEF TypeOK
  <2>2. pc' \in [Requests -> PcStages]
    BY <1>0, <1>1, <1>f, <2>1, GoTyped DEF HandleInvocation, PcStages
  <2> QED
    BY <1>1, <2>2 DEF HandleInvocation, Typed, TypeOK, PcStages
<1>2. CASE SaveOwnPch(r)
  <2>1. pc' \in [Requests -> PcStages]
    BY <1>0, <1>2, <1>f, GoTyped DEF SaveOwnPch, PcStages
  <2> QED
    BY <1>2, <2>1 DEF SaveOwnPch, Typed, TypeOK, PcStages
<1>3. CASE ChooseRemoteConnection(r)
  <2>1. pc' \in [Requests -> PcStages] /\ phase = "serving"
    BY <1>0, <1>3, GoTyped DEF ChooseRemoteConnection, PcStages
  <2>2. ChooseRemote(r) \in Connections \cup {None}
    BY <2>1, Chosen, ListComplete
  <2>3. remote' \in [Requests -> Connections \cup {None}]
    BY <1>0, <1>3, <2>2 DEF ChooseRemoteConnection, TypeOK
  <2> QED
    BY <1>3, <2>1, <2>3 DEF ChooseRemoteConnection, Typed, TypeOK, PcStages
<1>4. CASE NoRemote(r)
  <2>1. pc' \in [Requests -> PcStages]
    BY <1>0, <1>4, GoTyped DEF NoRemote, PcStages
  <2>2. areAllRemotesAvailable \in BOOLEAN
    BY DEF areAllRemotesAvailable
  <2>3. noCapable' \in [Requests -> BOOLEAN]
    BY <1>0, <1>4, <2>2 DEF NoRemote, TypeOK
  <2> QED
    BY <1>4, <2>1, <2>3 DEF NoRemote, Typed, TypeOK, PcStages
<1>5. CASE Register(r)
  <2>1. pc' \in [Requests -> PcStages]
    BY <1>0, <1>5, GoTyped DEF Register, PcStages
  <2>2. active' \subseteq Requests \X (0 .. RemoteRetries)
    BY <1>0, <1>5, <1>a DEF Register, TypeOK
  <2> QED
    BY <1>5, <2>1, <2>2 DEF Register, Typed, TypeOK, PcStages
<1>6. CASE StartSession(r)
  <2>1. pc' \in [Requests -> PcStages]
    BY <1>0, <1>6, GoTyped DEF StartSession, PcStages
  <2>2. remote[r] \in Connections
    BY <1>0, <1>6, GoTyped DEF StartSession, AttemptsKnown, AttemptKnown, PcStages, TypeOK
  <2>3. SessionOf(r) \in SessionsOfAll
    BY <1>a, <2>2 DEF SessionOf, SessionsOfAll
  <2>4. sessions' \subseteq SessionsOfAll
    BY <1>0, <1>6, <2>3 DEF StartSession, TypeOK
  <2> QED
    BY <1>6, <2>1, <2>4 DEF StartSession, Typed, TypeOK, PcStages
<1>7. CASE FailToStart(r)
  <2>1. pc' \in [Requests -> PcStages]
    BY <1>0, <1>7, GoTyped DEF FailToStart, PcStages
  <2> QED
    BY <1>7, <2>1, LeaveTyped DEF FailToStart, Typed, TypeOK, PcStages
<1>8. CASE StartRefused(r)
  <2>1. pc' \in [Requests -> PcStages]
    BY <1>0, <1>8, GoTyped DEF StartRefused, PcStages
  <2>2. remote[r] \in Connections
    BY <1>0, <1>8, GoTyped DEF StartRefused, AttemptsKnown, AttemptKnown, PcStages, TypeOK
  <2>3. incapable' \subseteq Connections \X Names
    BY <1>0, <1>8, <2>2 DEF StartRefused, MarkIncapableOfCxx, Names, TypeOK
  <2> QED
    BY <1>8, <2>1, <2>3, LeaveTyped DEF StartRefused, Typed, TypeOK, PcStages
<1>9. CASE EndAttempt(r)
  <2>1. pc' \in [Requests -> PcStages]
    BY <1>0, <1>9, GoTyped DEF EndAttempt, PcStages
  <2> QED
    BY <1>9, <2>1, LeaveTyped DEF EndAttempt, Typed, TypeOK, PcStages
<1> QED
  BY <1>1, <1>2, <1>3, <1>4, <1>5, <1>6, <1>7, <1>8, <1>9

LEMMA RetryStepTyped ==
  ASSUME Typed, Rounds, NEW r \in Requests,
         \/ InterruptHanged(r) \/ OnRemoteCompilationFailed(r)
         \/ StartRound(r) \/ SkipHost(r) \/ ReconnectHost(r) \/ InstallRound(r)
         \/ StartLocalCxx(r) \/ EndLocalCxx(r)
  PROVE  Typed'
<1> USE DaemonRetriesAssumption
    DEF connVars, requestVars, sessionVars, roundVars
<1>0. TypeOK
  BY DEF Typed
<1>f. Fallback \in PcStages
  BY DEF Fallback, PcStages
<1>1. CASE InterruptHanged(r)
  BY <1>0, <1>1, InterruptedTyped DEF InterruptHanged, Typed, TypeOK
<1>2. CASE OnRemoteCompilationFailed(r)
  <2>1. pc' \in [Requests -> PcStages]
    BY <1>0, <1>2, <1>f, GoTyped DEF OnRemoteCompilationFailed, PcStages
  <2> QED
    BY <1>2, <2>1 DEF OnRemoteCompilationFailed, Typed, TypeOK, PcStages
<1>3. CASE StartRound(r)
  <2>1. pc' \in [Requests -> PcStages]
    BY <1>0, <1>3, GoTyped DEF StartRound, PcStages
  <2>2. updated' \in [Requests -> [Hosts -> Connections \cup {None}]]
    BY <1>0, <1>3 DEF StartRound, Typed, TypeOK
  <2> QED
    BY <1>3, <2>1, <2>2 DEF StartRound, Typed, TypeOK, PcStages
<1>4. CASE SkipHost(r)
  <2>1. pc' \in [Requests -> PcStages]
    BY <1>0, <1>4, GoTyped DEF SkipHost, PcStages
  <2>2. next' \in [Requests -> 1 .. NHosts + 1]
    BY <1>0, <1>4 DEF SkipHost, TypeOK
  <2> QED
    BY <1>4, <2>1, <2>2 DEF SkipHost, Typed, TypeOK, PcStages
<1>5. CASE ReconnectHost(r)
  <2> DEFINE h == next[r]
             new == <<h, made[h] + 1>>
  <2>1. pc' \in [Requests -> PcStages]
    BY <1>0, <1>5, GoTyped DEF ReconnectHost, PcStages
  <2>2. /\ h \in Hosts /\ made[h] + 1 \in 0 .. MaxReconnects /\ new \in Connections
    <3>1. h \in 1 .. NHosts + 1 /\ h <= NHosts /\ NHosts \in Nat
      BY <1>0, <1>5 DEF ReconnectHost, TypeOK
    <3>2. h \in Hosts
      BY <3>1 DEF Hosts
    <3>3. made[h] \in 0 .. MaxReconnects /\ made[h] < MaxReconnects
      BY <1>0, <1>5, <3>2 DEF ReconnectHost, TypeOK
    <3> QED
      BY <3>2, <3>3 DEF Connections
  <2>3. next' \in [Requests -> 1 .. NHosts + 1]
    BY <1>0, <1>5 DEF ReconnectHost, TypeOK
  <2>4. made' \in [Hosts -> 0 .. MaxReconnects]
    BY <1>0, <1>5, <2>2 DEF ReconnectHost, TypeOK
  <2>5. updated' \in [Requests -> [Hosts -> Connections \cup {None}]]
    <3>1. updated' = [updated EXCEPT ![r][h] = new]
      BY <1>5 DEF ReconnectHost, ReplaceAndClear
    <3>2. [updated[r] EXCEPT ![h] = new] \in [Hosts -> Connections \cup {None}]
      BY <1>0, <2>2 DEF TypeOK
    <3> QED
      BY <1>0, <3>1, <3>2 DEF TypeOK
  <2>6. stream' \in [Connections \X Streams -> StreamStages]
    BY <1>0, <1>5, <2>2, OpenedTyped DEF ReconnectHost, TypeOK, StreamStages
  <2>7. unavailable' \subseteq Connections /\ cleared' \subseteq unavailable'
    BY <1>0, <1>5, <2>2 DEF ReconnectHost, ReplaceAndClear, TypeOK
  <2> QED
    BY <1>5, <2>1, <2>3, <2>4, <2>5, <2>6, <2>7
    DEF ReconnectHost, Typed, TypeOK, PcStages, StreamStages
<1>6. CASE InstallRound(r)
  <2>1. pc' \in [Requests -> PcStages] /\ pc[r] = "reconnect" /\ phase = "serving"
    BY <1>0, <1>6, GoTyped DEF InstallRound, PcStages
  <2>2. \A h \in Hosts : updated[r][h] = <<h, made[h]>>
    BY <2>1 DEF Rounds
  <2>3. \A h \in Hosts : /\ updated[r][h] \in {h} \X (0 .. MaxReconnects)
                         /\ updated[r][h] \in Connections
    <3> TAKE h \in Hosts
    <3>1. made[h] \in 0 .. MaxReconnects
      BY <1>0 DEF TypeOK
    <3>2. <<h, made[h]>> \in {h} \X (0 .. MaxReconnects)
      BY <3>1
    <3>3. <<h, made[h]>> \in Connections
      BY <3>1 DEF Connections
    <3> QED
      BY <2>2, <3>2, <3>3
  <2>4. /\ conns' \in [Hosts -> Connections \cup {None}]
        /\ \A h \in Hosts : conns'[h] \in ({h} \X (0 .. MaxReconnects)) \cup {None}
        /\ None \notin {conns'[h] : h \in Hosts}
    BY <1>0, <1>6, <2>3 DEF InstallRound, TypeOK
  <2>5. attempt' \in [Requests -> 0 .. RemoteRetries]
    <3>1. attempt[r] + 1 \in 0 .. RemoteRetries
      BY <1>0, <2>1 DEF Rounds, TypeOK
    <3> QED
      BY <1>0, <1>6, <3>1 DEF InstallRound, TypeOK
  <2>6. updated' \in [Requests -> [Hosts -> Connections \cup {None}]]
    BY <1>0, <1>6 DEF InstallRound, TypeOK, NoRound
  <2>7. next' \in [Requests -> 1 .. NHosts + 1]
    BY <1>0, <1>6 DEF InstallRound, TypeOK
  <2> QED
    BY <1>6, <2>1, <2>4, <2>5, <2>6, <2>7 DEF InstallRound, Typed, TypeOK, PcStages
<1>7. CASE StartLocalCxx(r)
  <2>1. pc' \in [Requests -> PcStages]
    BY <1>0, <1>7, GoTyped DEF StartLocalCxx, PcStages
  <2>2. IsFiniteSet(localCxx') /\ Cardinality(localCxx') <= MaxLocalCxx
    <3>1. /\ IsFiniteSet(localCxx) /\ localCxx' = localCxx \cup {r}
          /\ Cardinality(localCxx) < MaxLocalCxx
      BY <1>7 DEF StartLocalCxx, Typed
    <3>2. /\ IsFiniteSet(localCxx') /\ Cardinality(localCxx) \in Nat
          /\ Cardinality(localCxx') \in {Cardinality(localCxx), Cardinality(localCxx) + 1}
      BY <3>1, FS_AddElement, FS_CardinalityType
    <3> QED
      BY <3>1, <3>2
  <2> QED
    BY <1>7, <2>1, <2>2 DEF StartLocalCxx, Typed, TypeOK, PcStages
<1>8. CASE EndLocalCxx(r)
  <2>1. pc' \in [Requests -> PcStages]
    BY <1>0, <1>8, GoTyped DEF EndLocalCxx, PcStages
  <2>2. IsFiniteSet(localCxx') /\ Cardinality(localCxx') <= MaxLocalCxx
    <3>1. /\ IsFiniteSet(localCxx) /\ localCxx' = localCxx \ {r}
          /\ Cardinality(localCxx) <= MaxLocalCxx
      BY <1>0, <1>8 DEF EndLocalCxx, Typed, TypeOK
    <3>2. /\ IsFiniteSet(localCxx') /\ Cardinality(localCxx) \in Nat
          /\ Cardinality(localCxx') \in {Cardinality(localCxx), Cardinality(localCxx) - 1}
      BY <3>1, FS_RemoveElement, FS_CardinalityType
    <3> QED
      BY <3>1, <3>2
  <2> QED
    BY <1>8, <2>1, <2>2 DEF EndLocalCxx, Typed, TypeOK, PcStages
<1> QED
  BY <1>1, <1>2, <1>3, <1>4, <1>5, <1>6, <1>7, <1>8

-----------------------------------------------------------------------------
LEMMA TypedNext ==
  ASSUME Inv, [Next]_vars
  PROVE  Typed'
<1>1. CASE UNCHANGED vars
  BY <1>1 DEF Inv, Typed, TypeOK, vars, connVars, requestVars, sessionVars, roundVars
<1>2. CASE Next
  BY <1>2, TypedConnectionStep, AttemptStepTyped, RetryStepTyped
  DEF Inv, Next, ConnectionStep, RequestStep
<1> QED
  BY <1>1, <1>2

(***************************************************************************)
(* Most steps leave the connections as they are; a request may give up its *)
(* remote.                                                                 *)
(***************************************************************************)
LEMMA ConnectionsNext ==
  ASSUME Inv, [Next]_vars
  PROVE  ConnectionsMade'
<1> USE DaemonRetriesAssumption
    DEF connVars, requestVars, sessionVars, roundVars, Inv
<1>t. Typed /\ Typed' /\ TypeOK /\ TypeOK'
  BY TypedNext DEF Typed
<1>k. ASSUME UNCHANGED <<conns, made, cleared>>, phase' = "starting" => phase = "starting",
             \/ UNCHANGED pc
             \/ \E r \in Requests : \E from, to : Go(r, from, to),
             \A r \in Requests : remote'[r] \in {remote[r], None}
      PROVE  ConnectionsMade'
  BY <1>k, <1>t DEF ConnectionsMade, MadeTo, Go
<1>1. ASSUME NEW h \in Hosts, EnterConnection(h) PROVE ConnectionsMade'
  <2>1. made[h] = 0 /\ <<h, 0>> \in MadeTo(h) /\ UNCHANGED <<made, remote, pc, cleared>>
    BY <1>1 DEF EnterConnection, ConnectionsMade, MadeTo
  <2>2. \A g \in Hosts : conns'[g] = conns[g] \/ (conns'[g] = <<g, 0>> /\ made[g] = 0)
    <3>1. conns' = [conns EXCEPT ![h] = <<h, 0>>] /\ conns \in [Hosts -> Connections \cup {None}]
      BY <1>1, <1>t DEF EnterConnection, Typed
    <3>2. conns'[h] = <<h, 0>> /\ \A g \in Hosts : g # h => conns'[g] = conns[g]
      BY <3>1
    <3> QED
      BY <2>1, <3>2
  <2> QED
    BY <1>1, <2>1, <2>2 DEF EnterConnection, ConnectionsMade, MadeTo
<1>2. CASE ConnectionStep /\ ~ \E h \in Hosts : EnterConnection(h)
  BY <1>2, <1>k, <1>t DEF ConnectionStep, StartConnecting, BreakStream, RecreateStream,
       OnRemoteBecameUnavailable, InterruptInvocations, ReceiveObj, PanicOnNil
<1>3. ASSUME NEW r \in Requests, ChooseRemoteConnection(r) PROVE ConnectionsMade'
  <2>1. phase = "serving" /\ UNCHANGED <<phase, conns, made, cleared>>
    BY <1>3 DEF ChooseRemoteConnection, Go
  <2>2. ChooseRemote(r) # None => ChooseRemote(r)[2] <= made[ChooseRemote(r)[1]]
    BY <2>1, <1>t, Chosen, ListComplete, MadeIs DEF ConnectionsMade
  <2>3. remote' = [remote EXCEPT ![r] = ChooseRemote(r)]
    BY <1>3 DEF ChooseRemoteConnection
  <2>4. \A q \in Requests : remote'[q] # None => remote'[q][2] <= made[remote'[q][1]]
    BY <2>2, <2>3, <1>t DEF ConnectionsMade, TypeOK
  <2> QED
    BY <2>1, <2>4 DEF ConnectionsMade, MadeTo
<1>4. ASSUME NEW r \in Requests, ReconnectHost(r) PROVE ConnectionsMade'
  <2>1. /\ \A h \in Hosts : made'[h] \in Nat /\ made[h] \in Nat /\ made[h] <= made'[h]
        /\ UNCHANGED <<phase, conns, remote>> /\ phase = "serving"
    BY <1>4, <1>t DEF ReconnectHost, TypeOK, Go
  <2>2. \A h \in Hosts : MadeTo(h) \subseteq MadeTo(h)'
    BY <2>1 DEF MadeTo
  <2>3. \A q \in Requests : remote[q] # None => remote[q][1] \in Hosts /\ remote[q][2] \in Nat
    BY <1>t, HostsAre DEF TypeOK
  <2>4. ASSUME NEW h \in Hosts, NEW n \in Nat, <<h, n>> \in cleared'
        PROVE  n < made'[h]
    <3>1. next[r] \in Hosts
      <4>1. next[r] \in 1 .. NHosts + 1 /\ next[r] <= NHosts
        BY <1>4, <1>t DEF ReconnectHost, TypeOK
      <4> QED
        BY <4>1 DEF Hosts
    <3>2. PICK g \in Hosts : g = next[r]
      BY <3>1
    <3>3. /\ cleared' = cleared \cup {<<g, made[g]>>}
          /\ made'[g] = made[g] + 1
      BY <1>4, <1>t, <3>2 DEF ReconnectHost, ReplaceAndClear, Go, Rounds, TypeOK
    <3>4. CASE <<h, n>> \in cleared
      BY <2>1, <3>4 DEF ConnectionsMade
    <3>5. CASE <<h, n>> = <<g, made[g]>>
      BY <2>1, <3>3, <3>5
    <3> QED
      BY <2>4, <3>3, <3>4, <3>5
  <2> QED
    BY <2>1, <2>2, <2>3, <2>4 DEF ConnectionsMade
<1>5. ASSUME NEW r \in Requests, InstallRound(r) PROVE ConnectionsMade'
  <2>1. \A h \in Hosts : updated[r][h] \in MadeTo(h)
    BY <1>5, <1>t DEF InstallRound, Go, Rounds, MadeTo, TypeOK
  <2> QED
    BY <1>5, <2>1 DEF InstallRound, Go, ConnectionsMade, MadeTo
<1>6. ASSUME NEW r \in Requests, RequestStep(r) \/ InterruptHanged(r),
             ~ ChooseRemoteConnection(r), ~ ReconnectHost(r), ~ InstallRound(r)
      PROVE  ConnectionsMade'
  <2>1. /\ UNCHANGED <<phase, conns, made, cleared>>
        /\ UNCHANGED pc \/ \E from, to : Go(r, from, to)
    BY <1>6 DEF RequestStep, InterruptHanged, HandleInvocation, SaveOwnPch,
         NoRemote, Register, StartSession, FailToStart, StartRefused, EndAttempt,
         OnRemoteCompilationFailed, StartRound, SkipHost, StartLocalCxx, EndLocalCxx
  <2>2. UNCHANGED remote \/ remote' = [remote EXCEPT ![r] = None]
    BY <1>6 DEF RequestStep, InterruptHanged, HandleInvocation, SaveOwnPch,
         NoRemote, Register, StartSession, FailToStart, StartRefused, EndAttempt,
         OnRemoteCompilationFailed, StartRound, SkipHost, StartLocalCxx, EndLocalCxx,
         LeaveInvocation
  <2>3. \A q \in Requests : remote'[q] \in {remote[q], None}
    BY <2>2, <1>t DEF TypeOK
  <2> QED
    BY <2>1, <2>3, <1>k
<1>7. CASE UNCHANGED vars
  BY <1>7, <1>k, <1>t DEF vars
<1> QED
  BY <1>1, <1>2, <1>3, <1>4, <1>5, <1>6, <1>7 DEF Next, ConnectionStep, RequestStep

(***************************************************************************)
(* Nothing but a round's own steps moves it.                               *)
(***************************************************************************)
LEMMA RoundsNext ==
  ASSUME Inv, [Next]_vars
  PROVE  Rounds'
<1> USE DaemonRetriesAssumption
    DEF connVars, requestVars, sessionVars, roundVars, Inv
<1>t. Typed /\ Typed' /\ TypeOK /\ TypeOK' /\ ConnectionsMade
  BY TypedNext DEF Typed
<1>k. ASSUME UNCHANGED <<conns, made, attempt, roundVars>>, cleared \subseteq cleared',
             \A q \in Requests : pc'[q] = "reconnect" <=> pc[q] = "reconnect"
      PROVE  Rounds'
  BY <1>k DEF Rounds, MadeTo
<1>1. ASSUME NEW h \in Hosts, EnterConnection(h) PROVE Rounds'
  BY <1>1, <1>t DEF EnterConnection, Rounds, ConnectionsMade
<1>2. CASE ConnectionStep /\ ~ \E h \in Hosts : EnterConnection(h)
  BY <1>2, <1>k DEF ConnectionStep, StartConnecting, BreakStream, RecreateStream,
       OnRemoteBecameUnavailable, InterruptInvocations, ReceiveObj
<1>3. ASSUME NEW r \in Requests, StartRound(r) PROVE Rounds'
  <2>1. /\ pc' = [pc EXCEPT ![r] = "reconnect"] /\ reconnectMu = None /\ reconnectMu' = r
        /\ updated' = [updated EXCEPT ![r] = conns] /\ attempt[r] < RemoteRetries
        /\ UNCHANGED <<conns, made, attempt, cleared, next>> /\ phase = "serving"
    BY <1>3 DEF StartRound, Go
  <2>2. \A q \in Requests : pc'[q] = "reconnect" <=> q = r
    BY <2>1, <1>t DEF Rounds, TypeOK
  <2>3. \A h \in Hosts : conns[h] = <<h, made[h]>>
    <3>1. \A q \in Requests : pc[q] # "reconnect"
      BY <2>1 DEF Rounds
    <3> QED
      BY <2>1, <3>1 DEF ReplacedIsCleared
  <2>4. updated'[r] = conns
    BY <2>1, <1>t DEF TypeOK
  <2> QED
    BY <2>1, <2>2, <2>3, <2>4 DEF Rounds, MadeTo
<1>4. ASSUME NEW r \in Requests, SkipHost(r) PROVE Rounds'
  <2>1. /\ pc[r] = "reconnect" /\ pc' = pc /\ next' = [next EXCEPT ![r] = @ + 1]
        /\ UNCHANGED <<conns, made, attempt, cleared, reconnectMu, updated>>
    BY <1>4, <1>t DEF SkipHost, Go, TypeOK
  <2>2. \A q \in Requests : next[q] \in Nat /\ next'[q] \in Nat /\ next[q] <= next'[q]
    BY <2>1, <1>t DEF TypeOK
  <2>3. \A q \in Requests, h \in Hosts : h < next[q] => h < next'[q]
    BY <2>2, HostsAre
  <2> QED
    BY <2>1, <2>3 DEF Rounds, MadeTo
<1>5. ASSUME NEW r \in Requests, ReconnectHost(r) PROVE Rounds'
  <2>1. next[r] \in Hosts
    <3>1. next[r] \in 1 .. NHosts + 1 /\ next[r] <= NHosts
      BY <1>5, <1>t DEF ReconnectHost, TypeOK
    <3> QED
      BY <3>1 DEF Hosts
  <2>2. PICK h \in Hosts : h = next[r]
    BY <2>1
  <2>3. PICK n \in Nat : n = made[h]
    BY <1>t DEF TypeOK
  <2>4. /\ pc[r] = "reconnect" /\ pc' = pc /\ next' = [next EXCEPT ![r] = h + 1]
        /\ made' = [made EXCEPT ![h] = n + 1]
        /\ updated' = [updated EXCEPT ![r][h] = <<h, n + 1>>]
        /\ cleared' = cleared \cup {updated[r][h]}
        /\ UNCHANGED <<conns, attempt, reconnectMu>>
    BY <1>5, <1>t, <2>2, <2>3 DEF ReconnectHost, ReplaceAndClear, Go, TypeOK
  <2>5. /\ updated'[r][h] = <<h, n + 1>> /\ next'[r] = h + 1 /\ made'[h] = n + 1
        /\ \A g \in Hosts : g # h => updated'[r][g] = updated[r][g] /\ made'[g] = made[g]
    BY <2>4, <1>t DEF TypeOK
  <2>6. h \in Nat /\ h < h + 1 /\ ~ (h < h) /\ n + 1 \in 0 .. n + 1
    BY HostsAre
  <2>7. updated[r][h] = conns[h]
    BY <2>2, <2>4, <2>6 DEF Rounds
  <2>8. conns[h] \in cleared' /\ h < next'[r]
    BY <2>4, <2>5, <2>6, <2>7
  <2>9. ASSUME NEW g \in Hosts
        PROVE  /\ updated'[r][g] = <<g, made'[g]>>
               /\ updated'[r][g] = conns[g] \/ (g < next'[r] /\ conns[g] \in cleared')
    <3>1. CASE g = h
      BY <2>5, <2>8, <3>1
    <3>2. CASE g # h
      <4>1. updated'[r][g] = <<g, made'[g]>>
        BY <2>4, <2>5, <3>2 DEF Rounds
      <4>2. g < h => g < next'[r]
        BY <2>5, HostsAre
      <4> QED
        BY <2>2, <2>4, <2>5, <3>2, <4>1, <4>2 DEF Rounds
    <3> QED
      BY <3>1, <3>2
  <2>10. \A q \in Requests : pc'[q] = "reconnect" <=> q = r
    BY <2>4 DEF Rounds
  <2>11. reconnectMu' = r /\ attempt'[r] < RemoteRetries /\ conns' = conns
    BY <2>4 DEF Rounds
  <2> QED
    BY <2>9, <2>10, <2>11 DEF Rounds
<1>6. ASSUME NEW r \in Requests, InstallRound(r) PROVE Rounds'
  <2>1. pc[r] = "reconnect" /\ pc' = [pc EXCEPT ![r] = "choose"] /\ reconnectMu' = None
    BY <1>6 DEF InstallRound, Go
  <2>2. \A q \in Requests : pc'[q] # "reconnect"
    BY <2>1, <1>t DEF Rounds, TypeOK
  <2> QED
    BY <2>1, <2>2 DEF Rounds
<1>7. ASSUME NEW r \in Requests, RequestStep(r) \/ InterruptHanged(r),
             ~ StartRound(r), ~ SkipHost(r), ~ ReconnectHost(r), ~ InstallRound(r)
      PROVE  Rounds'
  <2>1. UNCHANGED <<conns, made, attempt, roundVars, cleared>>
    BY <1>7 DEF RequestStep, InterruptHanged, HandleInvocation, SaveOwnPch,
         ChooseRemoteConnection, NoRemote, Register, StartSession, FailToStart, StartRefused,
         EndAttempt, OnRemoteCompilationFailed, StartLocalCxx, EndLocalCxx, LeaveInvocation
  <2>2. \A q \in Requests : pc'[q] = "reconnect" <=> pc[q] = "reconnect"
    BY <1>7, <1>t DEF TypeOK, Go, RequestStep, InterruptHanged, HandleInvocation, SaveOwnPch,
         Fallback, ChooseRemoteConnection, NoRemote, Register, StartSession, FailToStart,
         StartRefused, EndAttempt, OnRemoteCompilationFailed, StartLocalCxx, EndLocalCxx
  <2> QED
    BY <2>1, <2>2, <1>k
<1>8. CASE UNCHANGED vars
  BY <1>8, <1>k DEF vars
<1> QED
  BY <1>1, <1>2, <1>3, <1>4, <1>5, <1>6, <1>7, <1>8 DEF Next, ConnectionStep, RequestStep

(***************************************************************************)
(* A step of one request is no step of another.                            *)
(***************************************************************************)
LEMMA OthersUnmoved ==
  ASSUME Typed, NEW r \in Requests, RequestStep(r) \/ InterruptHanged(r),
         NEW q \in Requests, q # r
  PROVE  /\ pc'[q] = pc[q] /\ attempt'[q] = attempt[q] /\ remote'[q] = remote[q]
         /\ result'[q] = result[q] /\ gotFrom'[q] = gotFrom[q]
         /\ \A n : <<q, n>> \in active' <=> <<q, n>> \in active
<1> USE DEF connVars, requestVars, sessionVars, roundVars, Typed, TypeOK
<1>1. CASE InterruptHanged(r)
  BY <1>1 DEF InterruptHanged, Interrupted
<1>2. CASE RequestStep(r)
  <2>1. pc'[q] = pc[q]
    BY <1>2 DEF RequestStep, HandleInvocation, SaveOwnPch, Go,
         ChooseRemoteConnection, NoRemote, Register, StartSession, FailToStart, StartRefused,
         EndAttempt, OnRemoteCompilationFailed, StartRound, SkipHost, ReconnectHost,
         InstallRound, StartLocalCxx, EndLocalCxx
  <2>2. attempt'[q] = attempt[q]
    BY <1>2 DEF RequestStep, HandleInvocation, SaveOwnPch,
         ChooseRemoteConnection, NoRemote, Register, StartSession, FailToStart, StartRefused,
         EndAttempt, OnRemoteCompilationFailed, StartRound, SkipHost, ReconnectHost,
         InstallRound, StartLocalCxx, EndLocalCxx
  <2>3. remote'[q] = remote[q] /\ result'[q] = result[q] /\ gotFrom'[q] = gotFrom[q]
    BY <1>2 DEF RequestStep, HandleInvocation, SaveOwnPch, LeaveInvocation,
         ChooseRemoteConnection, NoRemote, Register, StartSession, FailToStart, StartRefused,
         EndAttempt, OnRemoteCompilationFailed, StartRound, SkipHost, ReconnectHost,
         InstallRound, StartLocalCxx, EndLocalCxx
  <2>4. \A n : <<q, n>> \in active' <=> <<q, n>> \in active
    BY <1>2 DEF RequestStep, HandleInvocation, SaveOwnPch, LeaveInvocation, SessionID,
         ChooseRemoteConnection, NoRemote, Register, StartSession, FailToStart, StartRefused,
         EndAttempt, OnRemoteCompilationFailed, StartRound, SkipHost, ReconnectHost,
         InstallRound, StartLocalCxx, EndLocalCxx
  <2> QED
    BY <2>1, <2>2, <2>3, <2>4
<1> QED
  BY <1>1, <1>2

(***************************************************************************)
(* What a step of a request does to its own attempt.                       *)
(***************************************************************************)
LEMMA OwnAttemptNext ==
  ASSUME Inv, NEW r \in Requests, RequestStep(r) \/ InterruptHanged(r)
  PROVE  AttemptKnown(r)'
<1> USE DEF connVars, requestVars, sessionVars, roundVars, SessionID
<1>t. /\ pc \in [Requests -> PcStages] /\ attempt \in [Requests -> 0 .. RemoteRetries]
      /\ remote \in [Requests -> Connections \cup {None}]
      /\ result \in [Requests -> {"none", "obj", "error"}]
      /\ active \subseteq Requests \X (0 .. RemoteRetries)
      /\ gotFrom \in [Requests -> SessionsOfAll \cup {None}]
      /\ kind[r] \in {"cpp", "coverage", "pch", "local"}
  BY DaemonRetriesAssumption DEF Inv, Typed, TypeOK, PcStages
<1>k. AttemptKnown(r)
  BY DEF Inv, AttemptsKnown
<1>1. CASE InterruptHanged(r)
  BY <1>1, <1>t, <1>k DEF InterruptHanged, Interrupted, AttemptKnown, SessionOf
<1>2. CASE ChooseRemoteConnection(r)
  BY <1>2, <1>t, <1>k DEF ChooseRemoteConnection, Go, AttemptKnown
<1>3. CASE Register(r)
  BY <1>3, <1>t, <1>k DEF Register, Go, AttemptKnown
<1>4. CASE StartSession(r)
  BY <1>4, <1>t, <1>k DEF StartSession, Go, AttemptKnown
<1>5. CASE FailToStart(r) \/ StartRefused(r) \/ EndAttempt(r)
  BY <1>5, <1>t, <1>k DEF FailToStart, StartRefused, EndAttempt, LeaveInvocation, Go,
       AttemptKnown
<1>6. CASE InstallRound(r)
  BY <1>6, <1>t, <1>k DEF InstallRound, Go, AttemptKnown
<1>7. CASE \/ HandleInvocation(r) \/ SaveOwnPch(r) \/ NoRemote(r)
           \/ OnRemoteCompilationFailed(r) \/ StartRound(r) \/ SkipHost(r)
           \/ ReconnectHost(r) \/ StartLocalCxx(r) \/ EndLocalCxx(r)
  <2>1. UNCHANGED <<active, attempt, remote, result, gotFrom>>
    BY <1>7 DEF HandleInvocation, SaveOwnPch, NoRemote,
       OnRemoteCompilationFailed, StartRound, SkipHost, ReconnectHost, StartLocalCxx,
       EndLocalCxx
  <2>2. pc[r] \notin {"register", "start", "wait"} /\ pc'[r] \notin {"register", "start", "wait"}
    BY <1>7, <1>t DEF HandleInvocation, SaveOwnPch, NoRemote, Fallback,
       OnRemoteCompilationFailed, StartRound, SkipHost, ReconnectHost, StartLocalCxx,
       EndLocalCxx, Go
  <2> QED
    BY <2>1, <2>2, <1>k DEF AttemptKnown
<1> QED
  BY <1>1, <1>2, <1>3, <1>4, <1>5, <1>6, <1>7 DEF RequestStep

(***************************************************************************)
(* An interrupt reaches registered attempts; an .o is given to the one     *)
(* which waits for it.                                                     *)
(***************************************************************************)
LEMMA AttemptsNext ==
  ASSUME Inv, [Next]_vars
  PROVE  AttemptsKnown'
<1> USE DEF connVars, requestVars, sessionVars, roundVars
<1>t. /\ Typed /\ TypeOK
      /\ pc \in [Requests -> PcStages] /\ attempt \in [Requests -> 0 .. RemoteRetries]
      /\ result \in [Requests -> {"none", "obj", "error"}]
      /\ gotFrom \in [Requests -> SessionsOfAll \cup {None}]
  BY DEF Inv, Typed, TypeOK, PcStages
<1>k. AttemptsKnown
  BY DEF Inv
<1>i. ASSUME \/ result' = result
             \/ \E c \in Connections : result' = Interrupted(OnConnection(c)),
             UNCHANGED <<pc, attempt, remote, active, gotFrom>>
      PROVE  AttemptsKnown'
  <2>1. ASSUME NEW r \in Requests
        PROVE  \/ result'[r] = result[r]
               \/ result'[r] = "error" /\ SessionID(r) \in active
    BY <1>i, <1>t DEF Interrupted, OnConnection
  <2>2. ASSUME NEW r \in Requests, SessionID(r) \in active
        PROVE  pc[r] \in {"start", "wait"}
    BY <1>k, <1>t, <2>2 DEF AttemptsKnown, AttemptKnown, SessionID
  <2> QED
    BY <1>i, <1>k, <2>1, <2>2 DEF AttemptsKnown, AttemptKnown, SessionID, SessionOf
<1>1. CASE ConnectionStep /\ ~ \E s \in sessions : ReceiveObj(s)
  <2>1. \/ result' = result
        \/ \E c \in Connections : result' = Interrupted(OnConnection(c))
    BY <1>1 DEF ConnectionStep, StartConnecting, EnterConnection, BreakStream,
       RecreateStream, OnRemoteBecameUnavailable, InterruptInvocations
  <2>2. UNCHANGED <<pc, attempt, remote, active, gotFrom>>
    BY <1>1 DEF ConnectionStep, StartConnecting, EnterConnection, BreakStream,
       RecreateStream, OnRemoteBecameUnavailable, InterruptInvocations
  <2> QED
    BY <2>1, <2>2, <1>i
<1>2. ASSUME NEW s \in sessions, ReceiveObj(s) PROVE AttemptsKnown'
  <2>1. UNCHANGED <<pc, attempt, remote, active>>
    BY <1>2 DEF ReceiveObj
  <2>2. s \in SessionsOfAll /\ s.id = <<s.id[1], s.attempt>> /\ s.id[1] \in Requests
    BY <1>t DEF Inv, SessionsKnown, TypeOK, SessionsOfAll
  <2>3. ASSUME NEW r \in Requests, s.id \in active, SessionID(r) = s.id
        PROVE  pc[r] = "wait" /\ s = SessionOf(r)
    <3>1. r = s.id[1] /\ attempt[r] = s.attempt
      BY <2>2, <2>3 DEF SessionID
    <3>2. pc[r] \in {"start", "wait"}
      <4>1. AttemptKnown(r) /\ attempt[r] \in 0 .. RemoteRetries
        BY <1>k, <1>t DEF AttemptsKnown
      <4>2. <<r, attempt[r]>> \in active
        BY <2>3 DEF SessionID
      <4> QED
        BY <4>1, <4>2 DEF AttemptKnown
    <3>3. pc[r] = "wait" /\ remote[r] = s.conn
      BY <3>1, <3>2 DEF Inv, SessionsKnown, Over
    <3>4. s = [id |-> s.id, conn |-> s.conn, attempt |-> s.attempt]
      BY <2>2 DEF SessionsOfAll
    <3> QED
      BY <2>3, <3>1, <3>3, <3>4 DEF SessionOf
  <2>4. ASSUME NEW r \in Requests
        PROVE  \/ result'[r] = result[r] /\ gotFrom'[r] = gotFrom[r]
               \/ result'[r] = "obj" /\ gotFrom'[r] = s /\ pc[r] = "wait" /\ s = SessionOf(r)
    BY <1>2, <1>t, <2>3 DEF ReceiveObj
  <2> QED
    BY <1>k, <2>1, <2>4 DEF AttemptsKnown, AttemptKnown, SessionID, SessionOf
<1>3. ASSUME NEW r \in Requests, RequestStep(r) \/ InterruptHanged(r)
      PROVE  AttemptsKnown'
  <2>1. ASSUME NEW q \in Requests, q # r PROVE AttemptKnown(q)'
    BY <1>3, <1>t, <1>k, <2>1, OthersUnmoved
    DEF AttemptsKnown, AttemptKnown, SessionID, SessionOf
  <2> QED
    BY <1>3, <2>1, OwnAttemptNext DEF AttemptsKnown
<1>4. CASE UNCHANGED vars
  BY <1>4, <1>k DEF vars, AttemptsKnown, AttemptKnown, SessionID, SessionOf
<1> QED
  BY <1>1, <1>2, <1>3, <1>4 DEF Next, ConnectionStep

(***************************************************************************)
(* A request never comes back to an attempt.                               *)
(***************************************************************************)
LEMMA SessionsNext ==
  ASSUME Inv, [Next]_vars
  PROVE  SessionsKnown'
<1> USE DEF connVars, requestVars, sessionVars, roundVars
<1>t. /\ Typed /\ pc \in [Requests -> PcStages] /\ attempt \in [Requests -> 0 .. RemoteRetries]
      /\ remote \in [Requests -> Connections \cup {None}] /\ sessions \subseteq SessionsOfAll
      /\ \A s \in sessions : s.id[1] \in Requests /\ s.attempt \in 0 .. RemoteRetries
  BY DEF Inv, Typed, TypeOK, PcStages, SessionsOfAll
<1>k. SessionsKnown
  BY DEF Inv
<1>1. CASE sessions' \subseteq sessions /\ UNCHANGED <<pc, attempt, remote>>
  BY <1>1, <1>k DEF SessionsKnown
<1>2. CASE ConnectionStep
  <2>1. ASSUME NEW c \in Connections, NEW s \in Streams,
               \/ BreakStream(c, s) \/ RecreateStream(c, s)
               \/ OnRemoteBecameUnavailable(c, s) \/ InterruptInvocations(c, s)
        PROVE  sessions' \subseteq sessions /\ UNCHANGED <<pc, attempt, remote>>
    BY <2>1 DEF BreakStream, LoseSessions, RecreateStream, OnRemoteBecameUnavailable,
         InterruptInvocations
  <2>2. ASSUME NEW h \in Hosts, StartConnecting(h) \/ EnterConnection(h)
        PROVE  sessions' \subseteq sessions /\ UNCHANGED <<pc, attempt, remote>>
    BY <2>2 DEF StartConnecting, EnterConnection
  <2>3. ASSUME NEW s \in sessions, ReceiveObj(s)
        PROVE  sessions' \subseteq sessions /\ UNCHANGED <<pc, attempt, remote>>
    BY <2>3 DEF ReceiveObj
  <2> QED
    BY <1>1, <1>2, <2>1, <2>2, <2>3 DEF ConnectionStep
<1>3. ASSUME NEW r \in Requests, RequestStep(r) PROVE SessionsKnown'
  <2>1. ASSUME NEW s \in sessions, s.id[1] # r
        PROVE  LET q == s.id[1]
               IN  /\ s.id = <<q, s.attempt>> /\ s.attempt <= attempt'[q]
                   /\ s.attempt = attempt'[q] => \/ pc'[q] = "wait" /\ remote'[q] = s.conn
                                                \/ pc'[q] \in Over
    <3>1. /\ pc'[s.id[1]] = pc[s.id[1]] /\ attempt'[s.id[1]] = attempt[s.id[1]]
          /\ remote'[s.id[1]] = remote[s.id[1]]
      BY <1>3, <1>t, <2>1, OthersUnmoved
    <3> QED
      BY <1>k, <2>1, <3>1 DEF SessionsKnown
  <2>2. ASSUME NEW s \in sessions, s.id[1] = r
        PROVE  /\ s.id = <<r, s.attempt>> /\ s.attempt <= attempt'[r]
               /\ s.attempt = attempt'[r] => \/ pc'[r] = "wait" /\ remote'[r] = s.conn
                                            \/ pc'[r] \in Over
    <3>1. /\ s.id = <<r, s.attempt>> /\ s.attempt <= attempt[r] /\ s.attempt \in Nat
          /\ s.attempt = attempt[r] => \/ pc[r] = "wait" /\ remote[r] = s.conn
                                      \/ pc[r] \in Over
      BY <1>k, <1>t, <2>2 DEF SessionsKnown
    <3>2. \/ attempt'[r] = attempt[r] + 1
          \/ attempt'[r] = attempt[r] /\ (pc[r] \in Over => pc'[r] \in Over)
      BY <1>3, <1>t DEF Over, Fallback, Go, PcStages, RequestStep, HandleInvocation, SaveOwnPch,
         ChooseRemoteConnection, NoRemote, Register, StartSession, FailToStart, StartRefused,
         EndAttempt, OnRemoteCompilationFailed, StartRound, SkipHost, ReconnectHost,
         InstallRound, StartLocalCxx, EndLocalCxx
    <3>3. pc[r] = "wait" => pc'[r] \in Over /\ attempt'[r] = attempt[r]
      BY <1>3, <1>t DEF Over, Go, RequestStep, HandleInvocation, SaveOwnPch,
         ChooseRemoteConnection, NoRemote, Register, StartSession, FailToStart, StartRefused,
         EndAttempt, OnRemoteCompilationFailed, StartRound, SkipHost, ReconnectHost,
         InstallRound, StartLocalCxx, EndLocalCxx
    <3> QED
      BY <1>t, <3>1, <3>2, <3>3
  <2>3. CASE StartSession(r)
    <3>1. /\ sessions' = sessions \cup {SessionOf(r)} /\ pc'[r] = "wait"
          /\ UNCHANGED <<attempt, remote>>
      BY <1>t, <2>3 DEF StartSession, Go
    <3>2. /\ SessionOf(r).id = <<r, attempt[r]>> /\ SessionOf(r).attempt = attempt[r]
          /\ SessionOf(r).conn = remote[r] /\ attempt[r] \in Nat
      BY <1>t DEF SessionOf, SessionID
    <3> QED
      BY <2>1, <2>2, <3>1, <3>2 DEF SessionsKnown
  <2>4. CASE sessions' = sessions
    BY <2>1, <2>2, <2>4 DEF SessionsKnown
  <2> QED
    BY <1>3, <2>3, <2>4 DEF RequestStep, HandleInvocation, SaveOwnPch,
         ChooseRemoteConnection, NoRemote, Register, FailToStart, StartRefused,
         EndAttempt, OnRemoteCompilationFailed, StartRound, SkipHost, ReconnectHost,
         InstallRound, StartLocalCxx, EndLocalCxx
<1>4. ASSUME NEW r \in Requests, InterruptHanged(r) PROVE SessionsKnown'
  BY <1>1, <1>4 DEF InterruptHanged
<1>5. CASE UNCHANGED vars
  BY <1>1, <1>5 DEF vars
<1> QED
  BY <1>2, <1>3, <1>4, <1>5 DEF Next, ConnectionStep

(***************************************************************************)
(* A connection is marked before the interrupts, and stays marked.         *)
(***************************************************************************)
LEMMA MarkedFirst ==
  ASSUME Inv, [Next]_vars
  PROVE  GivenUpIsMarked'
<1> USE DEF connVars, requestVars, sessionVars, roundVars
<1>t. /\ stream \in [Connections \X Streams -> StreamStages] /\ GivenUpIsMarked
      /\ \A h \in Hosts : <<h, 0>> \in Connections
  BY DaemonRetriesAssumption DEF Inv, Typed, TypeOK, StreamStages, Connections
<1>1. CASE unavailable \subseteq unavailable' /\ UNCHANGED stream
  BY <1>1, <1>t DEF GivenUpIsMarked
<1>2. ASSUME NEW c \in Connections, OpenStreams(c), unavailable \subseteq unavailable'
      PROVE  GivenUpIsMarked'
  BY <1>2, <1>t, OpenedTyped DEF GivenUpIsMarked
<1>3. ASSUME NEW c \in Connections, NEW s \in Streams,
             \/ BreakStream(c, s) \/ RecreateStream(c, s)
             \/ OnRemoteBecameUnavailable(c, s) \/ InterruptInvocations(c, s)
      PROVE  GivenUpIsMarked'
  <2>1. CASE BreakStream(c, s) \/ RecreateStream(c, s)
    <3>1. \E to \in {"live", "broken"} : stream' = [stream EXCEPT ![<<c, s>>] = to]
      BY <2>1 DEF BreakStream, RecreateStream
    <3>2. unavailable' = unavailable
      BY <2>1 DEF BreakStream, RecreateStream
    <3> QED
      BY <1>t, <3>1, <3>2, StreamTyped DEF GivenUpIsMarked, StreamStages
  <2>2. CASE OnRemoteBecameUnavailable(c, s)
    BY <1>t, <2>2, StreamTyped DEF OnRemoteBecameUnavailable, MarkUnavailable,
       GivenUpIsMarked, StreamStages
  <2>3. CASE InterruptInvocations(c, s)
    BY <1>t, <2>3, StreamTyped DEF InterruptInvocations, GivenUpIsMarked, StreamStages
  <2> QED
    BY <1>3, <2>1, <2>2, <2>3
<1>4. ASSUME NEW h \in Hosts, StartConnecting(h) \/ EnterConnection(h)
      PROVE  GivenUpIsMarked'
  BY <1>1, <1>2, <1>4, <1>t DEF StartConnecting, EnterConnection
<1>5. ASSUME NEW r \in Requests, ReconnectHost(r) PROVE GivenUpIsMarked'
  <2>1. <<next[r], made[next[r]] + 1>> \in Connections
    <3>1. next[r] \in 1 .. NHosts + 1 /\ next[r] <= NHosts
      BY <1>5 DEF ReconnectHost, Inv, Typed, TypeOK
    <3>2. next[r] \in Hosts
      BY <3>1 DEF Hosts
    <3> QED
      BY <1>5, <3>2, DaemonRetriesAssumption
      DEF ReconnectHost, Inv, Typed, TypeOK, Connections
  <2> QED
    BY <1>1, <1>2, <1>5, <2>1 DEF ReconnectHost
<1>6. ASSUME NEW r \in Requests, RequestStep(r) \/ InterruptHanged(r), ~ ReconnectHost(r)
      PROVE  GivenUpIsMarked'
  <2>1. UNCHANGED <<unavailable, stream>>
    BY <1>6 DEF RequestStep, InterruptHanged, HandleInvocation, SaveOwnPch,
         ChooseRemoteConnection, NoRemote, Register, StartSession, FailToStart, StartRefused,
         EndAttempt, OnRemoteCompilationFailed, StartRound, SkipHost,
         InstallRound, StartLocalCxx, EndLocalCxx
  <2> QED
    BY <1>1, <2>1
<1>7. ASSUME NEW s \in sessions, ReceiveObj(s) PROVE GivenUpIsMarked'
  BY <1>1, <1>7 DEF ReceiveObj
<1>8. CASE UNCHANGED vars
  BY <1>1, <1>8 DEF vars
<1> QED
  BY <1>3, <1>4, <1>5, <1>6, <1>7, <1>8 DEF Next

(***************************************************************************)
(* The interrupt has come, or is on its way.                               *)
(***************************************************************************)
MarkedIsInterrupted ==
  \A r \in Requests :
    pc[r] = "wait" /\ result[r] = "none" /\ remote[r] \in unavailable => BeingMarked(remote[r])

(***************************************************************************)
(* Whoever marks a connection is going to interrupt what waits for it; a   *)
(* request that starts a session afterwards has seen the mark.             *)
(***************************************************************************)
LEMMA MarkedNext ==
  ASSUME Inv, [Next]_vars
  PROVE  MarkedIsInterrupted'
<1> USE DEF connVars, requestVars, sessionVars, roundVars
<1>t. /\ Typed /\ pc \in [Requests -> PcStages]
      /\ remote \in [Requests -> Connections \cup {None}]
      /\ result \in [Requests -> {"none", "obj", "error"}]
      /\ stream \in [Connections \X Streams -> StreamStages]
  BY DEF Inv, Typed, TypeOK, PcStages, StreamStages
<1>k. /\ MarkedIsInterrupted
      /\ \A r \in Requests : pc[r] = "wait" => remote[r] \in Connections /\ SessionID(r) \in active
  BY <1>t DEF Inv, AttemptsKnown, AttemptKnown, WaitingIsInterrupted, MarkedIsInterrupted, Streams
<1>i. ASSUME NEW rs, NEW r \in Requests
      PROVE  /\ Interrupted(rs)[r] = "none" => result[r] = "none"
             /\ r \in rs => Interrupted(rs)[r] # "none"
  BY DEF Interrupted
<1>1. ASSUME NEW c \in Connections, NEW s \in Streams, RecreateStream(c, s) \/ BreakStream(c, s)
      PROVE  MarkedIsInterrupted'
  <2>1. UNCHANGED <<pc, remote, unavailable>>
    BY <1>1, <1>t DEF RecreateStream, BreakStream
  <2>2. \A d \in Connections, u \in Streams :
          stream[<<d, u>>] = "marking" => stream'[<<d, u>>] = "marking"
    <3>1. PICK to \in StreamStages : stream' = [stream EXCEPT ![<<c, s>>] = to]
      BY <1>1 DEF RecreateStream, BreakStream, StreamStages
    <3>2. stream[<<c, s>>] # "marking"
      BY <1>1 DEF RecreateStream, BreakStream
    <3>3. \A d \in Connections, u \in Streams :
            stream'[<<d, u>>] = IF d = c /\ u = s THEN to ELSE stream[<<d, u>>]
      BY <1>t, <3>1, StreamTyped
    <3> QED
      BY <3>2, <3>3
  <2>3. \A r \in Requests : result'[r] = "none" => result[r] = "none"
    <3>1. result' = result \/ result' = Interrupted(OnConnection(c))
      BY <1>1 DEF RecreateStream, BreakStream
    <3> QED
      BY <3>1, <1>i
  <2> QED
    BY <1>k, <2>1, <2>2, <2>3 DEF MarkedIsInterrupted, BeingMarked
<1>2. ASSUME NEW c \in Connections, NEW s \in Streams, OnRemoteBecameUnavailable(c, s)
      PROVE  MarkedIsInterrupted'
  <2> DEFINE to == IF c \notin Installed THEN "unheard"
                   ELSE IF c \in unavailable THEN "gone" ELSE "marking"
  <2>1. /\ UNCHANGED <<pc, remote, result>> /\ stream[<<c, s>>] = "broken"
        /\ unavailable' = unavailable \cup ({c} \cap Installed)
        /\ stream' = [stream EXCEPT ![<<c, s>>] = to]
    BY <1>2 DEF OnRemoteBecameUnavailable, MarkUnavailable
  <2>2. to \in StreamStages
    BY DEF StreamStages
  <2>3. \A d \in Connections, u \in Streams :
          stream'[<<d, u>>] = IF d = c /\ u = s THEN to ELSE stream[<<d, u>>]
    BY <1>t, <2>1, <2>2, StreamTyped
  <2>4. ASSUME NEW r \in Requests, pc[r] = "wait", result[r] = "none",
               remote[r] \in unavailable'
        PROVE  BeingMarked(remote[r])'
    <3>1. CASE remote[r] \in unavailable
      <4>1. PICK u \in Streams : stream[<<remote[r], u>>] = "marking"
        BY <1>k, <2>4, <3>1 DEF MarkedIsInterrupted, BeingMarked
      <4>2. stream'[<<remote[r], u>>] = "marking"
        BY <1>k, <2>1, <2>3, <2>4, <4>1
      <4> QED
        BY <2>1, <4>2 DEF BeingMarked
    <3>2. CASE remote[r] \notin unavailable
      <4>1. remote[r] = c /\ c \in Installed \ unavailable
        BY <2>1, <2>4, <3>2
      <4>2. stream'[<<c, s>>] = "marking"
        BY <2>3, <4>1
      <4> QED
        BY <2>1, <4>1, <4>2 DEF BeingMarked
    <3> QED
      BY <3>1, <3>2
  <2> QED
    BY <2>1, <2>4 DEF MarkedIsInterrupted
<1>3. ASSUME NEW c \in Connections, NEW s \in Streams, InterruptInvocations(c, s)
      PROVE  MarkedIsInterrupted'
  <2>1. /\ UNCHANGED <<pc, remote, unavailable>> /\ result' = Interrupted(OnConnection(c))
        /\ \A d \in Connections, u \in Streams : d # c => stream'[<<d, u>>] = stream[<<d, u>>]
    BY <1>3, <1>t, StreamTyped DEF InterruptInvocations, StreamStages
  <2>2. \A r \in Requests : pc[r] = "wait" /\ remote[r] = c => result'[r] # "none"
    BY <1>k, <1>i, <2>1 DEF OnConnection
  <2>3. \A r \in Requests : result'[r] = "none" => result[r] = "none"
    BY <1>i, <2>1
  <2> QED
    BY <1>k, <2>1, <2>2, <2>3 DEF MarkedIsInterrupted, BeingMarked
<1>4. ASSUME NEW s \in sessions, ReceiveObj(s) PROVE MarkedIsInterrupted'
  <2>1. \A r \in Requests : result'[r] = "none" => result[r] = "none"
    BY <1>4 DEF ReceiveObj
  <2> QED
    BY <1>4, <1>k, <2>1 DEF ReceiveObj, MarkedIsInterrupted, BeingMarked
<1>5. ASSUME NEW h \in Hosts, StartConnecting(h) \/ EnterConnection(h)
      PROVE  MarkedIsInterrupted'
  BY <1>5 DEF StartConnecting, EnterConnection, MarkedIsInterrupted,
      Inv, ConnectionsMade
<1>6. ASSUME NEW r \in Requests, StartSession(r) PROVE MarkedIsInterrupted'
  <2>1. /\ pc' = [pc EXCEPT ![r] = "wait"] /\ remote[r] \notin unavailable
        /\ UNCHANGED <<remote, result, unavailable, stream>>
    BY <1>6 DEF StartSession, Go
  <2> QED
    BY <1>k, <1>t, <2>1 DEF MarkedIsInterrupted, BeingMarked
<1>7. ASSUME NEW r \in Requests, ReconnectHost(r) PROVE MarkedIsInterrupted'
  <2>1. PICK h \in Hosts : h = next[r]
    <3>1. next[r] \in 1 .. NHosts + 1 /\ next[r] <= NHosts
      BY <1>7 DEF ReconnectHost, Inv, Typed, TypeOK
    <3> QED
      BY <3>1 DEF Hosts
  <2>2. PICK n \in Nat : n = made[h]
    BY DEF Inv, Typed, TypeOK
  <2>3. /\ pc' = pc /\ UNCHANGED <<remote, result>>
        /\ unavailable' \subseteq unavailable \cup {<<h, n + 1>>}
        /\ <<h, n + 1>> \in Connections
        /\ UNCHANGED stream \/ OpenStreams(<<h, n + 1>>)
    <3>1. <<h, n + 1>> \in Connections
      BY <1>7, <2>1, <2>2, DaemonRetriesAssumption DEF ReconnectHost, Connections
    <3> QED
      BY <1>7, <1>t, <2>1, <2>2, <3>1 DEF ReconnectHost, Go
  <2>4. \A q \in Requests : pc[q] = "wait" => remote[q] # <<h, n + 1>>
    BY <1>k, <2>2, DaemonRetriesAssumption DEF Inv, ConnectionsMade
  <2>5. \A d \in Connections, u \in Streams :
          d # <<h, n + 1>> => stream'[<<d, u>>] = stream[<<d, u>>]
    BY <1>t, <2>3, OpenedTyped
  <2> QED
    BY <1>k, <1>t, <2>3, <2>4, <2>5 DEF MarkedIsInterrupted, BeingMarked
<1>8. ASSUME NEW r \in Requests, RequestStep(r) \/ InterruptHanged(r),
             ~ StartSession(r), ~ ReconnectHost(r)
      PROVE  MarkedIsInterrupted'
  <2>1. UNCHANGED <<unavailable, stream>>
    BY <1>8 DEF RequestStep, InterruptHanged, HandleInvocation, SaveOwnPch,
         ChooseRemoteConnection, NoRemote, Register, FailToStart, StartRefused,
         EndAttempt, OnRemoteCompilationFailed, StartRound, SkipHost,
         InstallRound, StartLocalCxx, EndLocalCxx
  <2>2. /\ pc'[r] = "wait" => UNCHANGED <<pc, remote>>
        /\ pc'[r] = "wait" /\ result'[r] = "none" => result[r] = "none"
    <3>1. CASE RequestStep(r)
      <4>1. kind[r] \in {"cpp", "coverage", "pch", "local"}
        BY DaemonRetriesAssumption DEF Inv, Typed, TypeOK
      <4>2. pc'[r] # "wait"
        BY <1>8, <1>t, <3>1, <4>1 DEF RequestStep, HandleInvocation, SaveOwnPch, Go, Fallback,
           ChooseRemoteConnection, NoRemote, Register, FailToStart, StartRefused,
           EndAttempt, OnRemoteCompilationFailed, StartRound, SkipHost,
           InstallRound, StartLocalCxx, EndLocalCxx
      <4> QED
        BY <4>2
    <3>2. CASE InterruptHanged(r)
      BY <1>i, <3>2 DEF InterruptHanged
    <3> QED
      BY <1>8, <3>1, <3>2
  <2>3. \A q \in Requests : q # r => /\ pc'[q] = pc[q] /\ remote'[q] = remote[q]
                                   /\ result'[q] = result[q]
    BY <1>8, <1>t, OthersUnmoved
  <2> QED
    BY <1>k, <2>1, <2>2, <2>3 DEF MarkedIsInterrupted, BeingMarked
<1>9. CASE UNCHANGED vars
  BY <1>9, <1>k DEF vars, MarkedIsInterrupted, BeingMarked
<1> QED
  BY <1>1, <1>2, <1>3, <1>4, <1>5, <1>6, <1>7, <1>8, <1>9 DEF Next, RequestStep

LEMMA WaitingNext ==
  ASSUME Inv, [Next]_vars
  PROVE  WaitingIsInterrupted'
<1>1. \A r \in Requests : pc'[r] = "wait" => remote'[r] \in Connections
  BY TypedNext, AttemptsNext DEF AttemptsKnown, AttemptKnown, Typed, TypeOK
<1> QED
  BY <1>1, MarkedFirst, MarkedNext
  DEF GivenUpIsMarked, MarkedIsInterrupted, WaitingIsInterrupted, BeingMarked

(***************************************************************************)
(* A round clears what it replaces, and installs a list which has the last *)
(* connection made to every host.                                          *)
(***************************************************************************)
LEMMA ReplacedNext ==
  ASSUME Inv, [Next]_vars
  PROVE  ReplacedIsCleared'
<1> USE DEF connVars, requestVars, sessionVars, roundVars
<1>t. /\ TypeOK /\ TypeOK' /\ conns \in [Hosts -> Connections \cup {None}]
      /\ pc \in [Requests -> PcStages]
  BY TypedNext DEF Inv, Typed, TypeOK, PcStages
<1>k. ReplacedIsCleared /\ Rounds /\ ConnectionsMade
  BY DEF Inv
<1>r. Rounds' /\ ConnectionsMade'
  BY RoundsNext, ConnectionsNext
<1>1. CASE /\ UNCHANGED <<conns, made, updated, cleared>> /\ unavailable \subseteq unavailable'
           /\ phase' = "serving" => phase = "serving"
           /\ \A q \in Requests : pc[q] = "reconnect" => pc'[q] = "reconnect"
  BY <1>1, <1>k DEF ReplacedIsCleared
<1>2. ASSUME NEW g \in Hosts, EnterConnection(g) PROVE ReplacedIsCleared'
  <2>1. \A h \in Hosts : made'[h] = 0 /\ made[h] = 0 /\ UNCHANGED cleared
    BY <1>2, <1>k DEF EnterConnection, ConnectionsMade
  <2>2. phase' = "serving" => \A h \in Hosts : conns'[h] = <<h, 0>>
    <3>1. ASSUME phase' = "serving", NEW h \in Hosts PROVE conns'[h] = <<h, 0>>
      <4>1. conns'[h] # None
        BY <1>t, <3>1 DEF TypeOK
      <4>2. conns'[h] \in MadeTo(h)'
        BY <1>r, <4>1 DEF ConnectionsMade
      <4> QED
        BY <2>1, <4>2 DEF MadeTo
    <3> QED
      BY <3>1
  <2>3. \A h \in Hosts, n \in 0 .. 0 : <<h, n>> \notin cleared
    BY <2>1, <1>k DEF ConnectionsMade
  <2> QED
    BY <2>1, <2>2, <2>3 DEF ReplacedIsCleared
<1>3. CASE ConnectionStep /\ ~ \E h \in Hosts : EnterConnection(h)
  BY <1>1, <1>3 DEF ConnectionStep, StartConnecting, BreakStream, PanicOnNil,
       RecreateStream, OnRemoteBecameUnavailable, InterruptInvocations, MarkUnavailable,
       ReceiveObj
<1>4. ASSUME NEW r \in Requests, StartRound(r) PROVE ReplacedIsCleared'
  <2>1. /\ UNCHANGED <<conns, made, cleared, unavailable, phase>> /\ reconnectMu = None
    BY <1>4 DEF StartRound, Go
  <2>2. \A q \in Requests : pc[q] # "reconnect"
    BY <2>1, <1>k, DaemonRetriesAssumption DEF Rounds
  <2> QED
    BY <2>1, <2>2, <1>k DEF ReplacedIsCleared
<1>5. ASSUME NEW r \in Requests, ReconnectHost(r) PROVE ReplacedIsCleared'
  <2>1. PICK g \in Hosts : g = next[r]
    <3>1. next[r] \in 1 .. NHosts + 1 /\ next[r] <= NHosts
      BY <1>5, <1>t DEF ReconnectHost, TypeOK
    <3> QED
      BY <3>1 DEF Hosts
  <2>2. PICK n \in Nat : n = made[g]
    BY <1>t DEF TypeOK
  <2>3. /\ pc' = pc /\ pc[r] = "reconnect" /\ UNCHANGED <<phase, conns>>
        /\ made' = [made EXCEPT ![g] = n + 1]
        /\ updated' = [updated EXCEPT ![r][g] = <<g, n + 1>>]
        /\ cleared' = cleared \cup {updated[r][g]}
    BY <1>5, <1>t, <2>1, <2>2 DEF ReconnectHost, ReplaceAndClear, Go
  <2>4. /\ updated'[r][g] = <<g, n + 1>> /\ made'[g] = n + 1
        /\ \A h \in Hosts : h # g => updated'[r][h] = updated[r][h] /\ made'[h] = made[h]
    BY <2>3, <1>t DEF TypeOK
  <2>5. \A q \in Requests : pc[q] = "reconnect" => q = r
    BY <2>3, <1>k DEF Rounds
  <2>6. /\ updated[r][g] = <<g, n>> /\ updated[r][g] = conns[g]
        /\ updated[r][g] \in unavailable /\ unavailable \subseteq unavailable'
    <3>1. ~ (g < next[r])
      BY <2>1, HostsAre
    <3>2. updated[r][g] = <<g, n>> /\ updated[r][g] = conns[g]
      BY <2>1, <2>2, <2>3, <3>1, <1>k DEF Rounds
    <3> QED
      BY <1>5, <2>1, <3>2 DEF ReconnectHost
  <2>7. ASSUME phase' = "serving", NEW h \in Hosts, NEW m \in 0 .. made'[h]
        PROVE  <<h, m>> \in cleared' <=> m < made'[h]
    <3>1. <<h, m>> \in cleared' => m < made'[h]
      BY <2>7, <1>r, <1>t DEF ConnectionsMade, TypeOK
    <3>2. ASSUME m < made'[h] PROVE <<h, m>> \in cleared'
      <4>1. CASE h = g /\ m = n
        BY <2>3, <2>6, <4>1
      <4>2. CASE h # g \/ m # n
        <5>1. made[h] \in Nat /\ m \in Nat
          BY <1>t DEF TypeOK
        <5>2. m < made[h]
          BY <2>2, <2>4, <3>2, <4>2, <5>1
        <5>3. <<h, m>> \in cleared
          BY <2>3, <2>7, <5>1, <5>2, <1>k DEF ReplacedIsCleared
        <5> QED
          BY <2>3, <5>3
      <4> QED
        BY <4>1, <4>2
    <3> QED
      BY <3>1, <3>2
  <2>8. ASSUME phase' = "serving", NEW h \in Hosts, conns[h] # <<h, made'[h]>>
        PROVE  conns[h] \in unavailable' /\ updated'[r][h] = <<h, made'[h]>>
    <3>1. CASE h = g
      BY <2>2, <2>4, <2>6, <3>1
    <3>2. CASE h # g
      <4>1. conns[h] \in unavailable /\ updated[r][h] = <<h, made[h]>>
        BY <2>3, <2>4, <2>5, <2>8, <3>2, <1>k DEF ReplacedIsCleared
      <4> QED
        BY <2>4, <2>6, <3>2, <4>1
    <3> QED
      BY <3>1, <3>2
  <2> QED
    BY <2>3, <2>7, <2>8 DEF ReplacedIsCleared
<1>6. ASSUME NEW r \in Requests, InstallRound(r) PROVE ReplacedIsCleared'
  <2>1. /\ pc[r] = "reconnect" /\ phase = "serving" /\ conns' = updated[r]
        /\ UNCHANGED <<made, cleared, phase>>
    BY <1>6 DEF InstallRound, Go
  <2>2. \A h \in Hosts : conns'[h] = <<h, made[h]>>
    BY <2>1, <1>k DEF Rounds
  <2> QED
    BY <2>1, <2>2, <1>k DEF ReplacedIsCleared
<1>7. ASSUME NEW r \in Requests, RequestStep(r) \/ InterruptHanged(r),
             ~ StartRound(r), ~ ReconnectHost(r), ~ InstallRound(r)
      PROVE  ReplacedIsCleared'
  <2>1. UNCHANGED <<conns, made, updated, cleared, unavailable, phase>>
    BY <1>7 DEF RequestStep, InterruptHanged, HandleInvocation, SaveOwnPch, Go,
         ChooseRemoteConnection, NoRemote, Register, StartSession, FailToStart, StartRefused,
         EndAttempt, OnRemoteCompilationFailed, SkipHost, StartLocalCxx, EndLocalCxx
  <2>2. \A q \in Requests : pc[q] = "reconnect" => pc'[q] = "reconnect"
    BY <1>7, <1>t DEF RequestStep, InterruptHanged, HandleInvocation, SaveOwnPch, Go,
         ChooseRemoteConnection, NoRemote, Register, StartSession, FailToStart, StartRefused,
         EndAttempt, OnRemoteCompilationFailed, SkipHost, StartLocalCxx, EndLocalCxx
  <2> QED
    BY <2>1, <2>2, <1>1
<1>8. CASE UNCHANGED vars
  BY <1>1, <1>8 DEF vars
<1> QED
  BY <1>2, <1>3, <1>4, <1>5, <1>6, <1>7, <1>8 DEF Next, ConnectionStep, RequestStep

-----------------------------------------------------------------------------
LEMMA Invariance == Spec => []Inv
<1>1. Inv /\ [Next]_vars => Inv'
  BY TypedNext, ConnectionsNext, RoundsNext, AttemptsNext, SessionsNext, MarkedFirst,
     WaitingNext, ReplacedNext DEF Inv
<1> QED
  BY InitInv, <1>1, PTL DEF Spec

(***************************************************************************)
(* Every variable keeps to its type, for any requests, servers, limits and *)
(* retries: in particular the local queue stays within its size.           *)
(***************************************************************************)
THEOREM TypeCorrect == Spec => []TypeOK
<1>1. Inv => TypeOK
  BY DEF Inv, Typed
<1> QED
  BY Invariance, <1>1, PTL

(***************************************************************************)
(* Who waits for an .o of a connection that is marked, or was given up     *)
(* while it was in the list, is interrupted or about to be, whatever the   *)
(* order of choosing it, registering, starting a session and marking.      *)
(* This says nothing of a connection given up before it came into the list *)
(* (GivenUpIsInterrupted).                                                 *)
(***************************************************************************)
THEOREM MarkedIsNotAwaited == Spec => []WaitingIsInterrupted
<1>1. Inv => WaitingIsInterrupted
  BY DEF Inv
<1> QED
  BY Invariance, <1>1, PTL

(***************************************************************************)
(* A request takes no .o but that of its present attempt, from the         *)
(* connection which that attempt has chosen, however many have failed.     *)
(***************************************************************************)
THEOREM OwnObjIsTaken == Spec => []ObjIsOfThisAttempt
<1>1. Inv => ObjIsOfThisAttempt
  BY DEF Inv, AttemptsKnown, AttemptKnown, ObjIsOfThisAttempt
<1> QED
  BY Invariance, <1>1, PTL

(***************************************************************************)
(* The last connection made to a host is open and all others are cleared;  *)
(* the list has the last one, unless a round under way has it to install.  *)
(***************************************************************************)
THEOREM NoConnectionIsLeaked == Spec => []ReplacedIsCleared
<1>1. Inv => ReplacedIsCleared
  BY DEF Inv
<1> QED
  BY Invariance, <1>1, PTL

(***************************************************************************)
(* A connection that is available leaves the list in no step, and becomes  *)
(* unavailable only by its own broken stream.                              *)
(***************************************************************************)
THEOREM AvailableIsKept == Spec => AvailableStays
<1> DEFINE Step ==
      \A h \in Hosts :
        LET c == conns[h]
        IN  /\ (c # None /\ conns'[h] # c) => c \in unavailable
            /\ (c # None /\ c \notin unavailable /\ c \in unavailable')
                 => \E s \in Streams : stream[<<c, s>>] = "broken"
<1>1. ASSUME Inv, [Next]_vars PROVE Step
  <2> USE DEF connVars, requestVars, sessionVars, roundVars
  <2>t. /\ TypeOK /\ conns \in [Hosts -> Connections \cup {None}] /\ cleared \subseteq unavailable
        /\ Rounds /\ ConnectionsMade
    BY <1>1 DEF Inv, Typed, TypeOK
  <2>1. CASE UNCHANGED <<conns, unavailable>>
    BY <2>1
  <2>2. ASSUME NEW g \in Hosts, EnterConnection(g) PROVE Step
    <3>1. /\ conns[g] = None /\ unavailable' \subseteq unavailable \cup {<<g, 0>>}
          /\ \A h \in Hosts : h # g => conns'[h] = conns[h]
      BY <2>2, <2>t DEF EnterConnection
    <3>2. \A h \in Hosts : conns[h] # None => conns[h][1] = h
      BY <2>t DEF ConnectionsMade, MadeTo
    <3> QED
      BY <3>1, <3>2
  <2>3. ASSUME NEW c \in Connections, NEW s \in Streams, OnRemoteBecameUnavailable(c, s)
        PROVE  Step
    BY <2>3, <2>t DEF OnRemoteBecameUnavailable, MarkUnavailable
  <2>4. ASSUME NEW r \in Requests, ReconnectHost(r) PROVE Step
    <3>1. next[r] \in Hosts /\ made[next[r]] \in Nat
      <4>1. next[r] \in 1 .. NHosts + 1 /\ next[r] <= NHosts
        BY <2>4, <2>t DEF ReconnectHost, TypeOK
      <4>2. next[r] \in Hosts
        BY <4>1 DEF Hosts
      <4> QED
        BY <4>2, <2>t DEF TypeOK
    <3>2. /\ UNCHANGED conns
          /\ unavailable' \subseteq unavailable \cup {<<next[r], made[next[r]] + 1>>}
      BY <2>4 DEF ReconnectHost
    <3>3. \A h \in Hosts : conns[h] # None => conns[h] # <<next[r], made[next[r]] + 1>>
      BY <2>t, <3>1 DEF ConnectionsMade, MadeTo
    <3> QED
      BY <3>2, <3>3
  <2>5. ASSUME NEW r \in Requests, InstallRound(r) PROVE Step
    BY <2>5, <2>t DEF InstallRound, Go, Rounds
  <2>6. CASE UNCHANGED vars
    BY <2>1, <2>6 DEF vars
  <2> QED
    BY <1>1, <2>1, <2>2, <2>3, <2>4, <2>5, <2>6
    DEF Next, RequestStep, StartConnecting, BreakStream, RecreateStream,
        InterruptInvocations, ReceiveObj, InterruptHanged, HandleInvocation, SaveOwnPch,
        ChooseRemoteConnection, NoRemote, Register, StartSession, FailToStart, StartRefused,
        EndAttempt, OnRemoteCompilationFailed, StartRound, SkipHost, StartLocalCxx, EndLocalCxx
<1>2. Inv /\ [Next]_vars => [Step]_vars
  BY <1>1
<1>3. AvailableStays <=> [][Step]_vars
  BY DEF AvailableStays
<1> QED
  BY Invariance, <1>2, <1>3, PTL DEF Spec

=============================================================================
