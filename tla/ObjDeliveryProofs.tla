-------------------------- MODULE ObjDeliveryProofs --------------------------
(***************************************************************************)
(* The way of an .o to its client, for any number of sessions and streams, *)
(* any capacity of the ready channel and of the throttle.                  *)
(***************************************************************************)
EXTENDS ObjDelivery, FiniteSetTheorems, TLAPS

InReady(s) == \E i \in DOMAIN ready : ready[i] = s
Held(s) == \E r \in Streams : held[r] = s
Somewhere(s) == pushing[s] = 1 \/ InReady(s) \/ Held(s)

(***************************************************************************)
(* A session to be sent is pushed by one goroutine, or once in the ready   *)
(* channel, or held by one stream; and it is open then.                    *)
(***************************************************************************)
ReadyOnce == \A i, j \in DOMAIN ready : ready[i] = ready[j] => i = j
HeldOnce == \A q, r \in Streams : held[q] = held[r] /\ held[r] # None => q = r

OnePlace ==
  /\ ReadyOnce /\ HeldOnce
  /\ \A s \in Sessions : pushing[s] \in {0, 1}
  /\ \A s \in Sessions : pushing[s] = 1 => ~ InReady(s) /\ ~ Held(s)
  /\ \A s \in Sessions : InReady(s) => ~ Held(s)

OpenUntilSent ==
  /\ \A s \in Sessions : Somewhere(s) => /\ stage[s] = "over" /\ s \in registered
                                         /\ outcome[s] = "obj" => s \in objExists
  /\ \A s \in Sessions : stage[s] \in {"queued", "compiling"} => s \in registered

(***************************************************************************)
(* Streams are opened one after the other, and when cancels are noticed at *)
(* once, one that isn't done is the one that the client reads.             *)
(***************************************************************************)
Live == {"select", "taken", "sending"}

StreamsInOrder ==
  /\ \A r \in Streams : r > current => stream[r] = "unopened"
  /\ \A r \in Streams : trailer[r] # None => stream[r] = "ended"
  /\ NoticesAtOnce =>
       \A r \in Streams : stream[r] \in Live /\ ~ ctxDone[r] => r = current /\ reading

Inv == TypeOK /\ OnePlace /\ OpenUntilSent /\ StreamsInOrder

Coming(s) ==
  \/ stage[s] \in {"queued", "compiling"}
  \/ Somewhere(s)
  \/ reading /\ (s \in inTransit[current] \/ trailer[current] = s)

OnItsWay == disconnected \/ \A s \in awaited : Coming(s)

-----------------------------------------------------------------------------
LEMMA StreamsAssumption == /\ 1 \in Streams /\ Streams \subseteq Nat
                           /\ \A r \in Streams : \A n \in 1 .. r : n \in Streams
  BY ObjDeliveryAssumption DEF Streams

LEMMA InitInv == Init => Inv /\ OnItsWay
<1> SUFFICES ASSUME Init PROVE Inv /\ OnItsWay
  OBVIOUS
<1> USE ObjDeliveryAssumption, StreamsAssumption DEF Init
<1>1. TypeOK
  <2>1. ready \in Seq(Sessions) /\ Len(ready) = 0
    OBVIOUS
  <2>2. current \in Streams
    OBVIOUS
  <2>3. \A r \in Streams : held[r] # None <=> stream[r] \in {"taken", "sending"}
    OBVIOUS
  <2>4. Len(ready) <= ReadyCap
    BY <2>1
  <2>5. /\ stage \in [Sessions -> CompileStages] /\ outcome \in [Sessions -> Outcomes]
        /\ pushing \in [Sessions -> Nat]
    BY DEF CompileStages, Outcomes
  <2>6. /\ stream \in [Streams -> StreamStages] /\ ctxDone \in [Streams -> BOOLEAN]
        /\ held \in [Streams -> Sessions \cup {None}]
        /\ trailer \in [Streams -> Sessions \cup {None}]
        /\ inTransit \in [Streams -> SUBSET Sessions]
    BY DEF StreamStages
  <2> QED
    BY <2>1, <2>2, <2>3, <2>4, <2>5, <2>6 DEF TypeOK
<1>2. \A s \in Sessions : ~ Somewhere(s)
  BY DEF Somewhere, InReady, Held
<1>3. OnePlace
  BY <1>2 DEF OnePlace, ReadyOnce, HeldOnce, Somewhere
<1>4. OpenUntilSent
  BY <1>2 DEF OpenUntilSent
<1>5. StreamsInOrder
  BY DEF StreamsInOrder, Live
<1>6. OnItsWay
  BY DEF OnItsWay
<1> QED
  BY <1>1, <1>3, <1>4, <1>5, <1>6 DEF Inv

-----------------------------------------------------------------------------
(***************************************************************************)
(* What an operation on the ready channel or on a stream moves.            *)
(***************************************************************************)
LEMMA ReadyUnmoved ==
  ASSUME UNCHANGED ready
  PROVE  /\ \A t : InReady(t)' <=> InReady(t)
         /\ ReadyOnce' <=> ReadyOnce
  BY DEF InReady, ReadyOnce

LEMMA HeldUnmoved ==
  ASSUME UNCHANGED held
  PROVE  /\ \A t : Held(t)' <=> Held(t)
         /\ HeldOnce' <=> HeldOnce
  BY DEF Held, HeldOnce

LEMMA Appended ==
  ASSUME ready \in Seq(Sessions), ReadyOnce, NEW s \in Sessions, ~ InReady(s),
         ready' = Append(ready, s)
  PROVE  /\ ready' \in Seq(Sessions) /\ Len(ready') = Len(ready) + 1
         /\ \A t : InReady(t)' <=> InReady(t) \/ t = s
         /\ ReadyOnce'
<1>1. /\ Len(ready') = Len(ready) + 1 /\ ready'[Len(ready) + 1] = s
      /\ ready' \in Seq(Sessions)
      /\ DOMAIN ready' = 1 .. Len(ready) + 1 /\ DOMAIN ready = 1 .. Len(ready)
      /\ Len(ready) \in Nat
  OBVIOUS
<1>2. \A i \in DOMAIN ready : ready'[i] = ready[i]
  OBVIOUS
<1>3. DOMAIN ready' = DOMAIN ready \cup {Len(ready) + 1}
  BY <1>1
<1>4. \A t : InReady(t)' <=> InReady(t) \/ t = s
  BY <1>1, <1>2, <1>3 DEF InReady
<1>5. \A i \in DOMAIN ready : ready[i] # s
  BY DEF InReady
<1> HIDE DEF InReady
<1>6. ReadyOnce'
  BY <1>1, <1>2, <1>3, <1>5 DEF ReadyOnce
<1> QED
  BY <1>1, <1>4, <1>6

LEMMA Shortened ==
  ASSUME ready \in Seq(Sessions), ReadyOnce, ready # <<>>, ready' = Tail(ready)
  PROVE  /\ ready' \in Seq(Sessions) /\ Len(ready') = Len(ready) - 1
         /\ Head(ready) \in Sessions /\ InReady(Head(ready))
         /\ \A t : InReady(t)' <=> InReady(t) /\ t # Head(ready)
         /\ ReadyOnce'
<1>1. /\ Len(ready) \in Nat \ {0} /\ Head(ready) = ready[1]
      /\ DOMAIN ready = 1 .. Len(ready) /\ DOMAIN ready' = 1 .. Len(ready) - 1
      /\ ready' \in Seq(Sessions) /\ Len(ready') = Len(ready) - 1
  OBVIOUS
<1>2. \A i \in DOMAIN ready' : i + 1 \in DOMAIN ready /\ ready'[i] = ready[i + 1]
  BY <1>1
<1>3. \A i \in DOMAIN ready : i = 1 \/ (i - 1 \in DOMAIN ready' /\ ready'[i - 1] = ready[i])
  BY <1>1, <1>2
<1>4. Head(ready) \in Sessions /\ InReady(Head(ready))
  BY <1>1 DEF InReady
<1>5. ASSUME NEW t, InReady(t)'
      PROVE  InReady(t) /\ t # Head(ready)
  <2>1. PICK i \in DOMAIN ready' : ready'[i] = t
    BY <1>5 DEF InReady
  <2>2. i + 1 \in DOMAIN ready /\ ready[i + 1] = t /\ i + 1 # 1 /\ 1 \in DOMAIN ready
    BY <1>1, <1>2, <2>1
  <2> QED
    BY <1>1, <2>2 DEF InReady, ReadyOnce
<1>6. ASSUME NEW t, InReady(t), t # Head(ready)
      PROVE  InReady(t)'
  <2>1. PICK i \in DOMAIN ready : ready[i] = t
    BY <1>6 DEF InReady
  <2>2. i - 1 \in DOMAIN ready' /\ ready'[i - 1] = t
    BY <1>1, <1>3, <1>6, <2>1
  <2> QED
    BY <2>2 DEF InReady
<1>7. ASSUME NEW i \in DOMAIN ready', NEW j \in DOMAIN ready', ready'[i] = ready'[j]
      PROVE  i = j
  <2>1. i + 1 = j + 1
    BY <1>2, <1>7 DEF ReadyOnce
  <2> QED
    BY <1>1, <2>1
<1>8. ReadyOnce'
  BY <1>7 DEF ReadyOnce
<1> QED
  BY <1>1, <1>4, <1>5, <1>6, <1>8

LEMMA Taken ==
  ASSUME held \in [Streams -> Sessions \cup {None}], HeldOnce, None \notin Sessions,
         NEW r \in Streams, held[r] = None, NEW s \in Sessions, ~ Held(s),
         held' = [held EXCEPT ![r] = s]
  PROVE  /\ \A t \in Sessions : Held(t)' <=> Held(t) \/ t = s
         /\ HeldOnce'
  BY DEF Held, HeldOnce

LEMMA Released ==
  ASSUME held \in [Streams -> Sessions \cup {None}], HeldOnce, None \notin Sessions,
         NEW r \in Streams, held[r] # None,
         held' = [held EXCEPT ![r] = None]
  PROVE  /\ held[r] \in Sessions /\ Held(held[r])
         /\ \A t \in Sessions : Held(t)' <=> Held(t) /\ t # held[r]
         /\ HeldOnce'
  BY DEF Held, HeldOnce

-----------------------------------------------------------------------------
(***************************************************************************)
(* A session is moved from one place to another, never copied.             *)
(***************************************************************************)
LEMMA NothingMoved ==
  ASSUME Inv, UNCHANGED <<pushing, ready, held>>
  PROVE  /\ OnePlace'
         /\ \A t \in Sessions : Somewhere(t)' <=> Somewhere(t)
  BY ReadyUnmoved, HeldUnmoved DEF Inv, OnePlace, Somewhere

LEMMA NewlyPushed ==
  ASSUME Inv, NEW s \in Sessions, stage[s] # "over",
         PushLater(s), UNCHANGED <<ready, held>>
  PROVE  /\ OnePlace'
         /\ \A t \in Sessions : Somewhere(t)' <=> Somewhere(t) \/ t = s
<1>1. ~ Somewhere(s)
  BY DEF Inv, OpenUntilSent
<1>2. pushing[s] = 0
  BY <1>1 DEF Inv, OnePlace, Somewhere
<1>3. pushing' = [pushing EXCEPT ![s] = 1]
  BY <1>2 DEF PushLater
<1> QED
  BY <1>1, <1>3, ReadyUnmoved, HeldUnmoved DEF Inv, TypeOK, OnePlace, Somewhere

LEMMA PushedToReady ==
  ASSUME Inv, NEW s \in Sessions, PushToClientReadyChannel(s)
  PROVE  /\ OnePlace'
         /\ \A t \in Sessions : Somewhere(t)' => Somewhere(t)
         /\ disconnected \/ \A t \in Sessions : Somewhere(t) => Somewhere(t)'
<1>1. pushing[s] = 1 /\ ~ InReady(s) /\ ~ Held(s)
  BY DEF PushToClientReadyChannel, Inv, TypeOK, OnePlace
<1>2. pushing' = [pushing EXCEPT ![s] = 0] /\ UNCHANGED held
  BY <1>1 DEF PushToClientReadyChannel, streamVars
<1>3. CASE ready' = Append(ready, s)
  <2>1. ReadyOnce' /\ \A t : InReady(t)' <=> InReady(t) \/ t = s
    BY <1>1, <1>3, Appended DEF Inv, TypeOK, OnePlace
  <2> QED
    BY <1>1, <1>2, <2>1, HeldUnmoved DEF Inv, TypeOK, OnePlace, Somewhere
<1>4. CASE disconnected /\ UNCHANGED ready
  BY <1>1, <1>2, <1>4, ReadyUnmoved, HeldUnmoved DEF Inv, TypeOK, OnePlace, Somewhere
<1> QED
  BY <1>3, <1>4 DEF PushToClientReadyChannel

LEMMA TakenFromReady ==
  ASSUME Inv, NEW r \in Streams, TakeReadySession(r)
  PROVE  /\ OnePlace'
         /\ \A t \in Sessions : Somewhere(t)' <=> Somewhere(t)
<1> DEFINE s == Head(ready)
<1>1. /\ s \in Sessions /\ InReady(s) /\ ReadyOnce'
      /\ \A t : InReady(t)' <=> InReady(t) /\ t # s
  BY Shortened DEF TakeReadySession, Inv, TypeOK, OnePlace
<1>2. held[r] = None
  BY DEF TakeReadySession, Inv, TypeOK
<1>3. ~ Held(s) /\ pushing[s] # 1
  BY <1>1 DEF Inv, OnePlace
<1>4. HeldOnce' /\ \A t \in Sessions : Held(t)' <=> Held(t) \/ t = s
  BY <1>1, <1>2, <1>3, Taken, ObjDeliveryAssumption DEF TakeReadySession, Inv, TypeOK, OnePlace
<1>5. UNCHANGED pushing
  BY DEF TakeReadySession
<1> HIDE DEF s
<1> QED
  BY <1>1, <1>3, <1>4, <1>5 DEF Inv, OnePlace, Somewhere

LEMMA PushedAgain ==
  ASSUME Inv, NEW r \in Streams, held[r] # None,
         PushLater(held[r]), held' = [held EXCEPT ![r] = None], UNCHANGED ready
  PROVE  /\ OnePlace'
         /\ \A t \in Sessions : Somewhere(t)' <=> Somewhere(t)
<1>1. /\ held[r] \in Sessions /\ Held(held[r]) /\ HeldOnce'
      /\ \A t \in Sessions : Held(t)' <=> Held(t) /\ t # held[r]
  BY Released, ObjDeliveryAssumption DEF Inv, TypeOK, OnePlace
<1>2. pushing[held[r]] = 0 /\ ~ InReady(held[r])
  BY <1>1 DEF Inv, OnePlace
<1>3. pushing' = [pushing EXCEPT ![held[r]] = 1]
  BY <1>2 DEF PushLater
<1> QED
  BY <1>1, <1>2, <1>3, ReadyUnmoved DEF Inv, TypeOK, OnePlace, Somewhere

LEMMA LetGo ==
  ASSUME Inv, NEW r \in Streams, held[r] # None,
         held' = [held EXCEPT ![r] = None], UNCHANGED <<pushing, ready>>
  PROVE  /\ OnePlace'
         /\ held[r] \in Sessions /\ Somewhere(held[r])
         /\ \A t \in Sessions : Somewhere(t)' <=> Somewhere(t) /\ t # held[r]
<1>1. /\ held[r] \in Sessions /\ Held(held[r]) /\ HeldOnce'
      /\ \A t \in Sessions : Held(t)' <=> Held(t) /\ t # held[r]
  BY Released, ObjDeliveryAssumption DEF Inv, TypeOK, OnePlace
<1>2. pushing[held[r]] = 0 /\ ~ InReady(held[r])
  BY <1>1 DEF Inv, OnePlace
<1> QED
  BY <1>1, <1>2, ReadyUnmoved DEF Inv, OnePlace, Somewhere

-----------------------------------------------------------------------------
(***************************************************************************)
(* Types.                                                                  *)
(***************************************************************************)
LEMMA TypeOKNext ==
  ASSUME Inv, [Next]_vars
  PROVE  TypeOK'
<1> USE ObjDeliveryAssumption, StreamsAssumption
    DEF Inv, TypeOK, CompileStages, StreamStages, Outcomes, StreamsInOrder,
        compileVars, sessionVars, queueVars, streamVars, clientVars
<1>1. ASSUME NEW s \in Sessions, FromObjCache(s) PROVE TypeOK'
  BY <1>1 DEF FromObjCache, PushLater
<1>2. ASSUME NEW s \in Sessions, LaunchCxxWhenPossible(s) PROVE TypeOK'
  BY <1>2 DEF LaunchCxxWhenPossible
<1>3. ASSUME NEW s \in Sessions, EnterThrottle(s) PROVE TypeOK'
  BY <1>3 DEF EnterThrottle
<1>4. ASSUME NEW s \in Sessions, CompilerEnds(s) PROVE TypeOK'
  BY <1>4 DEF CompilerEnds, PushLater
<1>5. ASSUME NEW s \in Sessions, PushToClientReadyChannel(s) PROVE TypeOK'
  <2>1. CASE Len(ready) < ReadyCap /\ ready' = Append(ready, s)
    <3>1. ready' \in Seq(Sessions) /\ Len(ready') = Len(ready) + 1 /\ Len(ready) \in Nat
      BY <2>1
    <3> QED
      BY <1>5, <2>1, <3>1 DEF PushToClientReadyChannel
  <2>2. CASE UNCHANGED ready
    BY <1>5, <2>2 DEF PushToClientReadyChannel
  <2> QED
    BY <1>5, <2>1, <2>2 DEF PushToClientReadyChannel
<1>6. ASSUME NEW r \in Streams, SelectEnds(r) PROVE TypeOK'
  BY <1>6 DEF SelectEnds, EndStream
<1>7. ASSUME NEW r \in Streams, TakeReadySession(r) PROVE TypeOK'
  BY <1>7 DEF TakeReadySession
<1>8. ASSUME NEW r \in Streams, GiveBack(r) PROVE TypeOK'
  BY <1>8 DEF GiveBack, EndStream, PushLater
<1>9. ASSUME NEW r \in Streams, FailSession(r) PROVE TypeOK'
  BY <1>9 DEF FailSession, EndStream, CloseSession
<1>10. ASSUME NEW r \in Streams, StartSending(r) PROVE TypeOK'
  BY <1>10 DEF StartSending
<1>11. ASSUME NEW r \in Streams, SendSucceeds(r) PROVE TypeOK'
  BY <1>11 DEF SendSucceeds, CloseSession
<1>12. ASSUME NEW r \in Streams, SendFails(r) PROVE TypeOK'
  BY <1>12 DEF SendFails, EndStream, PushLater
<1>13. ASSUME NEW r \in Streams, ServerNotices(r) PROVE TypeOK'
  BY <1>13 DEF ServerNotices
<1>14. ASSUME NEW s \in Sessions, ClientReceives(s) PROVE TypeOK'
  BY <1>14 DEF ClientReceives
<1>15. CASE ClientReadsTrailer
  BY <1>15 DEF ClientReadsTrailer
<1>16. CASE ClientGivesUp
  BY <1>16 DEF ClientGivesUp
<1>17. CASE RecreateReceiveStream
  <2>1. current' \in Streams /\ current' = current + 1 /\ current' > current
    BY <1>17 DEF RecreateReceiveStream, Streams
  <2>2. held[current'] = None
    BY <2>1
  <2>3. stream' = [stream EXCEPT ![current'] = "select"] /\ UNCHANGED held
    BY <1>17 DEF RecreateReceiveStream
  <2>4. \A q \in Streams : held'[q] # None <=> stream'[q] \in {"taken", "sending"}
    BY <2>1, <2>2, <2>3
  <2> QED
    BY <1>17, <2>1, <2>3, <2>4 DEF RecreateReceiveStream
<1>18. CASE Disconnect
  BY <1>18 DEF Disconnect
<1>19. CASE UNCHANGED vars
  BY <1>19 DEF vars
<1> QED
  BY <1>1, <1>2, <1>3, <1>4, <1>5, <1>6, <1>7, <1>8, <1>9, <1>10, <1>11, <1>12,
     <1>13, <1>14, <1>15, <1>16, <1>17, <1>18, <1>19
     DEF Next, Compilation, Stream, Client

(***************************************************************************)
(* A session is in one place.                                              *)
(***************************************************************************)
LEMMA OnePlaceNext ==
  ASSUME Inv, [Next]_vars
  PROVE  OnePlace'
<1> USE ObjDeliveryAssumption, StreamsAssumption
    DEF TypeOK,
        compileVars, sessionVars, queueVars, streamVars, clientVars
<1>1. ASSUME NEW s \in Sessions, FromObjCache(s) PROVE OnePlace'
  <2>1. stage[s] # "over" /\ PushLater(s) /\ UNCHANGED <<ready, held>>
    BY <1>1 DEF FromObjCache, PushLater, Inv, TypeOK
  <2> QED
    BY <1>1, <2>1, NewlyPushed
<1>2. ASSUME NEW s \in Sessions, LaunchCxxWhenPossible(s) PROVE OnePlace'
  BY <1>2, NothingMoved DEF LaunchCxxWhenPossible
<1>3. ASSUME NEW s \in Sessions, EnterThrottle(s) PROVE OnePlace'
  BY <1>3, NothingMoved DEF EnterThrottle
<1>4. ASSUME NEW s \in Sessions, CompilerEnds(s) PROVE OnePlace'
  <2>1. stage[s] # "over" /\ PushLater(s) /\ UNCHANGED <<ready, held>>
    BY <1>4 DEF CompilerEnds, PushLater, Inv, TypeOK
  <2> QED
    BY <1>4, <2>1, NewlyPushed
<1>5. ASSUME NEW s \in Sessions, PushToClientReadyChannel(s) PROVE OnePlace'
  BY <1>5, PushedToReady
<1>6. ASSUME NEW r \in Streams, SelectEnds(r) PROVE OnePlace'
  <2>1. UNCHANGED <<pushing, ready, held>>
    BY <1>6 DEF SelectEnds, EndStream, Inv, TypeOK
  <2> QED
    BY <1>6, <2>1, NothingMoved
<1>7. ASSUME NEW r \in Streams, TakeReadySession(r) PROVE OnePlace'
  BY <1>7, TakenFromReady
<1>8. ASSUME NEW r \in Streams, GiveBack(r) PROVE OnePlace'
  <2>1. /\ held[r] # None /\ PushLater(held[r])
        /\ held' = [held EXCEPT ![r] = None] /\ UNCHANGED ready
    BY <1>8 DEF GiveBack, EndStream, PushLater, Inv, TypeOK
  <2> QED
    BY <1>8, <2>1, PushedAgain
<1>9. ASSUME NEW r \in Streams, FailSession(r) PROVE OnePlace'
  <2>1. /\ held[r] # None /\ held' = [held EXCEPT ![r] = None]
        /\ UNCHANGED <<pushing, ready>>
    BY <1>9 DEF FailSession, EndStream, CloseSession, Inv, TypeOK
  <2> QED
    BY <1>9, <2>1, LetGo
<1>10. ASSUME NEW r \in Streams, StartSending(r) PROVE OnePlace'
  BY <1>10, NothingMoved DEF StartSending
<1>11. ASSUME NEW r \in Streams, SendSucceeds(r) PROVE OnePlace'
  <2>1. /\ held[r] # None /\ held' = [held EXCEPT ![r] = None]
        /\ UNCHANGED <<pushing, ready>>
    BY <1>11 DEF SendSucceeds, CloseSession, Inv, TypeOK
  <2> QED
    BY <1>11, <2>1, LetGo
<1>12. ASSUME NEW r \in Streams, SendFails(r) PROVE OnePlace'
  <2>1. CASE ctxDone[r]
    <3>1. /\ held[r] # None /\ PushLater(held[r])
          /\ held' = [held EXCEPT ![r] = None] /\ UNCHANGED ready
      BY <1>12, <2>1 DEF SendFails, EndStream, PushLater, Inv, TypeOK
    <3> QED
      BY <1>12, <2>1, <3>1, PushedAgain
  <2>2. CASE ~ ctxDone[r]
    <3>1. /\ held[r] # None /\ held' = [held EXCEPT ![r] = None]
          /\ UNCHANGED <<pushing, ready>>
      BY <1>12, <2>2 DEF SendFails, EndStream, PushLater, Inv, TypeOK
    <3> QED
      BY <1>12, <2>2, <3>1, LetGo
  <2> QED
    BY <2>1, <2>2
<1>13. ASSUME NEW r \in Streams, ServerNotices(r) PROVE OnePlace'
  BY <1>13, NothingMoved DEF ServerNotices
<1>14. ASSUME NEW s \in Sessions, ClientReceives(s) PROVE OnePlace'
  BY <1>14, NothingMoved DEF ClientReceives
<1>15. CASE ClientReadsTrailer
  BY <1>15, NothingMoved DEF ClientReadsTrailer
<1>16. CASE ClientGivesUp
  BY <1>16, NothingMoved DEF ClientGivesUp
<1>17. CASE RecreateReceiveStream
  BY <1>17, NothingMoved DEF RecreateReceiveStream
<1>18. CASE Disconnect
  BY <1>18, NothingMoved DEF Disconnect
<1>19. CASE UNCHANGED vars
  BY <1>19, NothingMoved DEF vars
<1> QED
  BY <1>1, <1>2, <1>3, <1>4, <1>5, <1>6, <1>7, <1>8, <1>9, <1>10, <1>11, <1>12,
     <1>13, <1>14, <1>15, <1>16, <1>17, <1>18, <1>19
     DEF Next, Compilation, Stream, Client

(***************************************************************************)
(* A session is closed only by the stream that holds it.                   *)
(***************************************************************************)
LEMMA OpenNext ==
  ASSUME Inv, [Next]_vars
  PROVE  OpenUntilSent'
<1> USE ObjDeliveryAssumption, StreamsAssumption
    DEF Inv, TypeOK, OpenUntilSent,
        compileVars, sessionVars, queueVars, streamVars, clientVars
<1>1. ASSUME NEW s \in Sessions, FromObjCache(s) PROVE OpenUntilSent'
  <2>1. stage[s] # "over" /\ PushLater(s) /\ UNCHANGED <<ready, held>>
    BY <1>1 DEF FromObjCache, PushLater, Inv, TypeOK
  <2> QED
    BY <1>1, <2>1, NewlyPushed DEF FromObjCache, PushLater
<1>2. ASSUME NEW s \in Sessions, LaunchCxxWhenPossible(s) PROVE OpenUntilSent'
  BY <1>2, NothingMoved DEF LaunchCxxWhenPossible
<1>3. ASSUME NEW s \in Sessions, EnterThrottle(s) PROVE OpenUntilSent'
  BY <1>3, NothingMoved DEF EnterThrottle
<1>4. ASSUME NEW s \in Sessions, CompilerEnds(s) PROVE OpenUntilSent'
  <2>1. stage[s] # "over" /\ PushLater(s) /\ UNCHANGED <<ready, held>>
    BY <1>4 DEF CompilerEnds, PushLater
  <2>2. \A t \in Sessions : Somewhere(t)' <=> Somewhere(t) \/ t = s
    BY <2>1, NewlyPushed
  <2>3. s \in registered /\ UNCHANGED registered /\ stage' = [stage EXCEPT ![s] = "over"]
    BY <1>4 DEF CompilerEnds, PushLater
  <2>4. outcome'[s] = "obj" => s \in objExists'
    BY <1>4 DEF CompilerEnds, PushLater
  <2>5. \A t \in Sessions \ {s} : /\ outcome'[t] = outcome[t]
                                  /\ t \in objExists => t \in objExists'
    BY <1>4 DEF CompilerEnds, PushLater
  <2> QED
    BY <2>2, <2>3, <2>4, <2>5
<1>5. ASSUME NEW s \in Sessions, PushToClientReadyChannel(s) PROVE OpenUntilSent'
  BY <1>5, PushedToReady DEF PushToClientReadyChannel
<1>6. ASSUME NEW r \in Streams, SelectEnds(r) PROVE OpenUntilSent'
  <2>1. UNCHANGED <<pushing, ready, held>>
    BY <1>6 DEF SelectEnds, EndStream, Inv, TypeOK
  <2> QED
    BY <1>6, <2>1, NothingMoved DEF SelectEnds, EndStream
<1>7. ASSUME NEW r \in Streams, TakeReadySession(r) PROVE OpenUntilSent'
  BY <1>7, TakenFromReady DEF TakeReadySession
<1>8. ASSUME NEW r \in Streams, GiveBack(r) PROVE OpenUntilSent'
  <2>1. /\ held[r] # None /\ PushLater(held[r])
        /\ held' = [held EXCEPT ![r] = None] /\ UNCHANGED ready
    BY <1>8 DEF GiveBack, EndStream, PushLater, Inv, TypeOK
  <2> QED
    BY <1>8, <2>1, PushedAgain DEF GiveBack, EndStream, PushLater
<1>9. ASSUME NEW r \in Streams, FailSession(r) PROVE OpenUntilSent'
  <2>1. /\ held[r] # None /\ held' = [held EXCEPT ![r] = None]
        /\ UNCHANGED <<pushing, ready>>
    BY <1>9 DEF FailSession, EndStream, CloseSession, Inv, TypeOK
  <2> QED
    BY <1>9, <2>1, LetGo DEF FailSession, EndStream, CloseSession
<1>10. ASSUME NEW r \in Streams, StartSending(r) PROVE OpenUntilSent'
  BY <1>10, NothingMoved DEF StartSending
<1>11. ASSUME NEW r \in Streams, SendSucceeds(r) PROVE OpenUntilSent'
  <2>1. /\ held[r] # None /\ held' = [held EXCEPT ![r] = None]
        /\ UNCHANGED <<pushing, ready>>
    BY <1>11 DEF SendSucceeds, CloseSession, Inv, TypeOK
  <2> QED
    BY <1>11, <2>1, LetGo DEF SendSucceeds, CloseSession
<1>12. ASSUME NEW r \in Streams, SendFails(r) PROVE OpenUntilSent'
  <2>1. CASE ctxDone[r]
    <3>1. /\ held[r] # None /\ PushLater(held[r])
          /\ held' = [held EXCEPT ![r] = None] /\ UNCHANGED ready
      BY <1>12, <2>1 DEF SendFails, EndStream, PushLater, Inv, TypeOK
    <3> QED
      BY <1>12, <2>1, <3>1, PushedAgain DEF SendFails, EndStream, PushLater
  <2>2. CASE ~ ctxDone[r]
    <3>1. /\ held[r] # None /\ held' = [held EXCEPT ![r] = None]
          /\ UNCHANGED <<pushing, ready>>
      BY <1>12, <2>2 DEF SendFails, EndStream, PushLater, Inv, TypeOK
    <3> QED
      BY <1>12, <2>2, <3>1, LetGo DEF SendFails, EndStream, PushLater
  <2> QED
    BY <2>1, <2>2
<1>13. ASSUME NEW r \in Streams, ServerNotices(r) PROVE OpenUntilSent'
  BY <1>13, NothingMoved DEF ServerNotices
<1>14. ASSUME NEW s \in Sessions, ClientReceives(s) PROVE OpenUntilSent'
  BY <1>14, NothingMoved DEF ClientReceives
<1>15. CASE ClientReadsTrailer
  BY <1>15, NothingMoved DEF ClientReadsTrailer
<1>16. CASE ClientGivesUp
  BY <1>16, NothingMoved DEF ClientGivesUp
<1>17. CASE RecreateReceiveStream
  BY <1>17, NothingMoved DEF RecreateReceiveStream
<1>18. CASE Disconnect
  BY <1>18, NothingMoved DEF Disconnect
<1>19. CASE UNCHANGED vars
  BY <1>19, NothingMoved DEF vars
<1> QED
  BY <1>1, <1>2, <1>3, <1>4, <1>5, <1>6, <1>7, <1>8, <1>9, <1>10, <1>11, <1>12,
     <1>13, <1>14, <1>15, <1>16, <1>17, <1>18, <1>19
     DEF Next, Compilation, Stream, Client

(***************************************************************************)
(* Streams.                                                                *)
(***************************************************************************)
LEMMA StreamsNext ==
  ASSUME Inv, [Next]_vars
  PROVE  StreamsInOrder'
<1> USE ObjDeliveryAssumption, StreamsAssumption
    DEF Inv, TypeOK, StreamsInOrder, Live,
        compileVars, sessionVars, queueVars, streamVars, clientVars
<1>1. ASSUME NEW s \in Sessions, FromObjCache(s) PROVE StreamsInOrder'
  BY <1>1 DEF FromObjCache, PushLater
<1>2. ASSUME NEW s \in Sessions, LaunchCxxWhenPossible(s) PROVE StreamsInOrder'
  BY <1>2 DEF LaunchCxxWhenPossible
<1>3. ASSUME NEW s \in Sessions, EnterThrottle(s) PROVE StreamsInOrder'
  BY <1>3 DEF EnterThrottle
<1>4. ASSUME NEW s \in Sessions, CompilerEnds(s) PROVE StreamsInOrder'
  BY <1>4 DEF CompilerEnds, PushLater
<1>5. ASSUME NEW s \in Sessions, PushToClientReadyChannel(s) PROVE StreamsInOrder'
  BY <1>5 DEF PushToClientReadyChannel
<1>6. ASSUME NEW r \in Streams, SelectEnds(r) PROVE StreamsInOrder'
  BY <1>6 DEF SelectEnds, EndStream
<1>7. ASSUME NEW r \in Streams, TakeReadySession(r) PROVE StreamsInOrder'
  BY <1>7 DEF TakeReadySession
<1>8. ASSUME NEW r \in Streams, GiveBack(r) PROVE StreamsInOrder'
  BY <1>8 DEF GiveBack, EndStream, PushLater
<1>9. ASSUME NEW r \in Streams, FailSession(r) PROVE StreamsInOrder'
  BY <1>9 DEF FailSession, EndStream, CloseSession
<1>10. ASSUME NEW r \in Streams, StartSending(r) PROVE StreamsInOrder'
  BY <1>10 DEF StartSending
<1>11. ASSUME NEW r \in Streams, SendSucceeds(r) PROVE StreamsInOrder'
  BY <1>11 DEF SendSucceeds, CloseSession
<1>12. ASSUME NEW r \in Streams, SendFails(r) PROVE StreamsInOrder'
  BY <1>12 DEF SendFails, EndStream, PushLater
<1>13. ASSUME NEW r \in Streams, ServerNotices(r) PROVE StreamsInOrder'
  BY <1>13 DEF ServerNotices
<1>14. ASSUME NEW s \in Sessions, ClientReceives(s) PROVE StreamsInOrder'
  BY <1>14 DEF ClientReceives
<1>15. CASE ClientReadsTrailer
  BY <1>15 DEF ClientReadsTrailer
<1>16. CASE ClientGivesUp
  BY <1>16 DEF ClientGivesUp
<1>17. CASE RecreateReceiveStream
  BY <1>17 DEF RecreateReceiveStream
<1>18. CASE Disconnect
  BY <1>18 DEF Disconnect
<1>19. CASE UNCHANGED vars
  BY <1>19 DEF vars
<1> QED
  BY <1>1, <1>2, <1>3, <1>4, <1>5, <1>6, <1>7, <1>8, <1>9, <1>10, <1>11, <1>12,
     <1>13, <1>14, <1>15, <1>16, <1>17, <1>18, <1>19
     DEF Next, Compilation, Stream, Client

(***************************************************************************)
(* What the client waits for: it reads the one stream that sends.          *)
(***************************************************************************)
LEMMA OnItsWayNext ==
  ASSUME Inv, NoticesAtOnce, OnItsWay, [Next]_vars
  PROVE  OnItsWay'
<1> USE ObjDeliveryAssumption, StreamsAssumption
    DEF Inv, TypeOK, StreamsInOrder, Live, OnItsWay, Coming,
        compileVars, sessionVars, queueVars, streamVars, clientVars
<1>1. ASSUME NEW s \in Sessions, FromObjCache(s) PROVE OnItsWay'
  <2>1. stage[s] # "over" /\ PushLater(s) /\ UNCHANGED <<ready, held>>
    BY <1>1 DEF FromObjCache, PushLater
  <2>2. \A u \in Sessions : Somewhere(u)' <=> Somewhere(u) \/ u = s
    BY <2>1, NewlyPushed
  <2> SUFFICES ASSUME ~ disconnected, NEW t \in awaited'
               PROVE  Coming(t)'
    BY <1>1 DEF FromObjCache, PushLater
  <2>3. CASE t = s
    BY <2>2, <2>3
  <2>4. CASE t # s
    <3>1. t \in awaited /\ t \in Sessions /\ stage'[t] = stage[t]
      BY <1>1, <2>4 DEF FromObjCache, PushLater
    <3> QED
      BY <1>1, <2>2, <3>1 DEF FromObjCache, PushLater
  <2> QED
    BY <2>3, <2>4
<1>2. ASSUME NEW s \in Sessions, LaunchCxxWhenPossible(s) PROVE OnItsWay'
  BY <1>2, NothingMoved DEF LaunchCxxWhenPossible
<1>3. ASSUME NEW s \in Sessions, EnterThrottle(s) PROVE OnItsWay'
  BY <1>3, NothingMoved DEF EnterThrottle
<1>4. ASSUME NEW s \in Sessions, CompilerEnds(s) PROVE OnItsWay'
  <2>1. stage[s] # "over" /\ PushLater(s) /\ UNCHANGED <<ready, held>>
    BY <1>4 DEF CompilerEnds, PushLater, Inv, TypeOK
  <2> QED
    BY <1>4, <2>1, NewlyPushed DEF CompilerEnds, PushLater
<1>5. ASSUME NEW s \in Sessions, PushToClientReadyChannel(s) PROVE OnItsWay'
  BY <1>5, PushedToReady DEF PushToClientReadyChannel
<1>6. ASSUME NEW r \in Streams, SelectEnds(r) PROVE OnItsWay'
  <2>1. UNCHANGED <<pushing, ready, held>>
    BY <1>6 DEF SelectEnds, EndStream, Inv, TypeOK
  <2> QED
    BY <1>6, <2>1, NothingMoved DEF SelectEnds, EndStream
<1>7. ASSUME NEW r \in Streams, TakeReadySession(r) PROVE OnItsWay'
  BY <1>7, TakenFromReady DEF TakeReadySession
<1>8. ASSUME NEW r \in Streams, GiveBack(r) PROVE OnItsWay'
  <2>1. /\ held[r] # None /\ PushLater(held[r])
        /\ held' = [held EXCEPT ![r] = None] /\ UNCHANGED ready
    BY <1>8 DEF GiveBack, EndStream, PushLater
  <2>2. \A u \in Sessions : Somewhere(u)' <=> Somewhere(u)
    BY <2>1, PushedAgain
  <2> SUFFICES ASSUME ~ disconnected, NEW t \in awaited'
               PROVE  Coming(t)'
    BY <1>8 DEF GiveBack, EndStream, PushLater
  <2>3. t \in awaited /\ t \in Sessions /\ UNCHANGED <<stage, reading, inTransit, current>>
    BY <1>8 DEF GiveBack, EndStream, PushLater
  <2>4. trailer' = [trailer EXCEPT ![r] = None] /\ trailer[r] = None
    BY <1>8 DEF GiveBack, EndStream, PushLater
  <2>5. trailer' = trailer
    BY <2>4
  <2> QED
    BY <2>2, <2>3, <2>5
<1>9. ASSUME NEW r \in Streams, FailSession(r) PROVE OnItsWay'
  <2>1. /\ held[r] # None /\ held' = [held EXCEPT ![r] = None]
        /\ UNCHANGED <<pushing, ready>>
    BY <1>9 DEF FailSession, EndStream, CloseSession
  <2>2. \A u \in Sessions : Somewhere(u)' <=> Somewhere(u) /\ u # held[r]
    BY <2>1, LetGo
  <2> SUFFICES ASSUME ~ disconnected, NEW t \in awaited'
               PROVE  Coming(t)'
    BY <1>9 DEF FailSession, EndStream, CloseSession
  <2>3. t \in awaited /\ t \in Sessions /\ UNCHANGED <<stage, reading, inTransit, current>>
    BY <1>9 DEF FailSession, EndStream, CloseSession
  <2>4. r = current /\ reading /\ trailer[r] = None
    BY <1>9 DEF FailSession, EndStream, CloseSession
  <2>5. trailer'[current] = held[r]
    BY <1>9, <2>4 DEF FailSession, EndStream, CloseSession
  <2>6. CASE t = held[r]
    BY <2>3, <2>4, <2>5, <2>6
  <2>7. CASE t # held[r]
    <3>1. trailer[current] # t
      BY <2>3, <2>4
    <3> QED
      BY <2>2, <2>3, <2>7, <3>1
  <2> QED
    BY <2>6, <2>7
<1>10. ASSUME NEW r \in Streams, StartSending(r) PROVE OnItsWay'
  BY <1>10, NothingMoved DEF StartSending
<1>11. ASSUME NEW r \in Streams, SendSucceeds(r) PROVE OnItsWay'
  <2>1. /\ held[r] # None /\ held' = [held EXCEPT ![r] = None]
        /\ UNCHANGED <<pushing, ready>>
    BY <1>11 DEF SendSucceeds, CloseSession
  <2>2. \A u \in Sessions : Somewhere(u)' <=> Somewhere(u) /\ u # held[r]
    BY <2>1, LetGo
  <2> SUFFICES ASSUME ~ disconnected, NEW t \in awaited'
               PROVE  Coming(t)'
    BY <1>11 DEF SendSucceeds, CloseSession
  <2>3. t \in awaited /\ t \in Sessions /\ UNCHANGED <<stage, reading, trailer, current>>
    BY <1>11 DEF SendSucceeds, CloseSession
  <2>4. r = current /\ reading
    BY <1>11 DEF SendSucceeds, CloseSession
  <2>5. inTransit'[current] = inTransit[current] \cup {held[r]}
    BY <1>11, <2>4 DEF SendSucceeds, CloseSession
  <2>6. CASE t = held[r]
    BY <2>3, <2>4, <2>5, <2>6
  <2>7. CASE t # held[r]
    BY <2>2, <2>3, <2>5, <2>7
  <2> QED
    BY <2>6, <2>7
<1>12. ASSUME NEW r \in Streams, SendFails(r) PROVE OnItsWay'
  <2> SUFFICES ASSUME ~ disconnected, NEW t \in awaited'
               PROVE  Coming(t)'
    BY <1>12 DEF SendFails, EndStream, PushLater
  <2>1. t \in awaited /\ t \in Sessions /\ UNCHANGED <<stage, reading, inTransit, current>>
    BY <1>12 DEF SendFails, EndStream, PushLater
  <2>2. trailer[r] = None
    BY <1>12 DEF SendFails, EndStream, PushLater
  <2>3. CASE ctxDone[r]
    <3>1. /\ held[r] # None /\ PushLater(held[r])
          /\ held' = [held EXCEPT ![r] = None] /\ UNCHANGED ready
      BY <1>12, <2>3 DEF SendFails, EndStream, PushLater
    <3>2. trailer' = trailer
      BY <1>12, <2>2, <2>3 DEF SendFails, EndStream, PushLater
    <3>3. Somewhere(t)' <=> Somewhere(t)
      BY <2>1, <3>1, PushedAgain
    <3> QED
      BY <2>1, <3>2, <3>3
  <2>4. CASE ~ ctxDone[r]
    <3>1. /\ held[r] # None /\ held' = [held EXCEPT ![r] = None]
          /\ UNCHANGED <<pushing, ready>>
      BY <1>12, <2>4 DEF SendFails, EndStream, PushLater
    <3>2. Somewhere(t)' <=> Somewhere(t) /\ t # held[r]
      BY <2>1, <3>1, LetGo
    <3>3. r = current /\ reading
      BY <1>12, <2>4 DEF SendFails, EndStream, PushLater
    <3>4. trailer'[current] = held[r]
      BY <1>12, <2>4, <3>3 DEF SendFails, EndStream, PushLater
    <3> QED
      BY <2>1, <2>2, <3>2, <3>3, <3>4
  <2> QED
    BY <2>3, <2>4
<1>13. ASSUME NEW r \in Streams, ServerNotices(r) PROVE OnItsWay'
  BY <1>13, NothingMoved DEF ServerNotices
<1>14. ASSUME NEW s \in Sessions, ClientReceives(s) PROVE OnItsWay'
  BY <1>14, NothingMoved DEF ClientReceives
<1>15. CASE ClientReadsTrailer
  BY <1>15, NothingMoved DEF ClientReadsTrailer
<1>16. CASE ClientGivesUp
  BY <1>16, NothingMoved DEF ClientGivesUp
<1>17. CASE RecreateReceiveStream
  BY <1>17, NothingMoved DEF RecreateReceiveStream
<1>18. CASE Disconnect
  BY <1>18, NothingMoved DEF Disconnect
<1>19. CASE UNCHANGED vars
  BY <1>19, NothingMoved DEF vars
<1> QED
  BY <1>1, <1>2, <1>3, <1>4, <1>5, <1>6, <1>7, <1>8, <1>9, <1>10, <1>11, <1>12,
     <1>13, <1>14, <1>15, <1>16, <1>17, <1>18, <1>19
     DEF Next, Compilation, Stream, Client

-----------------------------------------------------------------------------
LEMMA Invariance == Spec => []Inv
<1>1. Inv /\ [Next]_vars => Inv'
  BY TypeOKNext, OnePlaceNext, OpenNext, StreamsNext DEF Inv
<1>2. Init => Inv
  BY InitInv
<1> QED
  BY <1>1, <1>2, PTL DEF Spec

(***************************************************************************)
(* Count, in terms of the places.                                          *)
(***************************************************************************)
LEMMA AtMostOne ==
  ASSUME NEW S, \A x, y \in S : x = y
  PROVE  IsFiniteSet(S) /\ Cardinality(S) = IF S = {} THEN 0 ELSE 1
<1>1. CASE S = {}
  BY <1>1, FS_EmptySet
<1>2. ASSUME NEW x \in S PROVE IsFiniteSet(S) /\ Cardinality(S) = 1 /\ S # {}
  <2>1. S = {x}
    OBVIOUS
  <2> QED
    BY <2>1, FS_Singleton
<1> QED
  BY <1>1, <1>2

LEMMA Counted ==
  ASSUME Inv, NEW s \in Sessions
  PROVE  Count(s) = IF Somewhere(s) THEN 1 ELSE 0
<1> DEFINE P == {i \in DOMAIN ready : ready[i] = s}
           Q == {r \in Streams : held[r] = s}
<1>1. Cardinality(P) = IF InReady(s) THEN 1 ELSE 0
  <2>1. \A x, y \in P : x = y
    BY DEF Inv, OnePlace, ReadyOnce
  <2>2. P = {} <=> ~ InReady(s)
    BY DEF InReady
  <2> HIDE DEF P
  <2> QED
    BY <2>1, <2>2, AtMostOne
<1>2. Cardinality(Q) = IF Held(s) THEN 1 ELSE 0
  <2>1. \A x, y \in Q : x = y
    BY ObjDeliveryAssumption DEF Inv, OnePlace, HeldOnce
  <2>2. Q = {} <=> ~ Held(s)
    BY DEF Held
  <2> HIDE DEF Q
  <2> QED
    BY <2>1, <2>2, AtMostOne
<1>3. Count(s) = pushing[s] + Cardinality(P) + Cardinality(Q)
  BY DEF Count
<1> HIDE DEF P, Q
<1> QED
  BY <1>1, <1>2, <1>3 DEF Inv, OnePlace, Somewhere

(***************************************************************************)
(* A compiled session is pushed, queued or held once, and open and with    *)
(* its .o on the disk as long as it is, for any number of streams that     *)
(* give sessions back while others take them.                              *)
(***************************************************************************)
THEOREM SentOnce == Spec => []ReadySessionIsSentOnce
<1>1. Inv => ReadySessionIsSentOnce
  <2> SUFFICES ASSUME Inv, NEW s \in Sessions
               PROVE  /\ Count(s) <= 1
                      /\ Count(s) = 1 => /\ s \in registered
                                         /\ outcome[s] = "obj" => s \in objExists
    BY DEF ReadySessionIsSentOnce
  <2> QED
    BY Counted DEF Inv, OpenUntilSent
<1> QED
  BY Invariance, <1>1, PTL

(***************************************************************************)
(* When the server notices a cancelled stream before what the client sends *)
(* afterwards, what the client waits for is always being compiled, on its  *)
(* way to a stream or in the stream that the client reads.                 *)
(***************************************************************************)
THEOREM AwaitedArrives == ASSUME NoticesAtOnce PROVE Spec => []AwaitedObjArrives
<1>1. Inv /\ OnItsWay => AwaitedObjArrives
  BY Counted DEF Inv, TypeOK, OnItsWay, Coming, AwaitedObjArrives
<1>2. Inv /\ OnItsWay /\ [Next]_vars => OnItsWay'
  BY OnItsWayNext
<1>3. Init => OnItsWay
  BY InitInv
<1> QED
  BY Invariance, <1>1, <1>2, <1>3, PTL DEF Spec

=============================================================================
