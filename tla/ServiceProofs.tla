--------------------------- MODULE ServiceProofs ---------------------------
(***************************************************************************)
(* Proofs about three services that callers drive and another task carries *)
(* out: the MQTT client (module Mqtt), the firmware update (module OTA)    *)
(* and the software timers (module Timer).  They share nothing; each       *)
(* theorem is about one of them, for any number of callers, clients,       *)
(* topics, tasks, slots and timers.                                        *)
(***************************************************************************)
EXTENDS Mqtt, OTA, Timer, FiniteSetTheorems, WellFoundedInduction, TLAPS

-----------------------------------------------------------------------------
(* The MQTT client *)

\* As long as s_client was not overwritten, it is the only client there is.
OneClient == ~leaked => \A k \in Clients : cl[k] # "none" => k = client

\* What the status says, without the types.
Real ==
    ~leaked /\ ~startFailed /\ state = "CONNECTED" =>
        Disconnecting \/ (client # 0 /\ cl[client] \in {"online", "down"})

\* Where a topic is held, and where the broker holds subscriptions.
SubPcs == {"subCheck", "subSend", "unsubCheck", "unsubSend"}

TopicsHeld ==
    \A c \in Callers : IF pc[c] \in SubPcs THEN topic[c] \in Topics ELSE topic[c] = NoTopic

SessionsLive == \A k \in Clients : cl[k] # "online" => session[k] = {}

\* Without overlapping calls: one caller is busy; a call that has destroyed the client,
\* or got none, finds s_client still NULL; the table still says what the call stored.
Serial ==
    ~raced => \A c \in Callers :
        /\ \A d \in Callers : pc[c] # "idle" /\ pc[d] # "idle" => c = d
        /\ pc[c] \in {"end", "initFailed"} => client = 0
        /\ pc[c] \in {"subCheck", "subSend"} => topic[c] \in subs
        /\ pc[c] \in {"unsubCheck", "unsubSend"} => topic[c] \notin subs

\* An online client is reported, until a disconnect has announced itself.
Reported ==
    ~raced /\ ~leaked /\ Online(client) =>
        state = "CONNECTED" \/ \E c \in Callers : pc[c] = "stop"

MqttInv ==
    /\ TypeOK /\ IsFiniteSet(subs)
    /\ OneClient /\ Real /\ TopicsHeld /\ SessionsLive
    /\ Serial /\ Reported /\ SubscriptionsKept
-----------------------------------------------------------------------------
(* The types *)

\* Every step keeps the types, and the table of subscriptions within its size.
LEMMA TypeStep ==
    TypeOK /\ IsFiniteSet(subs) /\ TopicsHeld /\ [Next]_vars => TypeOK' /\ IsFiniteSet(subs)'
<1> SUFFICES ASSUME TypeOK, IsFiniteSet(subs), TopicsHeld, [Next]_vars
             PROVE  TypeOK' /\ IsFiniteSet(subs)'
  OBVIOUS
<1> USE MqttAssumption
<1>0. ASSUME subs' = subs PROVE IsFiniteSet(subs)' /\ Cardinality(subs)' <= MaxSubs
  BY <1>0 DEF TypeOK
<1>1. ASSUME NEW c \in Callers,
             Config(c) \/ ConnectBegins(c) \/ ConnectInit(c) \/ ConnectInitFails(c)
      PROVE  TypeOK' /\ IsFiniteSet(subs)'
  BY <1>1, <1>0 DEF Config, history, ConnectBegins, Enters, ConnectInit, Goes,
        ConnectInitFails, TypeOK, States, ClientStates, CallerPcs
<1>2. ASSUME NEW c \in Callers,
             ConnectReportsError(c) \/ ConnectStarts(c) \/ ConnectStartFails(c)
      PROVE  TypeOK' /\ IsFiniteSet(subs)'
  BY <1>2, <1>0 DEF ConnectReportsError, Goes, history, ConnectStarts, shared,
        ConnectStartFails, Destroys, TypeOK, States, ClientStates, CallerPcs
<1>3. ASSUME NEW c \in Callers,
             DisconnectBegins(c) \/ DisconnectStops(c) \/ DisconnectDestroys(c)
      PROVE  TypeOK' /\ IsFiniteSet(subs)'
  BY <1>3, <1>0 DEF DisconnectBegins, Enters, DisconnectStops, Goes, shared, history,
        DisconnectDestroys, Destroys, TypeOK, States, ClientStates, CallerPcs
<1>4. ASSUME NEW c \in Callers,
             DisconnectEnds(c)
      PROVE  TypeOK' /\ IsFiniteSet(subs)'
  <2>1. IsFiniteSet({}) /\ Cardinality({}) = 0
    BY FS_EmptySet
  <2>2. IsFiniteSet(subs)' /\ Cardinality(subs)' <= MaxSubs /\ subs' \in SUBSET Topics
    BY <1>4, <2>1 DEF DisconnectEnds
  <2> QED BY <1>4, <2>2 DEF DisconnectEnds, Goes, history, TypeOK, States, CallerPcs
<1>5. ASSUME NEW c \in Callers,
             ChecksConnected(c) \/ NotConnected(c)
      PROVE  TypeOK' /\ IsFiniteSet(subs)'
  BY <1>5, <1>0 DEF ChecksConnected, Goes, shared, history, NotConnected, Returns, TypeOK,
        States, ClientStates, CallerPcs
<1>6. ASSUME NEW c \in Callers,
             Sends(c)
      PROVE  TypeOK' /\ IsFiniteSet(subs)'
  <2>1. topic[c] \in Topics
    BY <1>6 DEF Sends, TopicsHeld, SubPcs
  <2> QED BY <1>6, <1>0, <2>1 DEF Sends, Returns, Goes, Online, shared, TypeOK, States,
                               ClientStates, CallerPcs
<1>7. ASSUME NEW c \in Callers,
             SendFails(c)
      PROVE  TypeOK' /\ IsFiniteSet(subs)'
  <2>1. topic[c] \in Topics
    BY <1>7 DEF SendFails, TopicsHeld, SubPcs
  <2> QED BY <1>7, <1>0, <2>1 DEF SendFails, Returns, Goes, Online, shared, TypeOK, States,
                               ClientStates, CallerPcs
<1>8. ASSUME NEW c \in Callers, NEW t \in Topics,
             Subscribe(c, t)
      PROVE  TypeOK' /\ IsFiniteSet(subs)'
  <2>1. t \notin subs /\ Cardinality(subs) < MaxSubs /\ subs' = subs \cup {t}
    BY <1>8 DEF Subscribe
  <2>2. IsFiniteSet(subs \cup {t}) /\ Cardinality(subs \cup {t}) = Cardinality(subs) + 1
        /\ Cardinality(subs) \in Nat
    BY <2>1, FS_AddElement, FS_CardinalityType
  <2>3. IsFiniteSet(subs)' /\ Cardinality(subs)' <= MaxSubs /\ subs' \in SUBSET Topics
    BY <2>1, <2>2 DEF TypeOK
  <2> QED BY <1>8, <2>3 DEF Subscribe, Enters, TypeOK, CallerPcs
<1>9. ASSUME NEW c \in Callers, NEW t \in Topics,
             Unsubscribe(c, t)
      PROVE  TypeOK' /\ IsFiniteSet(subs)'
  <2>1. subs' = subs \ {t} /\ subs \ {t} \in SUBSET subs
    BY <1>9 DEF Unsubscribe
  <2>2. IsFiniteSet(subs \ {t}) /\ Cardinality(subs \ {t}) <= Cardinality(subs)
        /\ Cardinality(subs \ {t}) \in Nat /\ Cardinality(subs) \in Nat
    BY <2>1, FS_Subset, FS_CardinalityType
  <2>3. IsFiniteSet(subs)' /\ Cardinality(subs)' <= MaxSubs /\ subs' \in SUBSET Topics
    BY <2>1, <2>2 DEF TypeOK
  <2> QED BY <1>9, <2>3 DEF Unsubscribe, Enters, TypeOK, CallerPcs
<1>10. ASSUME NEW k \in Clients,
             EventConnected(k) \/ ConnectionFails(k)
      PROVE  TypeOK' /\ IsFiniteSet(subs)'
  BY <1>10, <1>0 DEF EventConnected, Online, ConnectionFails, shared, TypeOK, States,
        ClientStates, CallerPcs
<1>11. ASSUME NEW k \in Clients,
             EventError(k) \/ EventDisconnected(k) \/ Reconnects(k)
      PROVE  TypeOK' /\ IsFiniteSet(subs)'
  BY <1>11, <1>0 DEF EventError, history, EventDisconnected, Reconnects, shared, TypeOK,
        States, ClientStates, CallerPcs
<1>12. CASE UNCHANGED vars
  BY <1>12, <1>0 DEF vars, shared, history, TypeOK, States, ClientStates, CallerPcs
<1> QED BY <1>1, <1>2, <1>3, <1>4, <1>5, <1>6, <1>7, <1>8, <1>9, <1>10, <1>11, <1>12
        DEF Next, CmdMqtt, CmdMqttSub, CallerStep, ClientStep

\* One client at most, as long as s_client is not overwritten.
LEMMA OneClientStep == TypeOK /\ OneClient /\ [Next]_vars => OneClient'
<1> SUFFICES ASSUME TypeOK, OneClient, [Next]_vars PROVE OneClient'
  OBVIOUS
<1>1. ASSUME NEW c \in Callers,
             Config(c) \/ ConnectBegins(c) \/ ConnectInitFails(c)
      PROVE  OneClient'
  BY <1>1 DEF Config, history, ConnectBegins, Enters, ConnectInitFails, Goes, TypeOK,
        OneClient
<1>2. ASSUME NEW c \in Callers,
             ConnectInit(c)
      PROVE  OneClient'
  <2> SUFFICES ASSUME ~leaked', NEW j \in Clients, cl'[j] # "none" PROVE j = client'
    BY DEF OneClient
  <2>1. ~leaked /\ client = 0
    BY <1>2 DEF ConnectInit
  <2>2. PICK k \in Clients : client' = k /\ cl' = [cl EXCEPT ![k] = "created"]
    BY <1>2 DEF ConnectInit
  <2>3. \A i \in Clients : cl[i] = "none"
    BY <2>1, MqttAssumption DEF OneClient, Clients
  <2> QED BY <2>2, <2>3 DEF TypeOK
<1>3. ASSUME NEW c \in Callers,
             ConnectReportsError(c) \/ ConnectStarts(c) \/ ConnectStartFails(c)
      PROVE  OneClient'
  BY <1>3 DEF ConnectReportsError, Goes, history, ConnectStarts, shared, ConnectStartFails,
        Destroys, TypeOK, OneClient
<1>4. ASSUME NEW c \in Callers,
             DisconnectBegins(c) \/ DisconnectStops(c) \/ DisconnectDestroys(c) \/ DisconnectEnds(c)
      PROVE  OneClient'
  BY <1>4 DEF DisconnectBegins, Enters, DisconnectStops, Goes, shared, history,
        DisconnectDestroys, Destroys, DisconnectEnds, TypeOK, OneClient
<1>5. ASSUME NEW c \in Callers,
             ChecksConnected(c) \/ NotConnected(c)
      PROVE  OneClient'
  BY <1>5 DEF ChecksConnected, Goes, shared, history, NotConnected, Returns, TypeOK,
        OneClient
<1>6. ASSUME NEW c \in Callers,
             Sends(c) \/ SendFails(c)
      PROVE  OneClient'
  BY <1>6 DEF Sends, Returns, Goes, Online, shared, SendFails, TypeOK, OneClient
<1>7. ASSUME NEW c \in Callers, NEW t \in Topics,
             Subscribe(c, t) \/ Unsubscribe(c, t)
      PROVE  OneClient'
  BY <1>7 DEF Subscribe, Enters, Unsubscribe, TypeOK, OneClient
<1>8. ASSUME NEW k \in Clients,
             EventConnected(k) \/ ConnectionFails(k)
      PROVE  OneClient'
  BY <1>8 DEF EventConnected, Online, ConnectionFails, shared, TypeOK, OneClient
<1>9. ASSUME NEW k \in Clients,
             EventError(k) \/ EventDisconnected(k) \/ Reconnects(k)
      PROVE  OneClient'
  BY <1>9 DEF EventError, history, EventDisconnected, Reconnects, shared, TypeOK, OneClient
<1>10. CASE UNCHANGED vars
  BY <1>10 DEF vars, shared, history, TypeOK, OneClient
<1> QED BY <1>1, <1>2, <1>3, <1>4, <1>5, <1>6, <1>7, <1>8, <1>9, <1>10
        DEF Next, CmdMqtt, CmdMqttSub, CallerStep, ClientStep

\* The status stays real.
LEMMA RealStep == TypeOK /\ OneClient /\ Real /\ [Next]_vars => Real'
<1> SUFFICES ASSUME TypeOK, OneClient, Real, [Next]_vars PROVE Real'
  OBVIOUS
<1>1. ASSUME NEW c \in Callers,
             Config(c) \/ ConnectBegins(c) \/ ConnectInit(c) \/ ConnectInitFails(c)
      PROVE  Real'
  BY <1>1 DEF Config, history, ConnectBegins, Enters, ConnectInit, Goes, ConnectInitFails,
        TypeOK, OneClient, Real, Disconnecting
<1>2. ASSUME NEW c \in Callers,
             ConnectReportsError(c) \/ ConnectStarts(c) \/ ConnectStartFails(c)
      PROVE  Real'
  BY <1>2 DEF ConnectReportsError, Goes, history, ConnectStarts, shared, ConnectStartFails,
        Destroys, TypeOK, OneClient, Real, Disconnecting
<1>3. ASSUME NEW c \in Callers,
             DisconnectBegins(c) \/ DisconnectStops(c) \/ DisconnectDestroys(c) \/ DisconnectEnds(c)
      PROVE  Real'
  BY <1>3 DEF DisconnectBegins, Enters, DisconnectStops, Goes, shared, history,
        DisconnectDestroys, Destroys, DisconnectEnds, TypeOK, OneClient, Real, Disconnecting
<1>4. ASSUME NEW c \in Callers,
             ChecksConnected(c) \/ NotConnected(c)
      PROVE  Real'
  BY <1>4 DEF ChecksConnected, Goes, shared, history, NotConnected, Returns, TypeOK,
        OneClient, Real, Disconnecting
<1>5. ASSUME NEW c \in Callers,
             Sends(c) \/ SendFails(c)
      PROVE  Real'
  BY <1>5 DEF Sends, Returns, Goes, Online, shared, SendFails, TypeOK, OneClient, Real,
        Disconnecting
<1>6. ASSUME NEW c \in Callers, NEW t \in Topics,
             Subscribe(c, t) \/ Unsubscribe(c, t)
      PROVE  Real'
  BY <1>6 DEF Subscribe, Enters, Unsubscribe, TypeOK, OneClient, Real, Disconnecting
<1>7. ASSUME NEW k \in Clients,
             ConnectionFails(k)
      PROVE  Real'
  BY <1>7 DEF ConnectionFails, shared, TypeOK, OneClient, Real, Disconnecting
<1>8. ASSUME NEW k \in Clients,
             EventConnected(k)
      PROVE  Real'
  <2> SUFFICES ASSUME ~leaked' PROVE client' # 0 /\ cl'[client'] = "online"
    BY DEF Real
  <2>1. k = client /\ client' = client /\ k # 0
    BY <1>8, MqttAssumption DEF EventConnected, OneClient, Clients
  <2> QED BY <1>8, <2>1 DEF EventConnected, TypeOK
<1>9. ASSUME NEW k \in Clients,
             EventError(k) \/ EventDisconnected(k) \/ Reconnects(k)
      PROVE  Real'
  BY <1>9 DEF EventError, history, EventDisconnected, Reconnects, shared, TypeOK, OneClient,
        Real, Disconnecting
<1>10. CASE UNCHANGED vars
  BY <1>10 DEF vars, shared, history, TypeOK, OneClient, Real, Disconnecting
<1> QED BY <1>1, <1>2, <1>3, <1>4, <1>5, <1>6, <1>7, <1>8, <1>9, <1>10
        DEF Next, CmdMqtt, CmdMqttSub, CallerStep, ClientStep

\* A topic is held from the table to the request.
LEMMA TopicsStep == TypeOK /\ TopicsHeld /\ [Next]_vars => TopicsHeld'
<1> SUFFICES ASSUME TypeOK, TopicsHeld, [Next]_vars PROVE TopicsHeld'
  OBVIOUS
<1>1. ASSUME NEW c \in Callers,
             Config(c) \/ ConnectBegins(c) \/ ConnectInit(c) \/ ConnectInitFails(c)
      PROVE  TopicsHeld'
  BY <1>1 DEF Config, history, ConnectBegins, Enters, ConnectInit, Goes, ConnectInitFails,
        TypeOK, TopicsHeld, SubPcs
<1>2. ASSUME NEW c \in Callers,
             ConnectReportsError(c) \/ ConnectStarts(c) \/ ConnectStartFails(c)
      PROVE  TopicsHeld'
  BY <1>2 DEF ConnectReportsError, Goes, history, ConnectStarts, shared, ConnectStartFails,
        Destroys, TypeOK, TopicsHeld, SubPcs
<1>3. ASSUME NEW c \in Callers,
             DisconnectBegins(c) \/ DisconnectStops(c) \/ DisconnectDestroys(c) \/ DisconnectEnds(c)
      PROVE  TopicsHeld'
  BY <1>3 DEF DisconnectBegins, Enters, DisconnectStops, Goes, shared, history,
        DisconnectDestroys, Destroys, DisconnectEnds, TypeOK, TopicsHeld, SubPcs
<1>4. ASSUME NEW c \in Callers,
             ChecksConnected(c) \/ NotConnected(c)
      PROVE  TopicsHeld'
  BY <1>4 DEF ChecksConnected, Goes, shared, history, NotConnected, Returns, TypeOK,
        TopicsHeld, SubPcs
<1>5. ASSUME NEW c \in Callers,
             Sends(c) \/ SendFails(c)
      PROVE  TopicsHeld'
  BY <1>5 DEF Sends, Returns, Goes, Online, shared, SendFails, TypeOK, TopicsHeld, SubPcs
<1>6. ASSUME NEW c \in Callers, NEW t \in Topics,
             Subscribe(c, t) \/ Unsubscribe(c, t)
      PROVE  TopicsHeld'
  BY <1>6 DEF Subscribe, Enters, Unsubscribe, TypeOK, TopicsHeld, SubPcs
<1>7. ASSUME NEW k \in Clients,
             EventConnected(k) \/ ConnectionFails(k)
      PROVE  TopicsHeld'
  BY <1>7 DEF EventConnected, Online, ConnectionFails, shared, TypeOK, TopicsHeld, SubPcs
<1>8. ASSUME NEW k \in Clients,
             EventError(k) \/ EventDisconnected(k) \/ Reconnects(k)
      PROVE  TopicsHeld'
  BY <1>8 DEF EventError, history, EventDisconnected, Reconnects, shared, TypeOK,
        TopicsHeld, SubPcs
<1>9. CASE UNCHANGED vars
  BY <1>9 DEF vars, shared, history, TypeOK, TopicsHeld, SubPcs
<1> QED BY <1>1, <1>2, <1>3, <1>4, <1>5, <1>6, <1>7, <1>8, <1>9
        DEF Next, CmdMqtt, CmdMqttSub, CallerStep, ClientStep

\* The broker forgets what a connection that ends had subscribed to.
LEMMA SessionsStep == TypeOK /\ SessionsLive /\ [Next]_vars => SessionsLive'
<1> SUFFICES ASSUME TypeOK, SessionsLive, [Next]_vars PROVE SessionsLive'
  OBVIOUS
<1>1. ASSUME NEW c \in Callers,
             Config(c) \/ ConnectBegins(c) \/ ConnectInit(c) \/ ConnectInitFails(c)
      PROVE  SessionsLive'
  BY <1>1 DEF Config, history, ConnectBegins, Enters, ConnectInit, Goes, ConnectInitFails,
        TypeOK, SessionsLive
<1>2. ASSUME NEW c \in Callers,
             ConnectReportsError(c) \/ ConnectStarts(c) \/ ConnectStartFails(c)
      PROVE  SessionsLive'
  BY <1>2 DEF ConnectReportsError, Goes, history, ConnectStarts, shared, ConnectStartFails,
        Destroys, TypeOK, SessionsLive
<1>3. ASSUME NEW c \in Callers,
             DisconnectBegins(c) \/ DisconnectStops(c) \/ DisconnectDestroys(c) \/ DisconnectEnds(c)
      PROVE  SessionsLive'
  BY <1>3 DEF DisconnectBegins, Enters, DisconnectStops, Goes, shared, history,
        DisconnectDestroys, Destroys, DisconnectEnds, TypeOK, SessionsLive
<1>4. ASSUME NEW c \in Callers,
             ChecksConnected(c) \/ NotConnected(c)
      PROVE  SessionsLive'
  BY <1>4 DEF ChecksConnected, Goes, shared, history, NotConnected, Returns, TypeOK,
        SessionsLive
<1>5. ASSUME NEW c \in Callers,
             Sends(c) \/ SendFails(c)
      PROVE  SessionsLive'
  BY <1>5 DEF Sends, Returns, Goes, Online, shared, SendFails, TypeOK, SessionsLive
<1>6. ASSUME NEW c \in Callers, NEW t \in Topics,
             Subscribe(c, t) \/ Unsubscribe(c, t)
      PROVE  SessionsLive'
  BY <1>6 DEF Subscribe, Enters, Unsubscribe, TypeOK, SessionsLive
<1>7. ASSUME NEW k \in Clients,
             EventConnected(k) \/ ConnectionFails(k)
      PROVE  SessionsLive'
  BY <1>7 DEF EventConnected, Online, ConnectionFails, shared, TypeOK, SessionsLive
<1>8. ASSUME NEW k \in Clients,
             EventError(k) \/ EventDisconnected(k) \/ Reconnects(k)
      PROVE  SessionsLive'
  BY <1>8 DEF EventError, history, EventDisconnected, Reconnects, shared, TypeOK,
        SessionsLive
<1>9. CASE UNCHANGED vars
  BY <1>9 DEF vars, shared, history, TypeOK, SessionsLive
<1> QED BY <1>1, <1>2, <1>3, <1>4, <1>5, <1>6, <1>7, <1>8, <1>9
        DEF Next, CmdMqtt, CmdMqttSub, CallerStep, ClientStep

\* Calls that do not overlap find what they left.
LEMMA SerialStep == TypeOK /\ TopicsHeld /\ Serial /\ [Next]_vars => Serial'
<1> SUFFICES ASSUME TypeOK, TopicsHeld, Serial, [Next]_vars PROVE Serial'
  OBVIOUS
<1>1. ASSUME NEW c \in Callers,
             Config(c) \/ ConnectBegins(c) \/ ConnectInit(c) \/ ConnectInitFails(c)
      PROVE  Serial'
  BY <1>1 DEF Config, history, ConnectBegins, Enters, ConnectInit, Goes, ConnectInitFails,
        TypeOK, TopicsHeld, SubPcs, Serial
<1>2. ASSUME NEW c \in Callers,
             ConnectReportsError(c) \/ ConnectStarts(c) \/ ConnectStartFails(c)
      PROVE  Serial'
  BY <1>2 DEF ConnectReportsError, Goes, history, ConnectStarts, shared, ConnectStartFails,
        Destroys, TypeOK, TopicsHeld, SubPcs, Serial
<1>3. ASSUME NEW c \in Callers,
             DisconnectBegins(c) \/ DisconnectStops(c) \/ DisconnectDestroys(c) \/ DisconnectEnds(c)
      PROVE  Serial'
  BY <1>3 DEF DisconnectBegins, Enters, DisconnectStops, Goes, shared, history,
        DisconnectDestroys, Destroys, DisconnectEnds, TypeOK, TopicsHeld, SubPcs, Serial
<1>4. ASSUME NEW c \in Callers,
             ChecksConnected(c) \/ NotConnected(c)
      PROVE  Serial'
  BY <1>4 DEF ChecksConnected, Goes, shared, history, NotConnected, Returns, TypeOK,
        TopicsHeld, SubPcs, Serial
<1>5. ASSUME NEW c \in Callers,
             Sends(c) \/ SendFails(c)
      PROVE  Serial'
  BY <1>5 DEF Sends, Returns, Goes, Online, shared, SendFails, TypeOK, TopicsHeld, SubPcs,
        Serial
<1>6. ASSUME NEW c \in Callers, NEW t \in Topics,
             Subscribe(c, t) \/ Unsubscribe(c, t)
      PROVE  Serial'
  BY <1>6 DEF Subscribe, Enters, Unsubscribe, TypeOK, TopicsHeld, SubPcs, Serial
<1>7. ASSUME NEW k \in Clients,
             EventConnected(k) \/ ConnectionFails(k)
      PROVE  Serial'
  BY <1>7 DEF EventConnected, Online, ConnectionFails, shared, TypeOK, TopicsHeld, SubPcs,
        Serial
<1>8. ASSUME NEW k \in Clients,
             EventError(k) \/ EventDisconnected(k) \/ Reconnects(k)
      PROVE  Serial'
  BY <1>8 DEF EventError, history, EventDisconnected, Reconnects, shared, TypeOK,
        TopicsHeld, SubPcs, Serial
<1>9. CASE UNCHANGED vars
  BY <1>9 DEF vars, shared, history, TypeOK, TopicsHeld, SubPcs, Serial
<1> QED BY <1>1, <1>2, <1>3, <1>4, <1>5, <1>6, <1>7, <1>8, <1>9
        DEF Next, CmdMqtt, CmdMqttSub, CallerStep, ClientStep

\* An online client stays reported.
LEMMA ReportedStep == TypeOK /\ OneClient /\ Serial /\ Reported /\ [Next]_vars => Reported'
<1> SUFFICES ASSUME TypeOK, OneClient, Serial, Reported, [Next]_vars PROVE Reported'
  OBVIOUS
<1> USE MqttAssumption DEF Clients
<1>1. ASSUME NEW c \in Callers,
             Config(c) \/ ConnectBegins(c) \/ ConnectInit(c) \/ ConnectInitFails(c)
      PROVE  Reported'
  BY <1>1 DEF Config, history, ConnectBegins, Enters, ConnectInit, Goes, ConnectInitFails,
        TypeOK, OneClient, Serial, Reported, Online
<1>2. ASSUME NEW c \in Callers,
             ConnectReportsError(c) \/ ConnectStarts(c) \/ ConnectStartFails(c)
      PROVE  Reported'
  BY <1>2 DEF ConnectReportsError, Goes, history, ConnectStarts, shared, ConnectStartFails,
        Destroys, TypeOK, OneClient, Serial, Reported, Online
<1>3. ASSUME NEW c \in Callers,
             DisconnectBegins(c) \/ DisconnectStops(c) \/ DisconnectDestroys(c) \/ DisconnectEnds(c)
      PROVE  Reported'
  BY <1>3 DEF DisconnectBegins, Enters, DisconnectStops, Goes, shared, history,
        DisconnectDestroys, Destroys, DisconnectEnds, TypeOK, OneClient, Serial, Reported,
        Online
<1>4. ASSUME NEW c \in Callers,
             ChecksConnected(c) \/ NotConnected(c)
      PROVE  Reported'
  BY <1>4 DEF ChecksConnected, Goes, shared, history, NotConnected, Returns, TypeOK,
        OneClient, Serial, Reported, Online
<1>5. ASSUME NEW c \in Callers,
             Sends(c) \/ SendFails(c)
      PROVE  Reported'
  BY <1>5 DEF Sends, Returns, Goes, Online, shared, SendFails, TypeOK, OneClient, Serial,
        Reported
<1>6. ASSUME NEW c \in Callers, NEW t \in Topics,
             Subscribe(c, t) \/ Unsubscribe(c, t)
      PROVE  Reported'
  BY <1>6 DEF Subscribe, Enters, Unsubscribe, TypeOK, OneClient, Serial, Reported, Online
<1>7. ASSUME NEW k \in Clients,
             EventConnected(k) \/ ConnectionFails(k)
      PROVE  Reported'
  BY <1>7 DEF EventConnected, Online, ConnectionFails, shared, TypeOK, OneClient, Serial,
        Reported
<1>8. ASSUME NEW k \in Clients,
             EventError(k) \/ EventDisconnected(k) \/ Reconnects(k)
      PROVE  Reported'
  BY <1>8 DEF EventError, history, EventDisconnected, Reconnects, shared, TypeOK, OneClient,
        Serial, Reported, Online
<1>9. CASE UNCHANGED vars
  BY <1>9 DEF vars, shared, history, TypeOK, OneClient, Serial, Reported, Online
<1> QED BY <1>1, <1>2, <1>3, <1>4, <1>5, <1>6, <1>7, <1>8, <1>9
        DEF Next, CmdMqtt, CmdMqttSub, CallerStep, ClientStep

\* The broker and the table stay in step.
LEMMA KeptStep ==
    /\ TypeOK /\ OneClient /\ TopicsHeld /\ SessionsLive /\ Serial /\ Reported
    /\ SubscriptionsKept /\ [Next]_vars
    => SubscriptionsKept'
<1> SUFFICES ASSUME TypeOK, OneClient, TopicsHeld, SessionsLive, Serial, Reported,
                    SubscriptionsKept, [Next]_vars
             PROVE  SubscriptionsKept'
  OBVIOUS
<1> USE MqttAssumption DEF Clients
<1>1. ASSUME NEW c \in Callers,
             Config(c) \/ ConnectBegins(c) \/ ConnectInit(c) \/ ConnectInitFails(c)
      PROVE  SubscriptionsKept'
  BY <1>1 DEF Config, history, ConnectBegins, Enters, ConnectInit, Goes, ConnectInitFails,
        TypeOK, OneClient, TopicsHeld, SubPcs, SessionsLive, Serial, Reported,
        SubscriptionsKept, Online
<1>2. ASSUME NEW c \in Callers,
             ConnectReportsError(c) \/ ConnectStarts(c) \/ ConnectStartFails(c)
      PROVE  SubscriptionsKept'
  BY <1>2 DEF ConnectReportsError, Goes, history, ConnectStarts, shared, ConnectStartFails,
        Destroys, TypeOK, OneClient, TopicsHeld, SubPcs, SessionsLive, Serial, Reported,
        SubscriptionsKept, Online
<1>3. ASSUME NEW c \in Callers,
             DisconnectBegins(c) \/ DisconnectStops(c) \/ DisconnectDestroys(c) \/ DisconnectEnds(c)
      PROVE  SubscriptionsKept'
  BY <1>3 DEF DisconnectBegins, Enters, DisconnectStops, Goes, shared, history,
        DisconnectDestroys, Destroys, DisconnectEnds, TypeOK, OneClient, TopicsHeld, SubPcs,
        SessionsLive, Serial, Reported, SubscriptionsKept, Online
<1>4. ASSUME NEW c \in Callers,
             ChecksConnected(c) \/ NotConnected(c)
      PROVE  SubscriptionsKept'
  BY <1>4 DEF ChecksConnected, Goes, shared, history, NotConnected, Returns, TypeOK,
        OneClient, TopicsHeld, SubPcs, SessionsLive, Serial, Reported, SubscriptionsKept,
        Online
<1>5. ASSUME NEW c \in Callers,
             Sends(c) \/ SendFails(c)
      PROVE  SubscriptionsKept'
  BY <1>5 DEF Sends, Returns, Goes, Online, shared, SendFails, TypeOK, OneClient,
        TopicsHeld, SubPcs, SessionsLive, Serial, Reported, SubscriptionsKept
<1>6. ASSUME NEW c \in Callers, NEW t \in Topics,
             Subscribe(c, t) \/ Unsubscribe(c, t)
      PROVE  SubscriptionsKept'
  BY <1>6 DEF Subscribe, Enters, Unsubscribe, TypeOK, OneClient, TopicsHeld, SubPcs,
        SessionsLive, Serial, Reported, SubscriptionsKept, Online
<1>7. ASSUME NEW k \in Clients,
             EventConnected(k) \/ ConnectionFails(k)
      PROVE  SubscriptionsKept'
  BY <1>7 DEF EventConnected, Online, ConnectionFails, shared, TypeOK, OneClient,
        TopicsHeld, SubPcs, SessionsLive, Serial, Reported, SubscriptionsKept
<1>8. ASSUME NEW k \in Clients,
             EventError(k) \/ EventDisconnected(k) \/ Reconnects(k)
      PROVE  SubscriptionsKept'
  BY <1>8 DEF EventError, history, EventDisconnected, Reconnects, shared, TypeOK, OneClient,
        TopicsHeld, SubPcs, SessionsLive, Serial, Reported, SubscriptionsKept, Online
<1>9. CASE UNCHANGED vars
  BY <1>9 DEF vars, shared, history, TypeOK, OneClient, TopicsHeld, SubPcs, SessionsLive,
        Serial, Reported, SubscriptionsKept, Online
<1> QED BY <1>1, <1>2, <1>3, <1>4, <1>5, <1>6, <1>7, <1>8, <1>9
        DEF Next, CmdMqtt, CmdMqttSub, CallerStep, ClientStep

-----------------------------------------------------------------------------
(* Theorems *)

\* The service as os_mqtt_init leaves it.
LEMMA MqttInit == Init => MqttInv
<1> SUFFICES ASSUME Init PROVE MqttInv
  OBVIOUS
<1>1. IsFiniteSet({}) /\ Cardinality({}) = 0
  BY FS_EmptySet
<1>2. TypeOK
  <2>1. subs \in SUBSET Topics /\ Cardinality(subs) <= MaxSubs
    BY <1>1, MqttAssumption DEF Init
  <2> QED BY <2>1 DEF Init, TypeOK, States, ClientStates, CallerPcs
<1>3. OneClient /\ Real /\ TopicsHeld /\ SessionsLive
  BY DEF Init, OneClient, Real, TopicsHeld, SubPcs, SessionsLive
<1>4. Serial /\ Reported /\ SubscriptionsKept
  BY DEF Init, Serial, Reported, SubscriptionsKept, Online
<1> QED BY <1>1, <1>2, <1>3, <1>4 DEF MqttInv, Init

\* The invariant holds in every state of every behaviour.
LEMMA MqttInductive == Spec => []MqttInv
<1>1. MqttInv /\ [Next]_vars => MqttInv'
  BY TypeStep, OneClientStep, RealStep, TopicsStep, SessionsStep, SerialStep,
     ReportedStep, KeptStep DEF MqttInv
<1> QED BY <1>1, MqttInit, PTL DEF Spec

\* For any number of callers, clients and topics: CONNECTED is never reported of a
\* client that has not been connected, unless a client was leaked or its start failed.
THEOREM StatusStaysReal == Spec => []ConnectedIsReal
<1>1. MqttInv => ConnectedIsReal
  BY DEF MqttInv, Real, ConnectedIsReal
<1> QED BY <1>1, MqttInductive, PTL

\* For any number of callers, clients and topics: calls that do not overlap keep the
\* broker and the table of subscriptions in step, across losses of the connection.
THEOREM SubscriptionsStayKept == Spec => []SubscriptionsKept
<1>1. MqttInv => SubscriptionsKept
  BY DEF MqttInv
<1> QED BY <1>1, MqttInductive, PTL

-----------------------------------------------------------------------------
(* The firmware update *)

\* A task that has not yet reported how it ends.
Working(t) == tpc[t] \notin {"none", "cleanup"}

\* A caller that has ended the task, or found it gone, and has yet to reset the state.
Finishing(c) == cpc[c] \in {"clear", "reset"}

\* A state that shows progress was set by a task that is still working, or will be
\* reset: a task at its cleanup has set IDLE or ERROR, and does not count.
Progress == InProgress => (\E t \in Tasks : Working(t)) \/ \E c \in OtaCallers : Finishing(c)

\* Places between the update_state of DOWNLOADING and the end of the update.
Transfer == {"begin", "loop", "perform", "toVERIFYING", "finish", "toAPPLYING",
             "toREBOOTING", "restart"}

Alone ==
    /\ \A t \in Tasks : Lives(t) => otaTask = t
    /\ otaTask # 0 => Lives(otaTask) \/ \E c \in OtaCallers : cpc[c] = "clear"
    /\ \A c \in OtaCallers : Finishing(c) => \A t \in Tasks : ~Lives(t)
    /\ \A t \in Tasks : tpc[t] \in Transfer => InProgress

OtaInv == OtaTypeOK /\ Progress /\ (~overlap => Alone)

-----------------------------------------------------------------------------
(* The steps of callers *)

\* os_ota_start creates a task: either nothing of an earlier update is left, or
\* overlap records that there is.
LEMMA StartStep ==
    ASSUME OtaInv, NEW c \in OtaCallers,
           StartAccepted(c) \/ StartFails(c) \/ \E t \in Tasks : StartCreates(c, t)
    PROVE  OtaInv'
<1> USE DEF OtaInv
<1>1. CASE StartAccepted(c) \/ StartFails(c)
  <2>1. OtaTypeOK'
    BY <1>1 DEF OtaTypeOK, StartAccepted, StartFails, OtaCallerPcs
  <2>2. \A d \in OtaCallers : cpc'[d] \in {"clear", "reset"} <=> cpc[d] \in {"clear", "reset"}
    BY <1>1 DEF OtaTypeOK, StartAccepted, StartFails
  <2>3. \A d \in OtaCallers : cpc'[d] = "clear" <=> cpc[d] = "clear"
    BY <1>1 DEF OtaTypeOK, StartAccepted, StartFails
  <2>4. Progress'
    BY <1>1, <2>2 DEF StartAccepted, StartFails, Progress, InProgress, Working, Finishing
  <2>5. ~overlap' => Alone'
    BY <1>1, <2>2, <2>3 DEF StartAccepted, StartFails, Alone, InProgress, Lives, Finishing
  <2> QED BY <2>1, <2>4, <2>5
<1>2. ASSUME NEW t \in Tasks, StartCreates(c, t) PROVE OtaInv'
  <2>1. OtaTypeOK'
    BY <1>2 DEF OtaTypeOK, StartCreates, OtaCallerPcs, TaskPcs
  <2>2. /\ tpc'[t] = "new" /\ tpc[t] = "none"
        /\ \A u \in Tasks : u # t => tpc'[u] = tpc[u]
        /\ otaState' = otaState /\ otaTask' = t
    BY <1>2 DEF OtaTypeOK, StartCreates, Lives
  <2>3. \A d \in OtaCallers : cpc[d] \in {"clear", "reset"} <=> cpc'[d] \in {"clear", "reset"}
    BY <1>2 DEF OtaTypeOK, StartCreates
  <2>4. Progress'
    BY <2>2, <2>3 DEF Progress, InProgress, Working, Finishing
  <2>5. ASSUME ~overlap' PROVE Alone'
    <3>1. /\ ~overlap /\ \A u \in Tasks : tpc[u] = "none"
          /\ \A d \in OtaCallers : cpc[d] \notin {"clear", "reset"}
      BY <1>2, <2>5 DEF StartCreates, Lives
    <3>2. \A u \in Tasks : tpc'[u] # "none" => u = t
      BY <2>2, <3>1
    <3> QED BY <2>2, <2>3, <3>1, <3>2 DEF Alone, Lives, Finishing, Transfer
  <2> QED BY <2>1, <2>4, <2>5
<1> QED BY <1>1, <1>2

\* os_ota_abort, up to the forced delete: it only moves on.  A poll that finds no handle
\* finds no task either.
LEMMA AbortWaits ==
    ASSUME OtaInv, NEW c \in OtaCallers,
           \/ AbortEnters(c) \/ AbortRequests(c) \/ AbortSeesStop(c)
           \/ AbortTimesOut(c) \/ AbortDeletesCaller(c)
    PROVE  OtaInv'
<1> USE DEF OtaInv
<1>1. /\ UNCHANGED <<otaState, otaTask, mutexLost, tpc, overlap>>
      /\ abortReq' \in BOOLEAN
      /\ \E p \in {"request", "poll", "force", "deleted", "reset"} :
            cpc' = [cpc EXCEPT ![c] = p] /\ (p = "reset" => otaTask = 0)
      /\ cpc[c] \in {"idle", "request", "poll", "force"}
  BY DEF OtaTypeOK, AbortEnters, AbortRequests, AbortSeesStop, AbortTimesOut,
         AbortDeletesCaller
<1>2. OtaTypeOK'
  BY <1>1 DEF OtaTypeOK, OtaCallerPcs
<1>3. /\ \A d \in OtaCallers : d # c => cpc'[d] = cpc[d]
      /\ cpc'[c] # "clear"
      /\ cpc'[c] = "reset" => otaTask = 0
  BY <1>1 DEF OtaTypeOK
<1>4. Progress'
  BY <1>1, <1>3 DEF Progress, InProgress, Working, Finishing
<1>5. ASSUME ~overlap' PROVE Alone'
  <2>1. ASSUME NEW d \in OtaCallers, Finishing(d)', NEW t \in Tasks PROVE ~Lives(t)'
    BY <1>1, <1>3, <1>5, <2>1 DEF Alone, Finishing, Lives, Tasks
  <2> QED BY <1>1, <1>3, <1>5, <2>1 DEF Alone, InProgress, Lives
<1> QED BY <1>2, <1>4, <1>5

\* The forced delete and the two steps that follow it.
LEMMA AbortEnds ==
    ASSUME OtaInv, NEW c \in OtaCallers, AbortForces(c) \/ AbortClears(c) \/ AbortResets(c)
    PROVE  OtaInv'
<1> USE DEF OtaInv
<1>1. CASE AbortForces(c)
  <2>1. otaTask \in Tasks
    BY <1>1 DEF OtaTypeOK, AbortForces
  <2>2. /\ tpc'[otaTask] = "none" /\ \A t \in Tasks : t # otaTask => tpc'[t] = tpc[t]
        /\ cpc'[c] = "clear" /\ \A d \in OtaCallers : d # c => cpc'[d] = cpc[d]
        /\ UNCHANGED <<otaState, otaTask, abortReq, overlap>>
    BY <1>1, <2>1 DEF OtaTypeOK, AbortForces
  <2>3. mutexLost' \in BOOLEAN
    BY <1>1 DEF OtaTypeOK, AbortForces
  <2>4. OtaTypeOK'
    BY <1>1, <2>1, <2>3 DEF OtaTypeOK, AbortForces, TaskPcs, OtaCallerPcs
  <2>5. Progress'
    BY <2>2 DEF Progress, Finishing
  <2>6. ASSUME ~overlap' PROVE Alone'
    <3>1. \A t \in Tasks : tpc'[t] = "none"
      BY <2>2, <2>6 DEF Alone, Lives
    <3> QED BY <2>2, <3>1 DEF Alone, Lives, Finishing, Transfer
  <2> QED BY <2>4, <2>5, <2>6
<1>2. CASE AbortClears(c)
  <2>1. OtaTypeOK'
    BY <1>2 DEF OtaTypeOK, AbortClears, OtaCallerPcs
  <2>2. /\ otaTask' = 0 /\ UNCHANGED <<otaState, tpc, overlap>>
        /\ cpc[c] = "clear" /\ cpc'[c] = "reset"
        /\ \A d \in OtaCallers : d # c => cpc'[d] = cpc[d]
    BY <1>2 DEF OtaTypeOK, AbortClears
  <2>3. Progress'
    BY <2>2 DEF Progress, Finishing
  <2>4. ~overlap' => Alone'
    BY <2>2 DEF Alone, Lives, Finishing, InProgress
  <2> QED BY <2>1, <2>3, <2>4
<1>3. CASE AbortResets(c)
  <2>1. OtaTypeOK'
    BY <1>3 DEF OtaTypeOK, AbortResets, OtaCallerPcs, OtaStates
  <2>2. /\ otaState' = "IDLE" /\ UNCHANGED <<otaTask, tpc, overlap>>
        /\ cpc[c] = "reset" /\ cpc'[c] = "idle"
        /\ \A d \in OtaCallers : d # c => cpc'[d] = cpc[d]
    BY <1>3 DEF OtaTypeOK, AbortResets
  <2>3. Progress'
    BY <2>2 DEF Progress, InProgress
  <2>4. ~overlap' => Alone'
    BY <2>2 DEF Alone, Lives, Finishing, InProgress, Transfer
  <2> QED BY <2>1, <2>3, <2>4
<1> QED BY <1>1, <1>2, <1>3

-----------------------------------------------------------------------------
(* The steps of a task *)

\* A step of task t from a place where it lives to another, state and handle untouched.
LEMMA TaskMoves ==
    ASSUME OtaInv, NEW t \in Tasks, TaskChecksAbort(t) \/ TaskDownloads(t)
    PROVE  OtaInv'
<1> USE DEF OtaInv
<1>1. /\ UNCHANGED <<otaState, otaTask, abortReq, mutexLost, cpc, overlap>>
      /\ tpc[t] \in {"new", "loop", "begin", "perform", "finish"}
      /\ \E p \in {"toIDLE", "toDOWNLOADING", "perform", "loop", "toERROR", "toVERIFYING", "toAPPLYING"} :
            /\ tpc' = [tpc EXCEPT ![t] = p]
            /\ tpc[t] = "new" => p \in {"toIDLE", "toDOWNLOADING"}
  BY DEF OtaTypeOK, TaskChecksAbort, TaskDownloads, TaskGoes
<1>2. OtaTypeOK'
  BY <1>1 DEF OtaTypeOK, TaskPcs
<1>3. /\ \A u \in Tasks : u # t => tpc'[u] = tpc[u]
      /\ tpc'[t] \notin {"none", "cleanup"} /\ tpc[t] # "none"
      /\ tpc'[t] \in Transfer => tpc[t] \in Transfer
  BY <1>1 DEF OtaTypeOK, Transfer
<1>4. Progress'
  BY <1>1, <1>3 DEF Progress, Working, Finishing, InProgress
<1>5. ~overlap' => Alone'
  BY <1>1, <1>3 DEF Alone, Lives, Finishing, InProgress
<1> QED BY <1>2, <1>4, <1>5

\* update_state: the task that reports progress goes on working.
LEMMA TaskReports ==
    ASSUME OtaInv, NEW t \in Tasks, NEW s \in OtaStates, UpdateState(t, s)
    PROVE  OtaInv'
<1> USE DEF OtaInv
<1>1. /\ UNCHANGED <<otaTask, abortReq, mutexLost, cpc, overlap>>
      /\ otaState' = s /\ tpc[t] = At[s] /\ tpc' = [tpc EXCEPT ![t] = After[s]]
  BY DEF UpdateState, TaskGoes
<1>2. /\ At[s] \in TaskPcs \ {"none", "cleanup"} /\ After[s] \in TaskPcs \ {"none"}
      /\ After[s] = "cleanup" <=> s \in {"IDLE", "ERROR"}
      /\ After[s] \in Transfer => s \notin {"IDLE", "ERROR"}
  BY DEF OtaStates, At, After, TaskPcs, Transfer
<1>3. OtaTypeOK'
  BY <1>1, <1>2 DEF OtaTypeOK
<1>4. /\ \A u \in Tasks : u # t => tpc'[u] = tpc[u]
      /\ tpc'[t] = After[s]
  BY <1>1 DEF OtaTypeOK
<1>5. Progress'
  BY <1>1, <1>2, <1>4 DEF Progress, Working, InProgress
<1>6. ASSUME ~overlap' PROVE Alone'
  <2>1. Lives(t) /\ Lives(t)' /\ otaTask = t /\ \A u \in Tasks : u # t => tpc[u] = "none"
    BY <1>1, <1>2, <1>4, <1>6 DEF Alone, Lives
  <2>2. \A u \in Tasks : u # t => tpc'[u] = "none"
    BY <1>4, <2>1
  <2>3. \A u \in Tasks : tpc'[u] \in Transfer => InProgress'
    BY <1>1, <1>2, <1>4, <2>2 DEF InProgress, Transfer
  <2> QED BY <1>1, <1>4, <1>6, <2>1, <2>2, <2>3 DEF Alone, Lives, Finishing
<1> QED BY <1>3, <1>5, <1>6

\* The cleanup of a task.
LEMMA TaskCleans ==
    ASSUME OtaInv, NEW t \in Tasks, TaskCleansUp(t)
    PROVE  OtaInv'
<1> USE DEF OtaInv
<1>1. /\ UNCHANGED <<otaState, mutexLost, cpc, overlap>> /\ abortReq' = FALSE /\ otaTask' = 0
      /\ tpc[t] = "cleanup" /\ tpc' = [tpc EXCEPT ![t] = "none"]
  BY DEF TaskCleansUp, TaskGoes
<1>2. OtaTypeOK'
  BY <1>1 DEF OtaTypeOK, TaskPcs
<1>3. /\ \A u \in Tasks : u # t => tpc'[u] = tpc[u]
      /\ tpc'[t] = "none"
  BY <1>1 DEF OtaTypeOK
<1>4. Progress'
  BY <1>1, <1>3 DEF Progress, Working, Finishing, InProgress
<1>5. ~overlap' => Alone'
  BY <1>1, <1>3 DEF Alone, Lives, Finishing, InProgress, Transfer
<1> QED BY <1>2, <1>4, <1>5

\* After a restart, as after the first start, nothing is under way.
LEMMA Booted ==
    ASSUME NEW t \in Tasks, Restart(t)
    PROVE  OtaInv'
<1>1. OtaTypeOK'
  BY DEF Restart, OtaTypeOK, OtaStates, TaskPcs, OtaCallerPcs
<1>2. Progress'
  BY DEF Restart, Progress, InProgress
<1>3. Alone'
  BY DEF Restart, Alone, Lives, Finishing, Transfer
<1> QED BY <1>1, <1>2, <1>3 DEF OtaInv

-----------------------------------------------------------------------------
(* The theorems *)

\* The strengthened invariant is inductive.
LEMMA OtaInductive == OtaSpec => []OtaInv
<1>1. OtaInit => OtaInv
  BY DEF OtaInit, OtaInv, OtaTypeOK, Progress, InProgress, Alone, Lives, Finishing, Transfer,
         OtaStates, TaskPcs, OtaCallerPcs
<1>2. OtaInv /\ [OtaNext]_otaVars => OtaInv'
  <2> SUFFICES ASSUME OtaInv, [OtaNext]_otaVars PROVE OtaInv'
    OBVIOUS
  <2>1. CASE UNCHANGED otaVars
    BY <2>1 DEF otaVars, OtaInv, OtaTypeOK, Progress, InProgress, Working, Finishing, Alone,
           Lives
  <2>2. ASSUME NEW t \in Tasks, TaskStep(t) PROVE OtaInv'
    BY <2>2, TaskMoves, TaskReports, TaskCleans, Booted DEF TaskStep
  <2>3. ASSUME NEW c \in OtaCallers, StartAccepted(c) \/ AbortEnters(c) \/ OtaCallerStep(c)
        PROVE  OtaInv'
    BY <2>3, StartStep, AbortWaits, AbortEnds DEF OtaCallerStep
  <2> QED BY <2>1, <2>2, <2>3 DEF OtaNext
<1> QED BY <1>1, <1>2, PTL DEF OtaSpec

\* Whenever os_ota_is_in_progress reports an update, an OTA task exists or an abort has
\* yet to reset the state, however starts, aborts and forced deletes interleave; if a
\* forced delete took s_mutex with it, they may wait for it for ever.
THEOREM ProgressKeepsWorker == OtaSpec => []ProgressHasWorker
<1>1. OtaInv => ProgressHasWorker
  BY DEF OtaInv, Progress, ProgressHasWorker, Working, Finishing, Lives
<1> QED BY <1>1, OtaInductive, PTL

\* Until updates overlap, s_ota_task is the one task there is, so that an abort reaches
\* the update and nothing else.
THEOREM HandleStaysTask == OtaSpec => []HandleIsTask
<1>1. OtaInv => HandleIsTask
  BY DEF OtaInv, Alone, HandleIsTask
<1> QED BY <1>1, OtaInductive, PTL

\* Until updates overlap, an update that is transferred, checked or booted is reported.
THEOREM RunningStaysReported == OtaSpec => []RunningIsReported
<1>1. OtaInv => RunningIsReported
  BY DEF OtaInv, Alone, RunningIsReported, Transfer
<1> QED BY <1>1, OtaInductive, PTL

-----------------------------------------------------------------------------
(* The software timers *)

Commands == [op : Ops, id : Ids]

\* Is the deletion of timer i queued?
Ending(i) == \E k \in 1 .. Len(cmds) : cmds[k].op = "delete" /\ cmds[k].id = i

\* Slots and timers belong to each other, and a timer is deleted once.
Owned ==
    /\ \A s \in Slots : timers[s].handle # 0 =>
         /\ rtos[timers[s].handle] # "free" /\ ~Ending(timers[s].handle)
         /\ timerId[timers[s].handle] = s
         /\ timers[s].reload => timers[s].handle \in auto
    /\ \A i \in Ids : rtos[i] # "free" =>
         timerId[i] \in Slots /\ (Ending(i) \/ timers[timerId[i]].handle = i)
    /\ \A k \in 1 .. Len(cmds) : cmds[k].op = "delete" => rtos[cmds[k].id] # "free"
    /\ \A j, k \in 1 .. Len(cmds) :
         cmds[j].op = "delete" /\ cmds[k].op = "delete" /\ cmds[j].id = cmds[k].id => j = k

\* Who has the lock, and what it protects.
Held ==
    \A c \in TimerCallers :
        /\ lock = c <=> call[c].at \in {"locked", "stopped"}
        /\ call[c].at = "stopped" => Handle(c) # 0
        /\ call[c].at = "posted" => call[c].op # "delete"

\* Calls that do not overlap have slots of their own, and the handle they read is still
\* the one in the slot.
Apart ==
    ~timerOverlap => \A c \in TimerCallers : call[c].at # "idle" =>
        /\ \A d \in TimerCallers : call[d].at # "idle" /\ call[d].slot = call[c].slot => d = c
        /\ Handle(c) # 0
        /\ call[c].at \in {"checked", "reread"} => call[c].id = Handle(c)

\* Command k is the last one queued for timer i.
Latest(k, i) ==
    cmds[k].id = i /\ \A j \in 1 .. Len(cmds) : cmds[j].id = i => j <= k

\* Whether the timer of slot s will run is what "on" says.
Says(s, on) ==
    /\ (\A k \in 1 .. Len(cmds) : cmds[k].id # timers[s].handle) =>
         (on <=> rtos[timers[s].handle] = "running")
    /\ \A k \in 1 .. Len(cmds) :
         Latest(k, timers[s].handle) => (on <=> cmds[k].op = "start")

\* The flag is right, or the call that will store it knows better.
Known ==
    ~timerOverlap => \A s \in Slots : timers[s].handle # 0 /\ timers[s].reload =>
        /\ (\A c \in TimerCallers : call[c].slot = s => call[c].at \notin {"posted", "stopped"}) =>
             Says(s, timers[s].active)
        /\ \A c \in TimerCallers : call[c].at = "posted" /\ call[c].slot = s => Says(s, call[c].op # "stop")

TimerInv == TimerTypeOK /\ Owned /\ Held /\ Apart /\ CommandsReachTimer /\ Known
-----------------------------------------------------------------------------
(* Queues *)

\* A set of natural numbers that is not empty has a first one.
LEMMA First ==
    ASSUME NEW S \in SUBSET Nat, S # {}
    PROVE  \E m \in S : \A n \in S : m <= n
<1>1. PICK m \in S : \A n \in S : ~(<<n, m>> \in OpToRel(<, Nat))
  BY NatLessThanWellFounded, WFMin, Zenon
<1>2. \A n \in S : <<n, m>> \in OpToRel(<, Nat) <=> n < m
  BY DEF OpToRel
<1>3. \A n \in S : ~(n < m)
  BY <1>1, <1>2, Zenon
<1> QED BY <1>3

\* What Append does to the places of a queue.
LEMMA Appended ==
    ASSUME NEW q \in Seq(Commands), NEW e \in Commands
    PROVE  /\ Append(q, e) \in Seq(Commands) /\ Len(Append(q, e)) = Len(q) + 1
           /\ Append(q, e)[Len(q) + 1] = e
           /\ \A k \in 1 .. Len(q) : Append(q, e)[k] = q[k]
OBVIOUS

\* What Tail does to the places of a queue.
LEMMA Dropped ==
    ASSUME NEW q \in Seq(Commands), q # <<>>
    PROVE  /\ Tail(q) \in Seq(Commands) /\ Len(Tail(q)) = Len(q) - 1 /\ Len(q) \in Nat \ {0}
           /\ Head(q) = q[1] /\ Head(q) \in Commands
           /\ \A k \in 1 .. Len(q) - 1 : Tail(q)[k] = q[k + 1]
OBVIOUS

-----------------------------------------------------------------------------
(* The steps *)

\* A step of a call that only changes what the call knows: it gives up, it reads the
\* handle, it takes the lock, or it has just found its slot.
Looks(c) ==
    /\ UNCHANGED <<timers, rtos, timerId, auto, cmds>>
    /\ call' = [call EXCEPT ![c] = call'[c]] /\ call'[c] \in Calls
    /\ \/ /\ call[c].at \in {"found", "checked", "reread"} /\ UNCHANGED timerOverlap
          /\ \/ call'[c].at = "idle" /\ UNCHANGED lock
             \/ /\ call'[c].at \in {"checked", "reread"} /\ call'[c].slot = call[c].slot
                /\ call'[c].id = Handle(c) /\ UNCHANGED lock
             \/ /\ call'[c].at = "locked" /\ call'[c].slot = call[c].slot
                /\ lock = Nobody /\ lock' = c
       \/ /\ call[c].at = "idle" /\ call'[c].at = "found" /\ UNCHANGED lock
          /\ timers[call'[c].slot].handle # 0
          /\ timerOverlap' = (timerOverlap \/ \E d \in TimerCallers : call[d].at # "idle" /\ call[d].slot = call'[c].slot)

\* Such a step keeps the invariant.
LEMMA LookKeeps ==
    ASSUME TimerInv, NEW c \in TimerCallers, Looks(c)
    PROVE  TimerInv'
<1> USE TimerAssumption DEF TimerInv, TimerTypeOK
<1>0. UNCHANGED <<timers, rtos, timerId, auto, cmds>>
  BY DEF Looks
<1>1. TimerTypeOK'
  <2>1. call' \in [TimerCallers -> Calls] /\ lock' \in TimerCallers \cup {Nobody} /\ timerOverlap' \in BOOLEAN
    BY DEF Looks
  <2> QED BY <1>0, <2>1
<1>2. Owned'
  BY <1>0 DEF Owned, Ending
<1>3. /\ \A d \in TimerCallers : d # c => call'[d] = call[d]
      /\ call[c].at \in {"idle", "found", "checked", "reread"}
      /\ call'[c].at \in {"idle", "found", "checked", "reread", "locked"}
  BY DEF Looks
<1>4. \/ lock' = c /\ call'[c].at = "locked" /\ lock = Nobody
      \/ lock' = lock /\ call'[c].at # "locked"
  BY DEF Looks
<1>5. Held'
  BY <1>0, <1>3, <1>4 DEF Held, Handle
<1>6. ASSUME ~timerOverlap' PROVE ~timerOverlap
  BY <1>6 DEF Looks
<1>7. CommandsReachTimer'
  BY <1>0, <1>6 DEF CommandsReachTimer
<1>8. Known'
  <2> SUFFICES ASSUME ~timerOverlap', NEW s \in Slots, timers[s].handle # 0, timers[s].reload
               PROVE  /\ (\A d \in TimerCallers : call'[d].slot = s => call'[d].at \notin {"posted", "stopped"}) =>
                           Says(s, timers[s].active)
                      /\ \A d \in TimerCallers : call'[d].at = "posted" /\ call'[d].slot = s => Says(s, call'[d].op # "stop")
    BY <1>0 DEF Known, Says, Latest
  <2>1. \A d \in TimerCallers : call'[d].at \in {"posted", "stopped"} \/ call[d].at \in {"posted", "stopped"} => call'[d] = call[d]
    BY <1>3
  <2> QED BY <2>1, <1>6 DEF Known
<1>9. Apart'
  <2> SUFFICES ASSUME ~timerOverlap'
               PROVE  \A d \in TimerCallers : call'[d].at # "idle" =>
                        /\ \A e \in TimerCallers : call'[e].at # "idle" /\ call'[e].slot = call'[d].slot => e = d
                        /\ Handle(d)' # 0
                        /\ call'[d].at \in {"checked", "reread"} => call'[d].id = Handle(d)'
    BY DEF Apart
  <2>1. ~timerOverlap
    BY <1>6
  <2>2. \A d \in TimerCallers : call'[d] = call[d] => Handle(d)' = Handle(d)
    BY <1>0 DEF Handle
  <2>3. CASE call[c].at # "idle"
    <3>1. call'[c].at # "idle" => call'[c].slot = call[c].slot
      BY <2>3 DEF Looks
    <3>2. call'[c].at \in {"checked", "reread"} => call'[c].id = Handle(c)
      BY <2>3 DEF Looks
    <3>3. call'[c].at # "idle" => Handle(c)' = Handle(c)
      BY <1>0, <3>1 DEF Handle
    <3> QED BY <1>3, <2>1, <2>2, <2>3, <3>1, <3>2, <3>3 DEF Apart
  <2>4. CASE call[c].at = "idle"
    <3>1. /\ \A d \in TimerCallers : call[d].at # "idle" => call[d].slot # call'[c].slot
          /\ call'[c].at = "found" /\ timers[call'[c].slot].handle # 0
      BY <2>4 DEF Looks
    <3>2. Handle(c)' # 0
      BY <1>0, <3>1 DEF Handle
    <3> QED BY <1>3, <2>1, <2>2, <2>4, <3>1, <3>2 DEF Apart
  <2> QED BY <2>3, <2>4
<1> QED BY <1>1, <1>2, <1>5, <1>7, <1>8, <1>9

\* These are the steps of that kind.
LEMMA LookSteps ==
    ASSUME TimerInv, NEW c \in TimerCallers,
           \/ Check(c) \/ Reread(c) \/ DeleteLocks(c) \/ (Post(c) /\ cmds' = cmds)
           \/ \E n \in Names, op \in Ops : Find(c, n, op)
    PROVE  Looks(c)
<1> USE TimerAssumption DEF TimerInv, TimerTypeOK
<1>a. ASSUME Check(c) PROVE Looks(c)
  <2>1. call'[c] = Idle \/ call'[c] = [call[c] EXCEPT !.at = "checked", !.id = Handle(c)]
    BY <1>a DEF Check
  <2>2. Handle(c) \in Ids \cup {0} /\ call[c] \in Calls
    BY DEF Handle, TimerObj, Calls
  <2>3. call'[c] \in Calls
    <3>1. Idle \in Calls
      BY DEF Calls, Idle, Slots, Ops
    <3>2. [call[c] EXCEPT !.at = "checked", !.id = Handle(c)] \in Calls
      BY <2>2 DEF Calls
    <3> QED BY <2>1, <3>1, <3>2
  <2>4. /\ call[c].at = "found"
        /\ \/ call'[c].at = "idle"
           \/ call'[c].at = "checked" /\ call'[c].slot = call[c].slot /\ call'[c].id = Handle(c)
    BY <1>a, <2>1, <2>2 DEF Check, Calls, Idle
  <2> QED BY <1>a, <2>3, <2>4 DEF Check, Looks, rtosVars
<1>b. ASSUME Reread(c) PROVE Looks(c)
  <2>1. call'[c] = [call[c] EXCEPT !.at = "reread", !.id = Handle(c)]
    BY <1>b DEF Reread
  <2>2. Handle(c) \in Ids \cup {0} /\ call[c] \in Calls
    BY DEF Handle, TimerObj, Calls
  <2> QED BY <1>b, <2>1, <2>2 DEF Reread, Calls, Looks, rtosVars
<1>c. ASSUME DeleteLocks(c) PROVE Looks(c)
  <2>1. call'[c] = [call[c] EXCEPT !.at = "locked"] /\ call[c] \in Calls
    BY <1>c DEF DeleteLocks
  <2> QED BY <1>c, <2>1 DEF DeleteLocks, Calls, Looks, rtosVars
<1>d. ASSUME NEW n \in Names, NEW op \in Ops, Find(c, n, op) PROVE Looks(c)
  <2>1. PICK s \in Slots :
          /\ Named(s, n)
          /\ call' = [call EXCEPT ![c] = [at |-> "found", op |-> op, slot |-> s, id |-> 0]]
          /\ timerOverlap' = (timerOverlap \/ \E d \in TimerCallers : call[d].at # "idle" /\ call[d].slot = s)
    BY <1>d DEF Find, IsFindByName
  <2>2. call'[c] = [at |-> "found", op |-> op, slot |-> s, id |-> 0] /\ timers[s].handle # 0
    BY <2>1 DEF Named
  <2>3. call'[c] \in Calls /\ call'[c].at = "found" /\ call'[c].slot = s
    BY <2>2 DEF Calls
  <2> QED BY <1>d, <2>1, <2>2, <2>3 DEF Find, Looks, rtosVars
<1>e. ASSUME Post(c), cmds' = cmds PROVE Looks(c)
  <2>1. Len(cmds) >= QueueLength
    <3>1. ASSUME Len(cmds) < QueueLength PROVE FALSE
      <4>1. cmds' = Append(cmds, [op |-> call[c].op, id |-> call[c].id])
        BY <1>e, <3>1 DEF Post
      <4> QED BY <1>e, <4>1
    <3> QED BY <3>1
  <2>2. call' = [call EXCEPT ![c] = Idle] /\ Idle \in Calls
    BY <1>e, <2>1 DEF Post, Calls, Idle, Slots, Ops
  <2>3. call'[c] = Idle /\ Idle.at = "idle"
    BY <2>2 DEF Idle
  <2> QED BY <1>e, <2>2, <2>3 DEF Post, Looks, rtosVars
<1> QED BY <1>a, <1>b, <1>c, <1>d, <1>e

\* The queue holds commands.
LEMMA CommandsTyped ==
    ASSUME TimerTypeOK
    PROVE  \A k \in 1 .. Len(cmds) : cmds[k] \in Commands /\ cmds[k].op \in Ops /\ cmds[k].id \in Ids
<1>1. cmds \in Seq(Commands)
  BY DEF TimerTypeOK, Commands
<1>2. \A k \in 1 .. Len(cmds) : cmds[k] \in Commands
  BY <1>1
<1> QED BY <1>2 DEF Commands

\* Distinct slots have distinct timers.
LEMMA HandlesDiffer ==
    ASSUME TimerInv, NEW s \in Slots, NEW t \in Slots, timers[s].handle # 0,
           timers[s].handle = timers[t].handle
    PROVE  s = t
BY DEF TimerInv, Owned

\* A command that is not a deletion is posted, by a call that goes on.
LEMMA SendStep ==
    ASSUME TimerInv, NEW c \in TimerCallers, (Post(c) /\ cmds' # cmds) \/ DeleteStops(c)
    PROVE  TimerInv'
<1> USE TimerAssumption DEF TimerInv, TimerTypeOK
<1>1. PICK e \in Commands :
        /\ cmds' = Append(cmds, e) /\ Len(cmds) < QueueLength /\ e.op # "delete"
        /\ UNCHANGED <<timers, lock, rtos, timerId, auto, timerOverlap>>
        /\ \/ /\ call' = [call EXCEPT ![c].at = "posted"] /\ call[c].at \in {"checked", "reread"}
              /\ e.op = call[c].op /\ e.id = call[c].id
           \/ /\ call' = [call EXCEPT ![c].at = "stopped"] /\ call[c].at = "locked"
              /\ e.op = "stop" /\ e.id = Handle(c)
        /\ e.id # 0
  <2>1. CASE Post(c) /\ cmds' # cmds
    <3> DEFINE e == [op |-> call[c].op, id |-> call[c].id]
    <3>1. e \in Commands /\ e.op = call[c].op /\ e.id = call[c].id
      BY <2>1 DEF Post, Calls, Commands
    <3>2. Len(cmds) < QueueLength
      BY <2>1 DEF Post
    <3>3. cmds' = Append(cmds, e) /\ call' = [call EXCEPT ![c].at = "posted"]
      BY <2>1, <3>2 DEF Post
    <3> HIDE DEF e
    <3> QED BY <2>1, <3>1, <3>2, <3>3 DEF Post, rtosVars
  <2>2. CASE DeleteStops(c)
    <3> DEFINE e == [op |-> "stop", id |-> Handle(c)]
    <3>1. Handle(c) \in Ids
      BY <2>2 DEF DeleteStops, Handle, TimerObj, Calls
    <3>2. e \in Commands /\ e.op = "stop" /\ e.id = Handle(c)
      BY <3>1 DEF Commands, Ops
    <3>3. cmds' = Append(cmds, e)
      BY <2>2 DEF DeleteStops
    <3> HIDE DEF e
    <3> QED BY <2>2, <3>1, <3>2, <3>3 DEF DeleteStops, rtosVars
  <2> QED BY <2>1, <2>2
<1>2. /\ cmds' \in Seq(Commands) /\ Len(cmds') = Len(cmds) + 1 /\ Len(cmds) \in Nat
      /\ cmds'[Len(cmds) + 1] = e
      /\ \A k \in 1 .. Len(cmds) : cmds'[k] = cmds[k]
  BY <1>1, Appended DEF Commands
<1>3. /\ \A d \in TimerCallers : d # c => call'[d] = call[d]
      /\ call'[c].slot = call[c].slot /\ call'[c].op = call[c].op /\ call'[c].id = call[c].id
      /\ call'[c].at \in {"posted", "stopped"} /\ call[c].at \in {"checked", "reread", "locked"}
      /\ call'[c].at = "posted" <=> call[c].at # "locked"
      /\ call'[c] \in Calls
  <2>1. \A d \in TimerCallers : d # c => call'[d] = call[d]
    BY <1>1
  <2>2. \/ call'[c] = [call[c] EXCEPT !.at = "posted"] /\ call[c].at \in {"checked", "reread"}
        \/ call'[c] = [call[c] EXCEPT !.at = "stopped"] /\ call[c].at = "locked"
    BY <1>1
  <2>3. call[c] \in Calls
    OBVIOUS
  <2> HIDE DEF TimerInv, TimerTypeOK
  <2>4. CASE call'[c] = [call[c] EXCEPT !.at = "posted"] /\ call[c].at \in {"checked", "reread"}
    BY <2>1, <2>3, <2>4 DEF Calls
  <2>5. CASE call'[c] = [call[c] EXCEPT !.at = "stopped"] /\ call[c].at = "locked"
    BY <2>1, <2>3, <2>5 DEF Calls
  <2> QED BY <2>2, <2>4, <2>5
<1>4. TimerTypeOK'
  <2>1. call' \in [TimerCallers -> Calls]
    BY <1>1, <1>3
  <2>2. Len(cmds') <= QueueLength
    BY <1>1, <1>2
  <2> QED BY <1>1, <1>2, <2>1, <2>2 DEF Commands
<1>5. \A i \in Ids : Ending(i)' <=> Ending(i)
  BY <1>1, <1>2 DEF Ending
<1>6. Owned'
  <2>1. \A s \in Slots : timers[s].handle # 0 => timers[s].handle \in Ids
    BY DEF TimerObj
  <2>2. \A k \in 1 .. Len(cmds') : cmds'[k].op = "delete" => k \in 1 .. Len(cmds) /\ cmds'[k] = cmds[k]
    BY <1>1, <1>2
  <2>3. \A s \in Slots : timers'[s].handle # 0 =>
         /\ rtos'[timers'[s].handle] # "free" /\ ~Ending(timers[s].handle)'
         /\ timerId'[timers'[s].handle] = s
         /\ timers'[s].reload => timers'[s].handle \in auto'
    BY <1>1, <1>5, <2>1 DEF Owned
  <2>4. \A i \in Ids : rtos'[i] # "free" =>
         timerId'[i] \in Slots /\ (Ending(i)' \/ timers'[timerId'[i]].handle = i)
    BY <1>1, <1>5 DEF Owned
  <2>5. \A k \in 1 .. Len(cmds') : cmds'[k].op = "delete" => rtos'[cmds'[k].id] # "free"
    BY <1>1, <2>2 DEF Owned
  <2>6. \A j, k \in 1 .. Len(cmds') :
         cmds'[j].op = "delete" /\ cmds'[k].op = "delete" /\ cmds'[j].id = cmds'[k].id => j = k
    BY <2>2 DEF Owned
  <2> QED BY <2>3, <2>4, <2>5, <2>6 DEF Owned
<1>7. \A d \in TimerCallers : Handle(d)' = Handle(d)
  BY <1>1, <1>3 DEF Handle
<1>8. Held'
  <2>1. call'[c].at = "stopped" => Handle(c)' # 0
    BY <1>1, <1>3, <1>7
  <2>2. call'[c].at = "posted" => call'[c].op # "delete"
    BY <1>1, <1>3
  <2>3. lock = c <=> call'[c].at = "stopped"
    BY <1>3 DEF Held
  <2> QED BY <1>1, <1>3, <1>7, <2>1, <2>2, <2>3 DEF Held
<1>9. Apart'
  BY <1>1, <1>3, <1>7 DEF Apart
<1>10. ASSUME ~timerOverlap PROVE e.id = Handle(c)
  BY <1>1, <1>3, <1>10 DEF Apart
<1>11. CommandsReachTimer'
  <2> SUFFICES ASSUME ~timerOverlap', NEW k \in 1 .. Len(cmds')
               PROVE  /\ rtos'[cmds'[k].id] # "free"
                      /\ \A j \in 1 .. k - 1 : cmds'[j].op = "delete" => cmds'[j].id # cmds'[k].id
    BY DEF CommandsReachTimer
  <2>1. CASE k \in 1 .. Len(cmds)
    BY <1>1, <1>2, <2>1 DEF CommandsReachTimer
  <2>2. CASE k = Len(cmds) + 1
    <3>1. e.id = timers[call[c].slot].handle /\ call[c].slot \in Slots
      BY <1>1, <1>10 DEF Handle, Calls
    <3>2. rtos[e.id] # "free" /\ ~Ending(e.id)
      BY <1>1, <3>1 DEF Owned
    <3> QED BY <1>1, <1>2, <2>2, <3>2 DEF Ending
  <2> QED BY <1>2, <2>1, <2>2
<1>12. Known'
  <2> SUFFICES ASSUME ~timerOverlap', NEW s \in Slots, timers[s].handle # 0, timers[s].reload
               PROVE  /\ (\A d \in TimerCallers : call'[d].slot = s => call'[d].at \notin {"posted", "stopped"}) =>
                           Says(s, timers[s].active)'
                      /\ \A d \in TimerCallers : call'[d].at = "posted" /\ call'[d].slot = s =>
                           Says(s, call[d].op # "stop")'
    BY <1>1, <1>3 DEF Known
  <2>1. e.id = Handle(c) /\ call[c].slot \in Slots /\ ~timerOverlap
    BY <1>1, <1>10 DEF Calls
  <2>2. CASE s = call[c].slot
    <3>1. \A d \in TimerCallers : call'[d].at = "posted" /\ call'[d].slot = s => d = c
      BY <1>3, <2>1, <2>2 DEF Apart
    <3>2. ASSUME call'[c].at = "posted" PROVE Says(s, call[c].op # "stop")'
      <4>1. e.op = call[c].op /\ e.op \in {"start", "stop"} /\ e.id = timers[s].handle
        BY <1>1, <1>3, <2>1, <2>2, <3>2 DEF Handle, Commands, Ops
      <4>2. \A k \in 1 .. Len(cmds') : Latest(k, timers[s].handle)' => k = Len(cmds) + 1
        BY <1>1, <1>2, <4>1 DEF Latest
      <4> QED BY <1>1, <1>2, <1>3, <4>1, <4>2 DEF Says
    <3> QED BY <1>3, <2>2, <3>1, <3>2
  <2>3. CASE s # call[c].slot
    <3>1. e.id # timers[s].handle
      BY <2>1, <2>3, HandlesDiffer DEF Handle
    <3>2. Says(s, timers[s].active) => Says(s, timers[s].active)'
      BY <1>1, <1>2, <3>1 DEF Says, Latest
    <3>3. \A d \in TimerCallers : call'[d] = call[d] /\ Says(s, call[d].op # "stop") => Says(s, call[d].op # "stop")'
      BY <1>1, <1>2, <3>1 DEF Says, Latest
    <3>4. \A d \in TimerCallers : call'[d].slot = s => call'[d] = call[d]
      BY <1>3, <2>3
    <3>5. (\A d \in TimerCallers : call'[d].slot = s => call'[d].at \notin {"posted", "stopped"}) =>
            \A d \in TimerCallers : call[d].slot = s => call[d].at \notin {"posted", "stopped"}
      BY <1>3, <2>3
    <3> QED BY <1>1, <2>1, <3>2, <3>3, <3>4, <3>5 DEF Known
  <2> QED BY <2>2, <2>3
<1> QED BY <1>4, <1>6, <1>8, <1>9, <1>11, <1>12

\* os_timer_create fills a slot nobody uses with a timer nobody knows.
LEMMA CreateStep ==
    ASSUME TimerInv, NEW c \in TimerCallers, NEW n \in Names, Create(c, n)
    PROVE  TimerInv'
<1> USE TimerAssumption DEF TimerInv, TimerTypeOK
<1>1. PICK s \in Slots, i \in Ids :
        /\ timers[s].handle = 0 /\ rtos[i] = "free"
        /\ timers' = [timers EXCEPT ![s] = [Cleared EXCEPT !.handle = i, !.name = n,
                                                           !.reload = (n \in Reloading)]]
        /\ rtos' = [rtos EXCEPT ![i] = "dormant"]
        /\ timerId' = [timerId EXCEPT ![i] = s]
        /\ auto' = IF n \in Reloading THEN auto \cup {i} ELSE auto
  BY DEF Create, IsFindSlot, Unused
<1>2. UNCHANGED <<lock, call, cmds, timerOverlap>> /\ lock = Nobody
  BY DEF Create
<1>3. /\ timers'[s].handle = i /\ ~timers'[s].active
      /\ timers'[s].reload => n \in Reloading
      /\ timers'[s] \in TimerObj
  <2>1. timers'[s] = [Cleared EXCEPT !.handle = i, !.name = n, !.reload = (n \in Reloading)]
    BY <1>1
  <2>2. timers'[s] = [handle |-> i, name |-> n, reload |-> (n \in Reloading), active |-> FALSE]
    BY <2>1 DEF Cleared
  <2>3. timers'[s] \in TimerObj
    <3>1. [handle |-> i, name |-> n, reload |-> TRUE, active |-> FALSE] \in TimerObj
      BY DEF TimerObj
    <3>2. [handle |-> i, name |-> n, reload |-> FALSE, active |-> FALSE] \in TimerObj
      BY DEF TimerObj
    <3>3. CASE n \in Reloading
      BY <2>2, <3>1, <3>3
    <3>4. CASE n \notin Reloading
      <4>1. (n \in Reloading) = FALSE
        BY <3>4
      <4> QED BY <2>2, <3>2, <4>1
    <3> QED BY <3>3, <3>4
  <2>4. timers'[s].handle = i /\ ~timers'[s].active
    BY <2>2
  <2>5. timers'[s].reload = (n \in Reloading)
    BY <2>2
  <2> QED BY <2>3, <2>4, <2>5
<1>4. /\ \A t \in Slots : t # s => timers'[t] = timers[t]
      /\ \A j \in Ids : j # i => rtos'[j] = rtos[j] /\ timerId'[j] = timerId[j]
      /\ rtos'[i] = "dormant" /\ timerId'[i] = s
  BY <1>1
<1>5. TimerTypeOK'
  <2>1. timers' \in [Slots -> TimerObj]
    BY <1>1, <1>3
  <2>2. rtos' \in [Ids -> RtosStates] /\ timerId' \in [Ids -> Slots \cup {0}] /\ auto' \in SUBSET Ids
    BY <1>1 DEF RtosStates
  <2> QED BY <1>2, <2>1, <2>2
<1>6. \A t \in Slots : timers[t].handle # 0 => timers[t].handle \in Ids /\ timers[t].handle # i
  BY <1>1 DEF TimerObj, Owned
<1>7. \A j : Ending(j)' <=> Ending(j)
  BY <1>2 DEF Ending
<1>8. ~Ending(i)
  BY <1>1 DEF Ending, Owned
<1>9. \A k \in 1 .. Len(cmds) : cmds[k].id \in Ids
  BY CommandsTyped
<1>10. Owned'
  <2>1. \A t \in Slots : timers'[t].handle # 0 =>
         /\ rtos'[timers'[t].handle] # "free" /\ ~Ending(timers[t].handle)'
         /\ timerId'[timers'[t].handle] = t
         /\ timers'[t].reload => timers'[t].handle \in auto'
    <3> SUFFICES ASSUME NEW t \in Slots, timers'[t].handle # 0
                 PROVE  /\ rtos'[timers'[t].handle] # "free" /\ ~Ending(timers[t].handle)'
                        /\ timerId'[timers'[t].handle] = t
                        /\ timers'[t].reload => timers'[t].handle \in auto'
      OBVIOUS
    <3>1. CASE t = s
      <4>1. ~Ending(timers[t].handle)'
        BY <1>2, <1>3, <1>8, <3>1 DEF Ending
      <4> QED BY <1>1, <1>3, <1>4, <3>1, <4>1
    <3>2. CASE t # s
      <4>1. timers[t].handle # 0 /\ timers'[t] = timers[t] /\ timers[t].handle # i /\ timers[t].handle \in Ids
        BY <1>4, <1>6, <3>2
      <4>2. ~Ending(timers[t].handle)'
        BY <1>2, <4>1 DEF Ending, Owned
      <4> QED BY <1>1, <1>4, <4>1, <4>2 DEF Owned
    <3> QED BY <3>1, <3>2
  <2>2. \A j \in Ids : rtos'[j] # "free" =>
         timerId'[j] \in Slots /\ (Ending(j)' \/ timers'[timerId'[j]].handle = j)
    <3> SUFFICES ASSUME NEW j \in Ids, rtos'[j] # "free"
                 PROVE  timerId'[j] \in Slots /\ (Ending(j)' \/ timers'[timerId'[j]].handle = j)
      OBVIOUS
    <3>1. CASE j = i
      BY <1>3, <1>4, <3>1
    <3>2. CASE j # i
      <4>1. timerId[j] \in Slots /\ (Ending(j) \/ timers[timerId[j]].handle = j) /\ timerId'[j] = timerId[j]
        BY <1>4, <3>2 DEF Owned
      <4>2. j # 0
        BY DEF Ids
      <4>3. timers[timerId[j]].handle = j => timerId[j] # s
        BY <1>1, <4>2
      <4> QED BY <1>4, <1>7, <4>1, <4>3
    <3> QED BY <3>1, <3>2
  <2>3. \A k \in 1 .. Len(cmds') : cmds'[k].op = "delete" => rtos'[cmds'[k].id] # "free"
    BY <1>2, <1>4, <1>9 DEF Owned
  <2> QED BY <1>2, <2>1, <2>2, <2>3 DEF Owned
<1>11. \A d \in TimerCallers : Handle(d) # 0 => Handle(d)' # 0 /\ Handle(d)' = Handle(d)
  BY <1>1, <1>2, <1>4 DEF Handle, Calls
<1>12. Held'
  BY <1>2, <1>11 DEF Held
<1>13. Apart'
  BY <1>2, <1>11 DEF Apart
<1>14. CommandsReachTimer'
  BY <1>2, <1>4, <1>9 DEF CommandsReachTimer
<1>15. Known'
  <2> SUFFICES ASSUME ~timerOverlap, NEW t \in Slots, timers'[t].handle # 0, timers'[t].reload
               PROVE  /\ (\A d \in TimerCallers : call[d].slot = t => call[d].at \notin {"posted", "stopped"}) =>
                           Says(t, timers[t].active)'
                      /\ \A d \in TimerCallers : call[d].at = "posted" /\ call[d].slot = t =>
                           Says(t, call[d].op # "stop")'
    BY <1>2 DEF Known
  <2>1. CASE t = s
    <3>1. \A d \in TimerCallers : call[d].at = "posted" => call[d].slot # t
      BY <1>1, <2>1 DEF Apart, Handle
    <3>2. \A k \in 1 .. Len(cmds) : cmds[k].id # i
      BY <1>1 DEF CommandsReachTimer
    <3>3. Says(t, timers[t].active)'
      BY <1>2, <1>3, <1>4, <2>1, <3>2 DEF Says, Latest
    <3> QED BY <3>1, <3>3
  <2>2. CASE t # s
    <3>1. timers'[t] = timers[t] /\ rtos'[timers[t].handle] = rtos[timers[t].handle]
      BY <1>4, <1>6, <2>2
    <3>2. Says(t, timers[t].active) => Says(t, timers[t].active)'
      BY <1>2, <3>1 DEF Says, Latest
    <3>3. \A d \in TimerCallers : Says(t, call[d].op # "stop") => Says(t, call[d].op # "stop")'
      BY <1>2, <3>1 DEF Says, Latest
    <3> QED BY <3>1, <3>2, <3>3 DEF Known
  <2> QED BY <2>1, <2>2
<1> QED BY <1>5, <1>10, <1>12, <1>13, <1>14, <1>15

\* The call stores the state that its command will bring about.
LEMMA MarkStep ==
    ASSUME TimerInv, NEW c \in TimerCallers, Mark(c)
    PROVE  TimerInv'
<1> USE TimerAssumption DEF TimerInv, TimerTypeOK
<1> DEFINE s == call[c].slot
<1>1. s \in Slots /\ call[c].at = "posted" /\ lock = Nobody
  BY DEF Mark, Calls
<1>2. /\ UNCHANGED <<lock, rtos, timerId, auto, cmds, timerOverlap>>
      /\ call' = [call EXCEPT ![c] = Idle]
      /\ timers' = [timers EXCEPT ![s].active = (call[c].op # "stop")]
  BY DEF Mark, rtosVars
<1>3. /\ \A t \in Slots :
           /\ timers'[t].handle = timers[t].handle
           /\ timers'[t].reload = timers[t].reload
           /\ t # s => timers'[t] = timers[t]
      /\ timers'[s].active = (call[c].op # "stop")
      /\ timers'[s] \in TimerObj
  <2>1. timers'[s] = [timers[s] EXCEPT !.active = (call[c].op # "stop")] /\ timers[s] \in TimerObj
    BY <1>1, <1>2
  <2>2. (call[c].op # "stop") \in BOOLEAN
    OBVIOUS
  <2>3. /\ timers'[s].handle = timers[s].handle /\ timers'[s].reload = timers[s].reload
        /\ timers'[s].active = (call[c].op # "stop")
    BY <2>1 DEF TimerObj
  <2>4. timers'[s] \in TimerObj
    BY <2>1, <2>2 DEF TimerObj
  <2>5. \A t \in Slots : t # s => timers'[t] = timers[t]
    BY <1>1, <1>2
  <2> QED BY <2>3, <2>4, <2>5
<1>4. call'[c] = Idle /\ Idle.at = "idle" /\ Idle \in Calls /\ \A d \in TimerCallers : d # c => call'[d] = call[d]
  BY <1>2 DEF Idle, Calls, Slots, Ops
<1> HIDE DEF s
<1>5. TimerTypeOK'
  BY <1>1, <1>2, <1>3, <1>4
<1>6. \A j : Ending(j)' <=> Ending(j)
  BY <1>2 DEF Ending
<1>7. Owned'
  <2>1. \A t \in Slots : Ending(timers[t].handle)' <=> Ending(timers[t].handle)
    BY <1>2, <1>3 DEF Ending
  <2>2. \A j \in Ids : rtos[j] # "free" => timers'[timerId[j]].handle = timers[timerId[j]].handle
    BY <1>3 DEF Owned
  <2> QED BY <1>2, <1>3, <1>6, <2>1, <2>2 DEF Owned
<1>8. \A d \in TimerCallers : d # c => Handle(d)' = Handle(d)
  BY <1>3, <1>4 DEF Handle, Calls
<1>9. Held'
  BY <1>1, <1>2, <1>4, <1>8 DEF Held
<1>10. Apart'
  BY <1>2, <1>4, <1>8 DEF Apart
<1>11. CommandsReachTimer'
  BY <1>2 DEF CommandsReachTimer
<1>12. Known'
  <2> SUFFICES ASSUME ~timerOverlap, NEW t \in Slots, timers[t].handle # 0, timers[t].reload
               PROVE  /\ (\A d \in TimerCallers : call'[d].slot = t => call'[d].at \notin {"posted", "stopped"}) =>
                           Says(t, timers[t].active)'
                      /\ \A d \in TimerCallers : call'[d].at = "posted" /\ call'[d].slot = t =>
                           Says(t, call[d].op # "stop")'
    BY <1>2, <1>3 DEF Known
  <2>1. \A d \in TimerCallers : call'[d] = call[d] /\ Says(t, call[d].op # "stop") => Says(t, call[d].op # "stop")'
    BY <1>2, <1>3 DEF Says, Latest
  <2>2. \A d \in TimerCallers : call'[d].at = "posted" /\ call'[d].slot = t => call'[d] = call[d] /\ Says(t, call[d].op # "stop")
    BY <1>4 DEF Known
  <2>3. CASE t = s
    <3>1. Says(t, call[c].op # "stop")
      BY <1>1, <2>3 DEF Known, s
    <3>2. CASE call[c].op = "stop"
      <4>1. timers'[t].active = FALSE /\ Says(t, FALSE)
        BY <1>3, <2>3, <3>1, <3>2 DEF Says
      <4>2. Says(t, timers[t].active)'
        BY <1>2, <1>3, <4>1 DEF Says, Latest
      <4> QED BY <2>1, <2>2, <4>2
    <3>3. CASE call[c].op # "stop"
      <4>1. timers'[t].active = TRUE /\ Says(t, TRUE)
        BY <1>3, <2>3, <3>1, <3>3 DEF Says
      <4>2. Says(t, timers[t].active)'
        BY <1>2, <1>3, <4>1 DEF Says, Latest
      <4> QED BY <2>1, <2>2, <4>2
    <3> QED BY <3>2, <3>3
  <2>4. CASE t # s
    <3>1. Says(t, timers[t].active) => Says(t, timers[t].active)'
      BY <1>2, <1>3, <2>4 DEF Says, Latest
    <3>2. (\A d \in TimerCallers : call'[d].slot = t => call'[d].at \notin {"posted", "stopped"}) =>
            \A d \in TimerCallers : call[d].slot = t => call[d].at \notin {"posted", "stopped"}
      BY <1>4, <2>4 DEF s
    <3> QED BY <2>1, <2>2, <3>1, <3>2 DEF Known
  <2> QED BY <2>3, <2>4
<1> QED BY <1>5, <1>7, <1>9, <1>10, <1>11, <1>12

\* os_timer_delete posts the deletion and clears the slot in one critical section.
LEMMA ClearStep ==
    ASSUME TimerInv, NEW c \in TimerCallers, DeleteClears(c)
    PROVE  TimerInv'
<1> USE TimerAssumption DEF TimerInv, TimerTypeOK
<1> DEFINE s == call[c].slot
           h == timers[s].handle
           e == [op |-> "delete", id |-> h]
<1>1. /\ call[c].at = "stopped" /\ lock = c /\ s \in Slots /\ h \in Ids
      /\ \A d \in TimerCallers : d # c => call[d].at \notin {"locked", "stopped"}
  <2>1. call[c].at = "stopped" /\ s \in Slots
    BY DEF DeleteClears, Calls
  <2>2. lock = c /\ h # 0
    BY <2>1 DEF Held, Handle
  <2> QED BY <2>1, <2>2 DEF Held, TimerObj
<1>2. /\ UNCHANGED <<rtos, timerId, auto, timerOverlap>> /\ lock' = Nobody
      /\ cmds' = Append(cmds, e) /\ Len(cmds) < QueueLength
      /\ timers' = [timers EXCEPT ![s] = Cleared]
      /\ call' = [call EXCEPT ![c] = Idle]
  BY DEF DeleteClears, rtosVars, Handle
<1>3. e \in Commands /\ e.op = "delete" /\ e.id = h
  BY <1>1 DEF Commands, Ops
<1>4. /\ call'[c] = Idle /\ Idle.at = "idle" /\ Idle \in Calls
      /\ \A d \in TimerCallers : d # c => call'[d] = call[d]
  BY <1>2 DEF Idle, Calls, Slots, Ops
<1>5. /\ timers'[s] = Cleared /\ Cleared \in TimerObj /\ Cleared.handle = 0
      /\ \A t \in Slots : t # s => timers'[t] = timers[t]
  BY <1>1, <1>2 DEF Cleared, TimerObj
<1> HIDE DEF e
<1>6. /\ cmds' \in Seq(Commands) /\ Len(cmds') = Len(cmds) + 1 /\ Len(cmds) \in Nat
      /\ cmds'[Len(cmds) + 1] = e
      /\ \A k \in 1 .. Len(cmds) : cmds'[k] = cmds[k]
  BY <1>2, <1>3, Appended DEF Commands
<1>7. TimerTypeOK'
  <2>1. Len(cmds') <= QueueLength
    BY <1>2, <1>6
  <2>2. timers' \in [Slots -> TimerObj] /\ call' \in [TimerCallers -> Calls]
    BY <1>2, <1>4, <1>5
  <2> QED BY <1>2, <1>6, <2>1, <2>2 DEF Commands
<1>8. rtos[h] # "free" /\ ~Ending(h) /\ timerId[h] = s
  BY <1>1 DEF Owned, Ids
<1>9. \A t \in Slots : t # s /\ timers[t].handle # 0 => timers[t].handle # h
  BY <1>1, HandlesDiffer
<1> HIDE DEF h
<1>10. \A i : Ending(i) \/ i = h => Ending(i)'
  <2>1. Len(cmds) + 1 \in 1 .. Len(cmds')
    BY <1>6
  <2>2. \A k \in 1 .. Len(cmds) : k \in 1 .. Len(cmds')
    BY <1>6
  <2> QED BY <1>3, <1>6, <2>1, <2>2 DEF Ending
<1>11. Owned'
  <2>1. \A t \in Slots : timers'[t].handle # 0 =>
         /\ rtos'[timers'[t].handle] # "free" /\ ~Ending(timers[t].handle)'
         /\ timerId'[timers'[t].handle] = t
         /\ timers'[t].reload => timers'[t].handle \in auto'
    <3> SUFFICES ASSUME NEW t \in Slots, timers'[t].handle # 0
                 PROVE  /\ rtos'[timers'[t].handle] # "free" /\ ~Ending(timers[t].handle)'
                        /\ timerId'[timers'[t].handle] = t
                        /\ timers'[t].reload => timers'[t].handle \in auto'
      OBVIOUS
    <3>1. t # s /\ timers'[t] = timers[t] /\ timers[t].handle # h
      BY <1>5, <1>9
    <3>2. ~Ending(timers[t].handle)
      BY <3>1 DEF Owned
    <3>3. ~Ending(timers[t].handle)'
      BY <1>3, <1>6, <3>1, <3>2 DEF Ending
    <3> QED BY <1>2, <3>1, <3>3 DEF Owned
  <2>2. \A i \in Ids : rtos'[i] # "free" =>
         timerId'[i] \in Slots /\ (Ending(i)' \/ timers'[timerId'[i]].handle = i)
    BY <1>2, <1>5, <1>10 DEF Owned, h
  <2>3. \A k \in 1 .. Len(cmds') : cmds'[k].op = "delete" => rtos'[cmds'[k].id] # "free"
    BY <1>2, <1>3, <1>6, <1>8 DEF Owned
  <2>4. \A j, k \in 1 .. Len(cmds') :
         cmds'[j].op = "delete" /\ cmds'[k].op = "delete" /\ cmds'[j].id = cmds'[k].id => j = k
    <3>1. \A k \in 1 .. Len(cmds) : cmds[k].op = "delete" => cmds[k].id # h
      BY <1>8 DEF Ending
    <3>2. \A k \in 1 .. Len(cmds') : k \in 1 .. Len(cmds) \/ k = Len(cmds) + 1
      BY <1>6
    <3>3. \A j, k \in 1 .. Len(cmds) :
            cmds[j].op = "delete" /\ cmds[k].op = "delete" /\ cmds[j].id = cmds[k].id => j = k
      BY DEF Owned
    <3> HIDE DEF TimerInv, TimerTypeOK
    <3> QED BY <1>3, <1>6, <3>1, <3>2, <3>3
  <2> QED BY <2>1, <2>2, <2>3, <2>4 DEF Owned
<1>12. \A d \in TimerCallers : d # c /\ call[d].slot # s => Handle(d)' = Handle(d)
  BY <1>4, <1>5 DEF Handle, Calls
<1>13. Held'
  BY <1>1, <1>2, <1>4 DEF Held
<1>14. ASSUME ~timerOverlap
       PROVE \A d \in TimerCallers : d # c /\ call[d].at # "idle" => call[d].slot # s
  BY <1>1, <1>14 DEF Apart
<1>15. Apart'
  <2> SUFFICES ASSUME ~timerOverlap PROVE Apart'
    BY <1>2 DEF Apart
  <2>1. \A d \in TimerCallers : call'[d].at # "idle" => d # c /\ call'[d] = call[d] /\ Handle(d)' = Handle(d)
    BY <1>4, <1>12, <1>14
  <2> QED BY <1>2, <2>1 DEF Apart
<1>16. CommandsReachTimer'
  <2> SUFFICES ASSUME ~timerOverlap, NEW k \in 1 .. Len(cmds')
               PROVE  /\ rtos'[cmds'[k].id] # "free"
                      /\ \A j \in 1 .. k - 1 : cmds'[j].op = "delete" => cmds'[j].id # cmds'[k].id
    BY <1>2 DEF CommandsReachTimer
  <2>1. CASE k \in 1 .. Len(cmds)
    BY <1>2, <1>6, <2>1 DEF CommandsReachTimer
  <2>2. CASE k = Len(cmds) + 1
    BY <1>2, <1>3, <1>6, <1>8, <2>2 DEF Ending
  <2> QED BY <1>6, <2>1, <2>2
<1>17. Known'
  <2> SUFFICES ASSUME ~timerOverlap, NEW t \in Slots, timers'[t].handle # 0, timers'[t].reload
               PROVE  /\ (\A d \in TimerCallers : call'[d].slot = t => call'[d].at \notin {"posted", "stopped"}) =>
                           Says(t, timers[t].active)'
                      /\ \A d \in TimerCallers : call'[d].at = "posted" /\ call'[d].slot = t =>
                           Says(t, call[d].op # "stop")'
    BY <1>2 DEF Known
  <2>1. t # s /\ timers'[t] = timers[t] /\ timers[t].handle # h
    BY <1>5, <1>9
  <2>2. Says(t, timers[t].active) => Says(t, timers[t].active)'
    BY <1>2, <1>3, <1>6, <2>1 DEF Says, Latest
  <2>3. \A d \in TimerCallers : call'[d] = call[d] /\ Says(t, call[d].op # "stop") => Says(t, call[d].op # "stop")'
    BY <1>2, <1>3, <1>6, <2>1 DEF Says, Latest
  <2>4. \A d \in TimerCallers : call'[d].at = "posted" /\ call'[d].slot = t => call'[d] = call[d] /\ Says(t, call[d].op # "stop")
    BY <1>4, <2>1 DEF Known
  <2>5. (\A d \in TimerCallers : call'[d].slot = t => call'[d].at \notin {"posted", "stopped"}) =>
          \A d \in TimerCallers : call[d].slot = t => call[d].at \notin {"posted", "stopped"}
    BY <1>4, <2>1
  <2> QED BY <2>1, <2>2, <2>3, <2>4, <2>5 DEF Known
<1> QED BY <1>7, <1>11, <1>13, <1>15, <1>16, <1>17

\* The timer task executes the command at the head of the queue.
LEMMA TimerTaskStep ==
    ASSUME TimerInv, TimerTask
    PROVE  TimerInv'
<1> USE TimerAssumption DEF TimerInv, TimerTypeOK
<1> DEFINE e == cmds[1]
<1>1. /\ cmds \in Seq(Commands) /\ cmds # <<>>
  BY DEF TimerTask, Commands
<1>2. /\ cmds' = Tail(cmds) /\ cmds' \in Seq(Commands) /\ Len(cmds') = Len(cmds) - 1
      /\ Len(cmds) \in Nat \ {0} /\ Head(cmds) = e /\ e \in Commands
      /\ \A k \in 1 .. Len(cmds) - 1 : cmds'[k] = cmds[k + 1]
  BY <1>1, Dropped DEF TimerTask
<1>3. e.op \in Ops /\ e.id \in Ids /\ e = cmds[1] /\ 1 \in 1 .. Len(cmds)
  BY <1>2 DEF Commands
<1> HIDE DEF e
<1>4. /\ UNCHANGED <<timers, lock, call, timerOverlap>>
      /\ rtos' = [rtos EXCEPT ![e.id] = Executed(e.op, @)]
      /\ timerId' = IF e.op = "delete" THEN [timerId EXCEPT ![e.id] = 0] ELSE timerId
      /\ auto' = IF e.op = "delete" THEN auto \ {e.id} ELSE auto
  BY <1>2 DEF TimerTask
<1>5. /\ rtos[e.id] = "free" => rtos'[e.id] = "free"
      /\ rtos[e.id] # "free" /\ e.op = "stop" => rtos'[e.id] = "dormant"
      /\ rtos[e.id] # "free" /\ e.op = "start" => rtos'[e.id] = "running"
      /\ e.op = "delete" => rtos'[e.id] = "free"
      /\ rtos'[e.id] \in RtosStates
      /\ \A i \in Ids : i # e.id => rtos'[i] = rtos[i]
  <2>1. rtos'[e.id] = Executed(e.op, rtos[e.id]) /\ \A i \in Ids : i # e.id => rtos'[i] = rtos[i]
    BY <1>3, <1>4
  <2>2. e.op \in {"start", "stop", "delete"}
    BY <1>3 DEF Ops
  <2>3. rtos[e.id] \in RtosStates
    BY <1>3
  <2> HIDE DEF TimerInv, TimerTypeOK
  <2>4. rtos[e.id] = "free" => Executed(e.op, rtos[e.id]) = "free"
    BY DEF Executed
  <2>5. rtos[e.id] # "free" => Executed(e.op, rtos[e.id]) =
          IF e.op = "stop" THEN "dormant" ELSE IF e.op = "delete" THEN "free" ELSE "running"
    BY <2>2 DEF Executed
  <2> QED BY <2>1, <2>2, <2>3, <2>4, <2>5 DEF RtosStates
<1>6. /\ \A i \in Ids : i # e.id \/ e.op # "delete" => timerId'[i] = timerId[i]
      /\ \A i \in Ids : i # e.id \/ e.op # "delete" => (i \in auto => i \in auto')
      /\ timerId' \in [Ids -> Slots \cup {0}] /\ auto' \in SUBSET Ids
  BY <1>3, <1>4
<1>7. TimerTypeOK'
  <2>1. rtos' \in [Ids -> RtosStates]
    BY <1>3, <1>4, <1>5
  <2>2. Len(cmds') <= QueueLength
    BY <1>2
  <2> QED BY <1>2, <1>4, <1>6, <2>1, <2>2 DEF Commands
<1>8. \A k \in 1 .. Len(cmds') : k + 1 \in 1 .. Len(cmds) /\ cmds'[k] = cmds[k + 1]
  BY <1>2
<1>9. \A k \in 1 .. Len(cmds) : k = 1 \/ (k - 1 \in 1 .. Len(cmds') /\ cmds'[k - 1] = cmds[k])
  BY <1>2
<1>10. \A k \in 1 .. Len(cmds') : cmds'[k].id \in Ids
  BY <1>8, CommandsTyped
<1>11. \A i : Ending(i)' => Ending(i)
  BY <1>8 DEF Ending
<1>12. \A i : Ending(i) => Ending(i)' \/ (e.op = "delete" /\ e.id = i)
  BY <1>3, <1>9 DEF Ending
<1>13. ASSUME e.op = "delete"
       PROVE  /\ rtos[e.id] # "free"
              /\ \A k \in 1 .. Len(cmds') : cmds'[k].op = "delete" => cmds'[k].id # e.id
              /\ \A s \in Slots : timers[s].handle # 0 => timers[s].handle # e.id
  <2>1. rtos[e.id] # "free"
    BY <1>3, <1>13 DEF Owned
  <2>2. ASSUME NEW k \in 1 .. Len(cmds'), cmds'[k].op = "delete", cmds'[k].id = e.id PROVE FALSE
    <3>1. k + 1 \in 1 .. Len(cmds) /\ cmds[k + 1].op = "delete" /\ cmds[k + 1].id = cmds[1].id /\ cmds[1].op = "delete"
      BY <1>3, <1>8, <1>13, <2>2
    <3>2. k + 1 = 1
      BY <1>3, <3>1 DEF Owned
    <3> QED BY <3>2
  <2>3. Ending(e.id)
    BY <1>3, <1>13 DEF Ending
  <2> QED BY <2>1, <2>2, <2>3 DEF Owned
<1>14. Owned'
  <2>1. \A s \in Slots : timers'[s].handle # 0 =>
         /\ rtos'[timers'[s].handle] # "free" /\ ~Ending(timers[s].handle)'
         /\ timerId'[timers'[s].handle] = s
         /\ timers'[s].reload => timers'[s].handle \in auto'
    <3> SUFFICES ASSUME NEW s \in Slots, timers[s].handle # 0
                 PROVE  /\ rtos'[timers[s].handle] # "free" /\ ~Ending(timers[s].handle)'
                        /\ timerId'[timers[s].handle] = s
                        /\ timers[s].reload => timers[s].handle \in auto'
      BY <1>4
    <3> DEFINE i == timers[s].handle
    <3>1. /\ i \in Ids /\ rtos[i] # "free" /\ ~Ending(i) /\ timerId[i] = s
          /\ timers[s].reload => i \in auto
      BY DEF Owned, TimerObj
    <3>2. i # e.id \/ e.op # "delete"
      BY <1>13
    <3>3. ~Ending(timers[s].handle)'
      BY <1>4, <1>8, <3>1 DEF Ending
    <3> HIDE DEF i
    <3>4. rtos'[i] # "free"
      BY <1>3, <1>5, <3>1, <3>2 DEF Ops
    <3> QED BY <1>6, <3>1, <3>2, <3>3, <3>4 DEF i
  <2>2. \A i \in Ids : rtos'[i] # "free" =>
         timerId'[i] \in Slots /\ (Ending(i)' \/ timers'[timerId'[i]].handle = i)
    <3> SUFFICES ASSUME NEW i \in Ids, rtos'[i] # "free"
                 PROVE  timerId'[i] \in Slots /\ (Ending(i)' \/ timers'[timerId'[i]].handle = i)
      OBVIOUS
    <3>1. rtos[i] # "free" /\ (i # e.id \/ e.op # "delete")
      BY <1>5
    <3>2. timerId'[i] = timerId[i] /\ (Ending(i) => Ending(i)')
      BY <1>6, <1>12, <3>1
    <3> QED BY <1>4, <3>1, <3>2 DEF Owned
  <2>3. \A k \in 1 .. Len(cmds') : cmds'[k].op = "delete" => rtos'[cmds'[k].id] # "free"
    <3> SUFFICES ASSUME NEW k \in 1 .. Len(cmds'), cmds'[k].op = "delete"
                 PROVE  rtos'[cmds'[k].id] # "free"
      OBVIOUS
    <3>1. rtos[cmds'[k].id] # "free" /\ cmds'[k].id \in Ids
      BY <1>8, <1>10 DEF Owned
    <3>2. cmds'[k].id = e.id => e.op # "delete"
      BY <1>13
    <3> QED BY <1>3, <1>5, <3>1, <3>2 DEF Ops
  <2>4. \A j, k \in 1 .. Len(cmds') :
         cmds'[j].op = "delete" /\ cmds'[k].op = "delete" /\ cmds'[j].id = cmds'[k].id => j = k
    <3> SUFFICES ASSUME NEW j \in 1 .. Len(cmds'), NEW k \in 1 .. Len(cmds'),
                        cmds'[j].op = "delete", cmds'[k].op = "delete", cmds'[j].id = cmds'[k].id
                 PROVE  j = k
      OBVIOUS
    <3>1. /\ j + 1 \in 1 .. Len(cmds) /\ k + 1 \in 1 .. Len(cmds)
          /\ cmds[j + 1].op = "delete" /\ cmds[k + 1].op = "delete" /\ cmds[j + 1].id = cmds[k + 1].id
      BY <1>8
    <3>2. j + 1 = k + 1
      BY <3>1 DEF Owned
    <3> QED BY <3>2
  <2> QED BY <2>1, <2>2, <2>3, <2>4 DEF Owned
<1>15. \A d \in TimerCallers : Handle(d)' = Handle(d)
  BY <1>4 DEF Handle
<1>16. Held' /\ Apart'
  BY <1>4, <1>15 DEF Held, Apart
<1>17. CommandsReachTimer'
  <2> SUFFICES ASSUME ~timerOverlap, NEW k \in 1 .. Len(cmds')
               PROVE  /\ rtos'[cmds'[k].id] # "free"
                      /\ \A j \in 1 .. k - 1 : cmds'[j].op = "delete" => cmds'[j].id # cmds'[k].id
    BY <1>4 DEF CommandsReachTimer
  <2>1. /\ rtos[cmds[k + 1].id] # "free" /\ cmds'[k] = cmds[k + 1]
        /\ \A j \in 1 .. (k + 1) - 1 : cmds[j].op = "delete" => cmds[j].id # cmds[k + 1].id
    BY <1>8 DEF CommandsReachTimer
  <2>2. e.op = "delete" => e.id # cmds'[k].id
    BY <1>3, <2>1
  <2>3. rtos'[cmds'[k].id] # "free"
    BY <1>3, <1>5, <1>10, <2>1, <2>2 DEF Ops
  <2>4. ASSUME NEW j \in 1 .. k - 1, cmds'[j].op = "delete" PROVE cmds'[j].id # cmds'[k].id
    <3>1. j \in 1 .. Len(cmds') /\ j + 1 \in 1 .. (k + 1) - 1
      BY <1>2
    <3>2. cmds'[j] = cmds[j + 1]
      BY <1>8, <3>1
    <3> QED BY <2>1, <2>4, <3>1, <3>2
  <2> QED BY <2>3, <2>4
<1>18. ASSUME ~timerOverlap, NEW s \in Slots, timers[s].handle # 0, NEW on \in BOOLEAN, Says(s, on)
       PROVE  Says(s, on)'
  <2> DEFINE i == timers[s].handle
  <2>1. i \in Ids /\ rtos[i] # "free" /\ ~Ending(i)
    BY <1>18 DEF Owned, TimerObj
  <2> HIDE DEF i
  <2>2. ASSUME NEW k \in 1 .. Len(cmds'), cmds'[k].id = i,
               \A j \in 1 .. Len(cmds') : cmds'[j].id = i => j <= k
        PROVE  on <=> cmds'[k].op = "start"
    <3>1. k + 1 \in 1 .. Len(cmds) /\ cmds[k + 1] = cmds'[k]
      BY <1>8
    <3>2. ASSUME NEW j \in 1 .. Len(cmds), cmds[j].id = i PROVE j <= k + 1
      <4>1. CASE j = 1
        BY <4>1
      <4>2. CASE j # 1
        <5>1. j - 1 \in 1 .. Len(cmds') /\ cmds'[j - 1].id = i
          BY <1>9, <3>2, <4>2
        <5>2. j - 1 <= k
          BY <2>2, <5>1
        <5> QED BY <5>2
      <4> QED BY <4>1, <4>2
    <3>3. Latest(k + 1, timers[s].handle)
      BY <2>2, <3>1, <3>2 DEF Latest, i
    <3> QED BY <1>18, <3>1, <3>3 DEF Says
  <2>3. ASSUME \A k \in 1 .. Len(cmds') : cmds'[k].id # i
        PROVE  on <=> rtos'[i] = "running"
    <3>1. \A k \in 1 .. Len(cmds) : cmds[k].id = i => k = 1
      BY <1>9, <2>3
    <3>2. CASE e.id # i
      <4>1. \A k \in 1 .. Len(cmds) : cmds[k].id # timers[s].handle
        BY <1>3, <3>1, <3>2 DEF i
      <4>2. on <=> rtos[i] = "running"
        BY <1>18, <4>1 DEF Says, i
      <4> QED BY <1>5, <2>1, <3>2, <4>2
    <3>3. CASE e.id = i
      <4>1. Latest(1, timers[s].handle)
        BY <1>3, <3>1, <3>3 DEF Latest, i
      <4>2. on <=> e.op = "start"
        BY <1>3, <1>18, <4>1 DEF Says
      <4>3. e.op # "delete"
        BY <1>3, <2>1, <3>3 DEF Ending
      <4>4. rtos'[i] = "running" <=> e.op = "start"
        BY <1>3, <1>5, <2>1, <3>3, <4>3 DEF Ops
      <4> QED BY <4>2, <4>4
    <3> QED BY <3>2, <3>3
  <2> QED BY <1>4, <2>2, <2>3 DEF Says, Latest, i
<1>19. Known'
  <2> SUFFICES ASSUME ~timerOverlap, NEW s \in Slots, timers[s].handle # 0, timers[s].reload
               PROVE  /\ (\A d \in TimerCallers : call[d].slot = s => call[d].at \notin {"posted", "stopped"}) =>
                           Says(s, timers[s].active)'
                      /\ \A d \in TimerCallers : call[d].at = "posted" /\ call[d].slot = s =>
                           Says(s, call[d].op # "stop")'
    BY <1>4 DEF Known
  <2>1. Says(s, TRUE) => Says(s, TRUE)'
    BY <1>18
  <2>2. Says(s, FALSE) => Says(s, FALSE)'
    BY <1>18
  <2>3. ASSUME Says(s, timers[s].active) PROVE Says(s, timers[s].active)'
    <3>1. timers[s].active \in BOOLEAN
      BY DEF TimerObj
    <3>2. CASE timers[s].active = TRUE
      BY <1>4, <2>1, <2>3, <3>2
    <3>3. CASE timers[s].active = FALSE
      BY <1>4, <2>2, <2>3, <3>3
    <3> QED BY <3>1, <3>2, <3>3
  <2>4. ASSUME NEW d \in TimerCallers, Says(s, call[d].op # "stop")
        PROVE Says(s, call[d].op # "stop")'
    <3>2. CASE call[d].op = "stop"
      <4>1. (call[d].op # "stop") = FALSE /\ (call'[d].op # "stop") = FALSE
        BY <1>4, <3>2
      <4> QED BY <2>2, <2>4, <4>1
    <3>3. CASE call[d].op # "stop"
      <4>1. (call[d].op # "stop") = TRUE /\ (call'[d].op # "stop") = TRUE
        BY <1>4, <3>3
      <4> QED BY <2>1, <2>4, <4>1
    <3> QED BY <3>2, <3>3
  <2> QED BY <2>3, <2>4 DEF Known
<1> QED BY <1>7, <1>14, <1>16, <1>17, <1>19

\* A timer expires.  Only one that does not reload changes its state.
LEMMA ExpiryStep ==
    ASSUME TimerInv, NEW i \in Ids, TimerCallback(i)
    PROVE  TimerInv'
<1> USE TimerAssumption DEF TimerInv, TimerTypeOK
<1>1. /\ UNCHANGED <<timers, lock, call, timerId, auto, cmds, timerOverlap>>
      /\ rtos' \in [Ids -> RtosStates]
      /\ \A j \in Ids : rtos'[j] = "free" <=> rtos[j] = "free"
      /\ \A j \in auto : rtos'[j] = rtos[j]
  BY DEF TimerCallback, RtosStates
<1>2. TimerTypeOK'
  BY <1>1
<1>3. \A k \in 1 .. Len(cmds) : cmds[k].id \in Ids
  BY CommandsTyped
<1>4. \A s \in Slots : timers[s].handle # 0 => timers[s].handle \in Ids
  BY DEF TimerObj
<1>5. Owned'
  BY <1>1, <1>3, <1>4 DEF Owned, Ending
<1>6. Held' /\ Apart'
  BY <1>1 DEF Held, Apart, Handle
<1>7. CommandsReachTimer'
  BY <1>1, <1>3 DEF CommandsReachTimer
<1>8. Known'
  <2>1. \A s \in Slots : timers[s].handle # 0 /\ timers[s].reload =>
          rtos'[timers[s].handle] = rtos[timers[s].handle]
    BY <1>1 DEF Owned
  <2> QED BY <1>1, <2>1 DEF Known, Says, Latest
<1> QED BY <1>2, <1>5, <1>6, <1>7, <1>8

\* The system starts anew.
LEMMA PanicStep ==
    ASSUME NEW c \in TimerCallers, Panic(c)
    PROVE  TimerInv'
<1> USE TimerAssumption DEF TimerInv, TimerTypeOK
<1>1. /\ \A s \in Slots : timers'[s] = Cleared
      /\ \A d \in TimerCallers : call'[d] = Idle
      /\ \A i \in Ids : rtos'[i] = "free"
      /\ lock' = Nobody /\ cmds' = <<>> /\ Len(cmds') = 0
  BY DEF Panic
<1>2. Cleared \in TimerObj /\ Cleared.handle = 0 /\ Idle \in Calls /\ Idle.at = "idle"
  BY DEF Cleared, TimerObj, Idle, Calls, Slots, Ops
<1>3. TimerTypeOK'
  <2>1. cmds' \in Seq([op : Ops, id : Ids]) /\ Len(cmds') <= QueueLength
    BY DEF Panic
  <2>2. timers' \in [Slots -> TimerObj] /\ call' \in [TimerCallers -> Calls]
    BY <1>2 DEF Panic
  <2> QED BY <2>1, <2>2 DEF Panic, RtosStates
<1>4. Owned' /\ Held' /\ Apart' /\ CommandsReachTimer'
  BY <1>1, <1>2 DEF Owned, Held, Apart, CommandsReachTimer
<1>5. Known'
  BY <1>1, <1>2 DEF Known
<1> QED BY <1>3, <1>4, <1>5

\* After os_timer_init.
LEMMA InitHolds == TimerInit => TimerInv
<1> SUFFICES ASSUME TimerInit PROVE TimerInv
  OBVIOUS
<1> USE TimerAssumption
<1>1. /\ \A s \in Slots : timers[s] = Cleared
      /\ \A d \in TimerCallers : call[d] = Idle
      /\ \A i \in Ids : rtos[i] = "free"
      /\ lock = Nobody /\ cmds = <<>> /\ Len(cmds) = 0
  BY DEF TimerInit
<1>2. Cleared \in TimerObj /\ Cleared.handle = 0 /\ Idle \in Calls /\ Idle.at = "idle"
  BY DEF Cleared, TimerObj, Idle, Calls, Slots, Ops
<1>3. TimerTypeOK
  <2>1. cmds \in Seq([op : Ops, id : Ids]) /\ Len(cmds) <= QueueLength
    BY DEF TimerInit
  <2>2. timers \in [Slots -> TimerObj] /\ call \in [TimerCallers -> Calls]
    BY <1>2 DEF TimerInit
  <2> QED BY <2>1, <2>2 DEF TimerInit, TimerTypeOK, RtosStates
<1>4. Owned /\ Held /\ Apart /\ CommandsReachTimer
  BY <1>1, <1>2 DEF Owned, Held, Apart, CommandsReachTimer
<1>5. Known
  BY <1>1, <1>2 DEF Known
<1> QED BY <1>3, <1>4, <1>5 DEF TimerInv

\* The invariant is inductive.
LEMMA TimerInductive == TimerSpec => []TimerInv
<1>1. TimerInv /\ [TimerNext]_timerVars => TimerInv'
  <2> SUFFICES ASSUME TimerInv, [TimerNext]_timerVars PROVE TimerInv'
    OBVIOUS
  <2>1. ASSUME NEW c \in TimerCallers, CmdTimer(c) PROVE TimerInv'
    BY <2>1, CreateStep, LookSteps, LookKeeps DEF CmdTimer
  <2>2. ASSUME NEW c \in TimerCallers, TimerCallerStep(c) PROVE TimerInv'
    <3>1. CASE Check(c) \/ Reread(c) \/ DeleteLocks(c) \/ (Post(c) /\ cmds' = cmds)
      BY <3>1, LookSteps, LookKeeps
    <3>2. CASE (Post(c) /\ cmds' # cmds) \/ DeleteStops(c)
      BY <3>2, SendStep
    <3> QED BY <2>2, <3>1, <3>2, MarkStep, ClearStep, PanicStep DEF TimerCallerStep
  <2>3. CASE UNCHANGED timerVars
    BY <2>3 DEF timerVars, rtosVars, TimerInv, TimerTypeOK, Owned, Ending, Held, Handle, Apart,
                CommandsReachTimer, Known, Says, Latest
  <2> QED BY <2>1, <2>2, <2>3, TimerTaskStep, ExpiryStep DEF TimerNext
<1> QED BY <1>1, InitHolds, PTL DEF TimerSpec

-----------------------------------------------------------------------------
(* Theorems *)

\* For any number of slots, callers and queue entries: a handle in the table is a timer
\* that exists and will not be deleted, and every such timer is in the table.
THEOREM TimersStayOwned == TimerSpec => []TimersOwned
<1>1. TimerInv => TimersOwned
  <2> SUFFICES ASSUME TimerInv PROVE TimersOwned
    OBVIOUS
  <2> USE DEF TimerInv
  <2>1. \A i \in Ids : Doomed(i) <=> Ending(i)
    <3>1. \A i \in Ids, k \in 1 .. Len(cmds) :
            cmds[k] = [op |-> "delete", id |-> i] <=> cmds[k].op = "delete" /\ cmds[k].id = i
      BY CommandsTyped DEF Commands
    <3> QED BY <3>1 DEF Doomed, Ending
  <2>2. \A i \in Ids : rtos[i] \in {"dormant", "running"} <=> rtos[i] # "free"
    BY DEF TimerTypeOK, RtosStates
  <2>3. \A s \in Slots : timers[s].handle # 0 => timers[s].handle \in Ids
    BY DEF TimerTypeOK, TimerObj
  <2> QED BY <2>1, <2>2, <2>3 DEF Owned, TimersOwned
<1> QED BY <1>1, TimerInductive, PTL

\* For any number of slots, callers and queue entries: without overlapping calls for one
\* slot, every queued command is for a timer that exists when it is executed.
THEOREM CommandsKeepReaching == TimerSpec => []CommandsReachTimer
<1>1. TimerInv => CommandsReachTimer
  BY DEF TimerInv
<1> QED BY <1>1, TimerInductive, PTL

\* A command for the timer is the last one, if there are any.
LEMMA HasLatest ==
    ASSUME TimerTypeOK, NEW i, NEW k \in 1 .. Len(cmds), cmds[k].id = i
    PROVE  \E m \in 1 .. Len(cmds) : Latest(m, i)
<1> DEFINE S == {n \in 0 .. Len(cmds) : Len(cmds) - n \in 1 .. Len(cmds) /\ cmds[Len(cmds) - n].id = i}
<1>1. Len(cmds) \in Nat /\ S \in SUBSET Nat
  BY DEF TimerTypeOK
<1>2. \A j \in 1 .. Len(cmds) : cmds[j].id = i => Len(cmds) - j \in S
  <2> SUFFICES ASSUME NEW j \in 1 .. Len(cmds), cmds[j].id = i PROVE Len(cmds) - j \in S
    OBVIOUS
  <2>1. Len(cmds) - (Len(cmds) - j) = j /\ Len(cmds) - j \in 0 .. Len(cmds)
    BY <1>1
  <2> QED BY <2>1
<1>3. S # {}
  BY <1>2
<1> HIDE DEF S
<1>4. PICK m \in S : \A n \in S : m <= n
  BY <1>1, <1>3, First
<1>5. Len(cmds) - m \in 1 .. Len(cmds) /\ cmds[Len(cmds) - m].id = i
  BY <1>4 DEF S
<1>6. ASSUME NEW j \in 1 .. Len(cmds), cmds[j].id = i PROVE j <= Len(cmds) - m
  <2>1. m <= Len(cmds) - j /\ m \in Nat
    BY <1>1, <1>2, <1>4, <1>6
  <2> QED BY <1>1, <2>1
<1> QED BY <1>5, <1>6 DEF Latest

\* For any number of slots, callers and queue entries: without overlapping calls for one
\* slot, the flag of an auto-reload timer says whether it will run.
THEOREM ActiveStaysRunning == TimerSpec => []ActiveIsRunning
<1>1. TimerInv => ActiveIsRunning
  <2> SUFFICES ASSUME TimerInv, ~timerOverlap, NEW s \in Slots, timers[s].handle # 0, timers[s].reload,
                      \A c \in TimerCallers : ~(call[c].at \in {"posted", "stopped"} /\ call[c].slot = s)
               PROVE  timers[s].active = (Settled(timers[s].handle) = "running")
    BY DEF ActiveIsRunning
  <2> DEFINE i == timers[s].handle
             queued == {k \in 1 .. Len(cmds) : cmds[k].id = i}
             last == CHOOSE k \in queued : \A j \in queued : j <= k
  <2>1. Says(s, timers[s].active)
    BY DEF TimerInv, Known
  <2>2. timers[s].active \in BOOLEAN /\ i \in Ids /\ rtos[i] # "free" /\ ~Ending(i)
    BY DEF TimerInv, TimerTypeOK, TimerObj, Owned
  <2>3. timers[s].active <=> Settled(i) = "running"
    <3>1. CASE queued = {}
      <4>1. \A k \in 1 .. Len(cmds) : cmds[k].id # i
        BY <3>1
      <4>2. Settled(i) = rtos[i]
        BY <3>1 DEF Settled
      <4> QED BY <2>1, <4>1, <4>2 DEF Says
    <3>2. CASE queued # {}
      <4>1. \E m \in queued : \A j \in queued : j <= m
        <5>1. PICK k \in 1 .. Len(cmds) : cmds[k].id = i
          BY <3>2
        <5>2. PICK m \in 1 .. Len(cmds) : Latest(m, i)
          BY <5>1, HasLatest DEF TimerInv
        <5> QED BY <5>2 DEF Latest
      <4>2. last \in queued /\ \A j \in queued : j <= last
        BY <4>1
      <4>3. Settled(i) = Executed(cmds[last].op, rtos[i])
        BY <3>2 DEF Settled
      <4> HIDE DEF last
      <4>4. last \in 1 .. Len(cmds) /\ Latest(last, i)
        BY <4>2 DEF Latest
      <4>5. timers[s].active <=> cmds[last].op = "start"
        BY <2>1, <4>4 DEF Says
      <4>6. cmds[last].op \in {"start", "stop"}
        BY <2>2, <4>2, CommandsTyped DEF TimerInv, Ops, Ending
      <4>7. Executed(cmds[last].op, rtos[i]) = IF cmds[last].op = "stop" THEN "dormant" ELSE "running"
        BY <2>2, <4>6 DEF Executed
      <4> QED BY <4>3, <4>5, <4>6, <4>7
    <3> QED BY <3>1, <3>2
  <2> QED BY <2>2, <2>3
<1> QED BY <1>1, TimerInductive, PTL
=============================================================================
