-------------------------------- MODULE Mqtt --------------------------------
(***************************************************************************)
(* The MQTT service of os_mqtt.c: tasks that connect, disconnect and       *)
(* change subscriptions, the handler of the client's events, and the state *)
(* they share: s_state, s_client and s_subscriptions.                      *)
(*                                                                         *)
(* s_mutex protects s_state and the subscription table, one access or one  *)
(* handler at a time.  s_client is read and written without it, and each   *)
(* call reads it again for every use.  Each critical section, and each use *)
(* of s_client, is one action.                                             *)
(*                                                                         *)
(* The ESP-IDF client and the broker are external.  A client has its own   *)
(* task, which connects, loses the connection, delivers these events to    *)
(* mqtt_event_handler and tries again by itself (auto reconnect, the       *)
(* default).  The broker forgets the subscriptions of a connection that    *)
(* ends (clean session).  Left out: os_mqtt_publish and the events that    *)
(* only change statistics, QoS, the user callback, and os_mqtt_deinit,     *)
(* which only the tests call.                                              *)
(***************************************************************************)
EXTENDS Integers, FiniteSets

CONSTANTS
    Callers,    \* tasks that call the public functions
    Topics,     \* topics they use
    NoTopic,    \* not a topic
    MaxSubs,    \* OS_MQTT_MAX_SUBSCRIPTIONS
    MaxClients  \* bound: clients that exist at the same time

ASSUME MqttAssumption ==
    /\ MaxSubs \in Nat \ {0}
    /\ MaxClients \in Nat \ {0}
    /\ NoTopic \notin Topics

Clients == 1 .. MaxClients

States == {"DISCONNECTED", "CONNECTING", "CONNECTED", "DISCONNECTING", "ERROR"}

\* "down": the connection failed or was lost and the events that say so are due;
\* "waiting": the client will try again; "stopped": its task has ended.
ClientStates == {"none", "created", "starting", "online", "down", "waiting", "stopped"}

\* Where a caller is: connect is "init", "initFailed", "start"; disconnect is
\* "stop", "destroy", "end"; the others belong to subscribe and unsubscribe.
CallerPcs == {"idle", "init", "initFailed", "start", "stop", "destroy", "end",
              "subCheck", "subSend", "unsubCheck", "unsubSend"}

VARIABLES
    configured, \* s_config.broker_url is not empty
    state,      \* s_state
    client,     \* s_client, 0 for NULL
    subs,       \* the active topics of s_subscriptions
    pc,         \* where each caller is
    topic,      \* the topic a caller is busy with
    cl,         \* ESP-IDF: state of each client
    session,    \* broker: the topics each client is subscribed to
    raced,      \* history: two calls have overlapped
    leaked,     \* history: s_client was overwritten while a client existed
    unsent,     \* history: topics whose last request failed on this connection
    startFailed \* history: registering the handler or starting a client failed

shared == <<configured, state, client, subs>>
history == <<raced, leaked, unsent, startFailed>>
vars == <<shared, pc, topic, cl, session, history>>

TypeOK ==
    /\ configured \in BOOLEAN
    /\ state \in States
    /\ client \in Clients \cup {0}
    /\ subs \in SUBSET Topics /\ Cardinality(subs) <= MaxSubs
    /\ pc \in [Callers -> CallerPcs]
    /\ topic \in [Callers -> Topics \cup {NoTopic}]
    /\ cl \in [Clients -> ClientStates]
    /\ session \in [Clients -> SUBSET Topics]
    /\ raced \in BOOLEAN
    /\ leaked \in BOOLEAN
    /\ unsent \in SUBSET Topics
    /\ startFailed \in BOOLEAN

\* After os_mqtt_init.
Init ==
    /\ configured = FALSE
    /\ state = "DISCONNECTED"
    /\ client = 0
    /\ subs = {}
    /\ pc = [c \in Callers |-> "idle"]
    /\ topic = [c \in Callers |-> NoTopic]
    /\ cl = [k \in Clients |-> "none"]
    /\ session = [k \in Clients |-> {}]
    /\ raced = FALSE
    /\ leaked = FALSE
    /\ unsent = {}
    /\ startFailed = FALSE

\* Caller c starts a call whose next step is p.
Enters(c, p) ==
    /\ pc' = [pc EXCEPT ![c] = p]
    /\ raced' = (raced \/ \E d \in Callers : pc[d] # "idle")

Goes(c, p) == pc' = [pc EXCEPT ![c] = p]

-----------------------------------------------------------------------------
\* os_mqtt_config
Config(c) ==
    /\ pc[c] = "idle"
    /\ configured' = TRUE
    /\ UNCHANGED <<state, client, subs, pc, topic, cl, session, history>>

\* os_mqtt_connect up to the end of its critical section.
ConnectBegins(c) ==
    /\ pc[c] = "idle" /\ configured
    /\ state \notin {"CONNECTING", "CONNECTED"}
    /\ state' = "CONNECTING"
    /\ Enters(c, "init")
    /\ UNCHANGED <<configured, client, subs, topic, cl, session, leaked, unsent, startFailed>>

\* s_client = esp_mqtt_client_init(): whatever s_client was is forgotten.
ConnectInit(c) ==
    /\ pc[c] = "init"
    /\ \E k \in Clients : /\ cl[k] = "none"
                          /\ client' = k
                          /\ cl' = [cl EXCEPT ![k] = "created"]
    /\ leaked' = (leaked \/ client # 0)
    /\ Goes(c, "start")
    /\ UNCHANGED <<configured, state, subs, topic, session, raced, unsent, startFailed>>

\* The same when it returns NULL.
ConnectInitFails(c) ==
    /\ pc[c] = "init"
    /\ client' = 0
    /\ leaked' = (leaked \/ client # 0)
    /\ Goes(c, "initFailed")
    /\ UNCHANGED <<configured, state, subs, topic, cl, session, raced, unsent, startFailed>>

\* Then the error is recorded.
ConnectReportsError(c) ==
    /\ pc[c] = "initFailed"
    /\ state' = "ERROR"
    /\ Goes(c, "idle")
    /\ UNCHANGED <<configured, client, subs, topic, cl, session, history>>

\* esp_mqtt_client_register_event and esp_mqtt_client_start.
ConnectStarts(c) ==
    /\ pc[c] = "start"
    /\ client # 0 /\ cl[client] = "created"
    /\ cl' = [cl EXCEPT ![client] = "starting"]
    /\ Goes(c, "idle")
    /\ UNCHANGED <<shared, topic, session, history>>

\* esp_mqtt_client_destroy(s_client), which accepts NULL, and s_client = NULL.
Destroys ==
    /\ client' = 0
    /\ cl' = IF client = 0 THEN cl ELSE [cl EXCEPT ![client] = "none"]
    /\ session' = IF client = 0 THEN session ELSE [session EXCEPT ![client] = {}]

\* One of the two fails: the client is destroyed, s_state stays as it is.
ConnectStartFails(c) ==
    /\ pc[c] = "start"
    /\ Destroys
    /\ startFailed' = TRUE
    /\ Goes(c, "idle")
    /\ UNCHANGED <<configured, state, subs, topic, raced, leaked, unsent>>

\* os_mqtt_disconnect: the test of s_client and the first critical section.
DisconnectBegins(c) ==
    /\ pc[c] = "idle" /\ client # 0
    /\ state' = "DISCONNECTING"
    /\ Enters(c, "stop")
    /\ UNCHANGED <<configured, client, subs, topic, cl, session, leaked, unsent, startFailed>>

\* esp_mqtt_client_stop waits until the client's task has ended.
DisconnectStops(c) ==
    /\ pc[c] = "stop"
    /\ cl' = IF client = 0 THEN cl ELSE [cl EXCEPT ![client] = "stopped"]
    /\ session' = IF client = 0 THEN session ELSE [session EXCEPT ![client] = {}]
    /\ Goes(c, "destroy")
    /\ UNCHANGED <<shared, topic, history>>

DisconnectDestroys(c) ==
    /\ pc[c] = "destroy"
    /\ Destroys
    /\ Goes(c, "end")
    /\ UNCHANGED <<configured, state, subs, topic, history>>

\* Mutant: the state is set before the client is stopped only.
DisconnectEnds_KeepsState(c) ==
    /\ pc[c] = "end"
    /\ subs' = {}
    /\ Goes(c, "idle")
    /\ UNCHANGED <<configured, state, client, topic, cl, session, history>>

DisconnectEnds(c) ==
    /\ pc[c] = "end"
    /\ state' = "DISCONNECTED"
    /\ subs' = {}
    /\ Goes(c, "idle")
    /\ UNCHANGED <<configured, client, topic, cl, session, history>>

-----------------------------------------------------------------------------

\* os_mqtt_subscribe: the topic is stored.  A topic that is in the table already,
\* and a full table, end the call here.
Subscribe(c, t) ==
    /\ pc[c] = "idle"
    /\ t \notin subs /\ Cardinality(subs) < MaxSubs
    /\ subs' = subs \cup {t}
    /\ topic' = [topic EXCEPT ![c] = t]
    /\ Enters(c, "subCheck")
    /\ UNCHANGED <<configured, state, client, cl, session, leaked, unsent, startFailed>>

\* os_mqtt_unsubscribe: the topic is removed, if it is there.
Unsubscribe(c, t) ==
    /\ pc[c] = "idle"
    /\ subs' = subs \ {t}
    /\ topic' = [topic EXCEPT ![c] = t]
    /\ Enters(c, "unsubCheck")
    /\ UNCHANGED <<configured, state, client, cl, session, leaked, unsent, startFailed>>

\* Both then ask os_mqtt_is_connected whether the broker has to be told.
ChecksConnected(c) ==
    /\ \/ pc[c] = "subCheck" /\ state = "CONNECTED" /\ Goes(c, "subSend")
       \/ pc[c] = "unsubCheck" /\ state = "CONNECTED" /\ Goes(c, "unsubSend")
    /\ UNCHANGED <<shared, topic, cl, session, history>>

\* The call is over.
Returns(c) == Goes(c, "idle") /\ topic' = [topic EXCEPT ![c] = NoTopic]

NotConnected(c) ==
    /\ pc[c] \in {"subCheck", "unsubCheck"} /\ state # "CONNECTED"
    /\ Returns(c)
    /\ UNCHANGED <<shared, cl, session, history>>

Online(k) == k # 0 /\ cl[k] = "online"

\* esp_mqtt_client_subscribe, esp_mqtt_client_unsubscribe.
Sends(c) ==
    /\ Online(client)
    /\ \/ /\ pc[c] = "subSend"
          /\ session' = [session EXCEPT ![client] = @ \cup {topic[c]}]
       \/ /\ pc[c] = "unsubSend"
          /\ session' = [session EXCEPT ![client] = @ \ {topic[c]}]
    /\ unsent' = unsent \ {topic[c]}
    /\ Returns(c)
    /\ UNCHANGED <<shared, cl, raced, leaked, startFailed>>

\* They fail when the client is not connected, and may fail for lack of memory:
\* the table keeps what was stored.
SendFails(c) ==
    /\ pc[c] \in {"subSend", "unsubSend"}
    /\ unsent' = IF Online(client) THEN unsent \cup {topic[c]} ELSE unsent
    /\ Returns(c)
    /\ UNCHANGED <<shared, cl, session, raced, leaked, startFailed>>

-----------------------------------------------------------------------------
\* Mutant: the subscriptions are left to the broker.
EventConnected_NoResubscribe(k) ==
    /\ cl[k] = "starting"
    /\ cl' = [cl EXCEPT ![k] = "online"]
    /\ state' = "CONNECTED"
    /\ unsent' = {}
    /\ UNCHANGED <<configured, client, subs, pc, topic, session, raced, leaked, startFailed>>

\* mqtt_event_handler, MQTT_EVENT_CONNECTED: resubscribe_all uses s_client, which
\* may be another client than the one that connected.  It does not look at what
\* esp_mqtt_client_subscribe returns: the requests for some of the topics may fail.
EventConnected(k) ==
    /\ cl[k] = "starting"
    /\ cl' = [cl EXCEPT ![k] = "online"]
    /\ state' = "CONNECTED"
    /\ unsent' \in SUBSET subs
    /\ session' = IF client = k \/ Online(client)
                  THEN [session EXCEPT ![client] = @ \cup (subs \ unsent')] ELSE session
    /\ UNCHANGED <<configured, client, subs, pc, topic, raced, leaked, startFailed>>

\* The client's task finds that it cannot connect, or that the connection is lost.
ConnectionFails(k) ==
    /\ cl[k] \in {"starting", "online"}
    /\ cl' = [cl EXCEPT ![k] = "down"]
    /\ session' = [session EXCEPT ![k] = {}]
    /\ unsent' = IF k = client THEN {} ELSE unsent
    /\ UNCHANGED <<shared, pc, topic, raced, leaked, startFailed>>

\* mqtt_event_handler, MQTT_EVENT_ERROR: sent before the disconnection is reported.
EventError(k) ==
    /\ cl[k] = "down"
    /\ state' = "ERROR"
    /\ UNCHANGED <<configured, client, subs, pc, topic, cl, session, history>>

\* Mutant: only a connection that existed is reported as disconnected.
EventDisconnected_OnlyConnected(k) ==
    /\ cl[k] = "down"
    /\ state' = IF state = "CONNECTED" THEN "DISCONNECTED" ELSE state
    /\ cl' = [cl EXCEPT ![k] = "waiting"]
    /\ UNCHANGED <<configured, client, subs, pc, topic, session, history>>

\* mqtt_event_handler, MQTT_EVENT_DISCONNECTED.
EventDisconnected(k) ==
    /\ cl[k] = "down"
    /\ state' = "DISCONNECTED"
    /\ cl' = [cl EXCEPT ![k] = "waiting"]
    /\ UNCHANGED <<configured, client, subs, pc, topic, session, history>>

\* After its delay the client tries again.
Reconnects(k) ==
    /\ cl[k] = "waiting"
    /\ cl' = [cl EXCEPT ![k] = "starting"]
    /\ UNCHANGED <<shared, pc, topic, session, history>>

CallerStep(c) ==
    \/ ConnectInit(c) \/ ConnectInitFails(c) \/ ConnectReportsError(c)
    \/ ConnectStarts(c) \/ ConnectStartFails(c)
    \/ DisconnectStops(c) \/ DisconnectDestroys(c) \/ DisconnectEnds(c)
    \/ ChecksConnected(c) \/ NotConnected(c) \/ Sends(c) \/ SendFails(c)

ClientStep(k) ==
    \/ EventConnected(k) \/ ConnectionFails(k)
    \/ EventError(k) \/ EventDisconnected(k) \/ Reconnects(k)

\* The shell command mqtt; nothing but the tests calls os_mqtt_unsubscribe.
CmdMqtt(c)    == Config(c) \/ ConnectBegins(c) \/ DisconnectBegins(c)
CmdMqttSub(c) == \E t \in Topics : Subscribe(c, t)

Next ==
    \/ \E c \in Callers :
         \/ CmdMqtt(c) \/ CmdMqttSub(c)
         \/ \E t \in Topics : Unsubscribe(c, t)
         \/ CallerStep(c)
    \/ \E k \in Clients : ClientStep(k)

\* Callers and client tasks are scheduled; the connection timeout of the client
\* ends every attempt to connect, and the disconnection is reported at last.
Fairness ==
    /\ \A c \in Callers : WF_vars(CallerStep(c))
    /\ \A k \in Clients : /\ WF_vars(EventConnected(k) \/ ConnectionFails(k))
                          /\ WF_vars(EventDisconnected(k))
                          /\ WF_vars(Reconnects(k))

Spec == Init /\ [][Next]_vars /\ Fairness
-----------------------------------------------------------------------------
(* Properties *)

Disconnecting == \E c \in Callers : pc[c] \in {"stop", "destroy", "end"}

\* As long as s_client was never overwritten while a client existed and no failed
\* start destroyed a client, CONNECTED is never reported without a client that has
\* been connected: the handler of a late event may overwrite DISCONNECTING, but
\* then a disconnect is still busy and will correct it, also when other calls run
\* at the same time.
ConnectedIsReal ==
    /\ TypeOK
    /\ ~leaked /\ ~startFailed /\ state = "CONNECTED" =>
         Disconnecting \/ (client # 0 /\ cl[client] \in {"online", "down"})

\* As long as calls do not overlap and s_client is not overwritten, the broker
\* knows exactly the subscriptions in the table whenever the client is online,
\* across losses of the connection and whichever comes first, the stored topic or
\* the CONNECTED event -- but for topics whose request, from the caller or from
\* the handler, is on its way or failed.
SubscriptionsKept ==
    ~raced /\ ~leaked /\ Online(client) =>
        \A t \in Topics :
            \/ t \in unsent
            \/ \E c \in Callers : pc[c] # "idle" /\ topic[c] = t
            \/ t \in subs <=> t \in session[client]

\* An attempt to connect ends: the state does not stay CONNECTING, unless
\* registering the handler or starting the client failed.
ConnectResolves == state = "CONNECTING" ~> (state # "CONNECTING" \/ startFailed)
=============================================================================
