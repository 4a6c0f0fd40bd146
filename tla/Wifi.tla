-------------------------------- MODULE Wifi --------------------------------
(***************************************************************************)
(* The station side of os_networking.c: shell sessions that connect and    *)
(* disconnect, the event handlers, which run in the event loop task, and   *)
(* the Wi-Fi driver, which works in the background and reports through a   *)
(* queue of events.  The module has no lock: retry_count, status and the   *)
(* event group are shared as they are.  A scan, which has a bit of its own *)
(* and touches nothing else, is left out.                                  *)
(*                                                                         *)
(* The driver is external.  It does nothing when it is told to connect     *)
(* while it is connecting or connected, or to disconnect while it is idle, *)
(* and it may refuse a new configuration while it is connecting, which     *)
(* ESP_ERROR_CHECK answers with a reset.                                   *)
(***************************************************************************)
EXTENDS Integers, Sequences, FiniteSets

CONSTANTS
    Callers,        \* shell sessions
    Ssids,
    NoSsid,
    MaxRetry,       \* WIFI_MAX_RETRY
    MaxQueue        \* bound: events that wait for the event loop

ASSUME WifiAssumption ==
    /\ MaxRetry \in Nat \ {0} /\ MaxQueue \in Nat \ {0} /\ NoSsid \notin Ssids

VARIABLES
    retry_count, status,    \* of s_net
    bits,           \* s_net.events
    pc,             \* the callers
    link, config,   \* driver: what the station does, and for which network
    refused,        \* driver: the last time it was to connect, it did not even try
    queue,          \* events that are not handled yet
    handling,       \* the event whose handler is half-way, or NoEvent
    tries,          \* failed attempts since the last connect began, up to MaxRetry
    upFor           \* network of the event that last set CONNECTED

net    == <<retry_count, status, bits>>
driver == <<link, config, refused, queue, handling>>
vars   == <<retry_count, status, bits, pc, link, config, refused, queue, handling,
            tries, upFor>>

Cleared == [ssid |-> NoSsid, connected |-> FALSE]
Down    == [is |-> "idle", ssid |-> NoSsid]
NoEvent == [ev |-> "none", ssid |-> NoSsid]

\* A caller.  alone: the station was at rest when the call began, and nobody else has
\* called since.  ret: what such a call returned, whether CONNECTED had been set for its
\* network, and whether MaxRetry attempts had failed.
NoCall   == [at |-> "none", ssid |-> NoSsid, alone |-> FALSE]
NoReturn == [is |-> "none", own |-> FALSE, tried |-> FALSE]
Idle     == [call |-> NoCall, ret |-> NoReturn]

\* After os_net_init, on a device that has no stored configuration.
Init ==
    /\ retry_count = 0 /\ status = Cleared /\ bits = {}
    /\ pc = [c \in Callers |-> Idle]
    /\ link = Down /\ config = NoSsid /\ refused = FALSE /\ queue = <<>> /\ handling = NoEvent
    /\ tries = 0 /\ upFor = NoSsid

-----------------------------------------------------------------------------
(* The driver *)

Event(e, n) == [ev |-> e, ssid |-> n]
Posts(e)    == Len(queue) < MaxQueue /\ queue' = Append(queue, e)

\* esp_wifi_connect.  It may fail, and no caller looks at what it returns: then no
\* attempt begins, and no event will come.
Connects ==
    \/ /\ link.is = "idle" /\ config # NoSsid
       /\ link' = [is |-> "connecting", ssid |-> config] /\ refused' = FALSE
    \/ link.is = "idle" /\ refused' = TRUE /\ UNCHANGED link
    \/ link.is # "idle" /\ UNCHANGED <<link, refused>>

\* esp_wifi_disconnect
Disconnects ==
    \/ link.is = "idle" /\ UNCHANGED <<link, queue>>
    \/ link.is # "idle" /\ link' = Down /\ Posts(Event("DISCONNECTED", link.ssid))

GotIp ==
    /\ link.is = "connecting" /\ link' = [link EXCEPT !.is = "up"]
    /\ Posts(Event("GOT_IP", link.ssid))
    /\ UNCHANGED <<net, pc, config, refused, handling, tries, upFor>>

AttemptFails ==
    /\ link.is = "connecting" /\ link' = Down
    /\ Posts(Event("DISCONNECTED", link.ssid))
    /\ tries' = IF tries < MaxRetry THEN tries + 1 ELSE tries
    /\ UNCHANGED <<net, pc, config, refused, handling, upFor>>

LinkLost ==
    /\ link.is = "up" /\ link' = Down
    /\ Posts(Event("DISCONNECTED", link.ssid))
    /\ UNCHANGED <<net, pc, config, refused, handling, tries, upFor>>

-----------------------------------------------------------------------------
(* The event loop, in two steps for each handler: other tasks run in between *)

Takes(e) ==
    /\ handling = NoEvent /\ queue # <<>> /\ Head(queue).ev = e
    /\ handling' = Head(queue) /\ queue' = Tail(queue)

Ended(e) == handling.ev = e /\ handling' = NoEvent /\ UNCHANGED queue

\* Mutant: the connected flag is left to the next event.
EventDisconnected_KeepsStatus ==
    /\ Takes("DISCONNECTED")
    /\ UNCHANGED <<net, pc, link, config, refused, tries, upFor>>

\* wifi_event_handler: the status is cleared ...
EventDisconnected ==
    /\ Takes("DISCONNECTED")
    /\ status' = Cleared
    /\ UNCHANGED <<retry_count, bits, pc, link, config, refused, tries, upFor>>

\* Mutant: nobody is told that the retries are spent.
RetriesOrFails_NoFail ==
    /\ Ended("DISCONNECTED")
    /\ \/ retry_count < MaxRetry /\ retry_count' = retry_count + 1 /\ Connects
       \/ retry_count >= MaxRetry /\ UNCHANGED <<retry_count, link, refused>>
    /\ UNCHANGED <<status, bits, pc, config, tries, upFor>>

\* ... and the driver is told to connect again, or the waiting call to give up.
RetriesOrFails ==
    /\ Ended("DISCONNECTED")
    /\ \/ /\ retry_count < MaxRetry /\ retry_count' = retry_count + 1
          /\ Connects /\ UNCHANGED bits
       \/ /\ retry_count >= MaxRetry /\ bits' = bits \cup {"FAIL"}
          /\ UNCHANGED <<retry_count, link, refused>>
    /\ UNCHANGED <<status, pc, config, tries, upFor>>

\* ip_event_handler: status and counter, then the bit
EventGotIp ==
    /\ Takes("GOT_IP")
    /\ status' = [status EXCEPT !.connected = TRUE]
    /\ retry_count' = 0
    /\ UNCHANGED <<bits, pc, link, config, refused, tries, upFor>>

SetsConnected ==
    /\ Ended("GOT_IP")
    /\ bits' = bits \cup {"CONNECTED"} /\ upFor' = handling.ssid
    /\ UNCHANGED <<retry_count, status, pc, link, config, refused, tries>>

-----------------------------------------------------------------------------
(* The calls *)

Resting ==
    /\ link.is = "idle" /\ queue = <<>> /\ handling = NoEvent
    /\ \A c \in Callers : pc[c].call = NoCall

\* Calls of others are not alone any more.
Begins(c, call) ==
    pc' = [d \in Callers |->
              IF d = c THEN [call |-> call, ret |-> NoReturn]
              ELSE [pc[d] EXCEPT !.call.alone = FALSE]]

At(c, where)   == pc[c].call.at = where
Goes(c, where) == pc' = [pc EXCEPT ![c].call.at = where]

Ends(c, r) ==
    pc' = [pc EXCEPT ![c] =
              [call |-> NoCall,
               ret  |-> IF ~pc[c].call.alone THEN NoReturn
                        ELSE [is |-> r, own |-> upFor = pc[c].call.ssid,
                              tried |-> tries = MaxRetry]]]

\* Mutant: the bits of an earlier attempt are left.
ConnectBegins_KeepsBits(c, s) ==
    /\ At(c, "none")
    /\ Begins(c, [at |-> "disconnect", ssid |-> s, alone |-> Resting])
    /\ retry_count' = 0
    /\ status' = [status EXCEPT !.ssid = s]
    /\ tries' = 0
    /\ UNCHANGED <<bits, driver, upFor>>

\* os_wifi_connect up to the first call of the driver
ConnectBegins(c, s) ==
    /\ At(c, "none")
    /\ Begins(c, [at |-> "disconnect", ssid |-> s, alone |-> Resting])
    /\ retry_count' = 0
    /\ bits' = bits \ {"CONNECTED", "FAIL"}
    /\ status' = [status EXCEPT !.ssid = s]
    /\ tries' = 0
    /\ UNCHANGED <<driver, upFor>>

ConnectDisconnects(c) ==
    /\ At(c, "disconnect") /\ Disconnects /\ Goes(c, "config")
    /\ UNCHANGED <<net, config, refused, handling, tries, upFor>>

ConnectConfigures(c) ==
    /\ At(c, "config") /\ Goes(c, "connect")
    /\ config' = pc[c].call.ssid
    /\ UNCHANGED <<net, link, queue, refused, handling, tries, upFor>>

ConnectConnects(c) ==
    /\ At(c, "connect") /\ Connects /\ Goes(c, "wait")
    /\ UNCHANGED <<net, config, handling, queue, tries, upFor>>

\* xEventGroupWaitBits clears what it waited for; when both bits are set the call
\* succeeds.
ConnectWaits(c) ==
    /\ At(c, "wait") /\ bits \cap {"CONNECTED", "FAIL"} # {}
    /\ Ends(c, IF "CONNECTED" \in bits THEN "ok" ELSE "fail")
    /\ bits' = bits \ {"CONNECTED", "FAIL"}
    /\ UNCHANGED <<retry_count, status, driver, tries, upFor>>

WaitTimesOut(c) ==
    /\ At(c, "wait") /\ Ends(c, "timeout")
    /\ UNCHANGED <<net, driver, tries, upFor>>

\* os_wifi_disconnect: the driver is told, then the status cleared
DisconnectBegins(c) ==
    /\ At(c, "none") /\ Disconnects
    /\ Begins(c, [at |-> "clear", ssid |-> NoSsid, alone |-> FALSE])
    /\ UNCHANGED <<net, config, refused, handling, tries, upFor>>

DisconnectClears(c) ==
    /\ At(c, "clear") /\ Ends(c, "ok")
    /\ status' = Cleared
    /\ UNCHANGED <<retry_count, bits, driver, tries, upFor>>

\* ESP_ERROR_CHECK of a configuration that the driver refuses.  The driver keeps its
\* configuration in flash and connects with it at the start, unless that fails too.
Panic(c) ==
    /\ At(c, "config") /\ link.is = "connecting"
    /\ retry_count' = 0 /\ status' = Cleared /\ bits' = {}
    /\ pc' = [d \in Callers |-> Idle]
    /\ \/ link' = Down
       \/ config # NoSsid /\ link' = [is |-> "connecting", ssid |-> config]
    /\ refused' = FALSE /\ queue' = <<>> /\ handling' = NoEvent
    /\ tries' = 0 /\ upFor' = NoSsid
    /\ UNCHANGED config

EventLoop == EventDisconnected \/ RetriesOrFails \/ EventGotIp \/ SetsConnected

CallSteps(c) ==
    \/ ConnectDisconnects(c) \/ ConnectConfigures(c) \/ ConnectConnects(c)
    \/ ConnectWaits(c) \/ WaitTimesOut(c) \/ DisconnectClears(c)

\* The shell command wifi: connect and disconnect.
CmdWifi(c) == DisconnectBegins(c) \/ \E s \in Ssids : ConnectBegins(c, s)

Next ==
    \/ GotIp \/ AttemptFails \/ LinkLost
    \/ EventLoop
    \/ \E c \in Callers : CmdWifi(c) \/ CallSteps(c) \/ Panic(c)

\* The event loop task runs, and an attempt to connect succeeds or fails at some time.
Spec ==
    /\ Init /\ [][Next]_vars
    /\ WF_vars(EventLoop) /\ WF_vars(GotIp \/ AttemptFails)

-----------------------------------------------------------------------------
(* Properties *)

Pending(e) == \E i \in 1 .. Len(queue) : queue[i].ev = e

TypeOK ==
    /\ retry_count \in 0 .. MaxRetry /\ tries \in 0 .. MaxRetry
    /\ status \in [ssid : Ssids \cup {NoSsid}, connected : BOOLEAN]
    /\ bits \subseteq {"CONNECTED", "FAIL"}
    /\ link.is \in {"idle", "connecting", "up"} /\ config \in Ssids \cup {NoSsid}
    /\ (link.is = "idle") = (link.ssid = NoSsid)
    /\ Len(queue) <= MaxQueue /\ refused \in BOOLEAN

\* The status says "connected" only while there is a link, or while the event that ends
\* it is on its way: no order of late events, explicit disconnects and reconnects
\* leaves a dead connection in the status.
ConnectedIsReal ==
    TypeOK /\ (status.connected => link.is = "up" \/ Pending("DISCONNECTED"))

\* A connect that finds no link and no event on its way, and is not disturbed by another
\* call, tells the truth: it succeeds only if the station got an address in the network
\* it was asked for, never by what an earlier attempt left behind, and it is given up
\* only after MaxRetry attempts have failed.
ConnectReportsOwn ==
    \A c \in Callers :
        /\ pc[c].ret.is = "ok" => pc[c].ret.own
        /\ pc[c].ret.is = "fail" => pc[c].ret.tried

\* A lost or failed connection does not hang: it is up again, or is given up, which sets
\* FAIL, or a call is at work -- or the driver has refused the attempt that was to
\* restore it, and no other event is left to try again: the handler does not notice,
\* and FAIL is never set.
LossResolves ==
    Pending("DISCONNECTED") \/ handling.ev = "DISCONNECTED" ~>
        \/ link.is = "up" \/ "FAIL" \in bits \/ (refused /\ queue = <<>>)
        \/ \E c \in Callers : pc[c].call # NoCall
=============================================================================
