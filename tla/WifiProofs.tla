----------------------------- MODULE WifiProofs -----------------------------
(***************************************************************************)
(* Proofs that the Wi-Fi status never shows a dead connection and that a   *)
(* connect reports what became of its own attempts, for any number of      *)
(* sessions, networks, retries and waiting events.                         *)
(***************************************************************************)
EXTENDS Wifi, TLAPS

SsidOrNone == Ssids \cup {NoSsid}
Events     == [ev : {"DISCONNECTED", "GOT_IP"}, ssid : SsidOrNone]
Calls      == [at : {"none", "disconnect", "config", "connect", "wait", "clear"},
               ssid : SsidOrNone, alone : BOOLEAN]
Rets       == [is : {"none", "ok", "fail", "timeout"}, own : BOOLEAN, tried : BOOLEAN]

\* TypeOK and the types of what it leaves open.
DriverTypes ==
    /\ link \in [is : {"idle", "connecting", "up"}, ssid : SsidOrNone]
    /\ (link.is = "idle") = (link.ssid = NoSsid)
    /\ config \in SsidOrNone
    /\ queue \in Seq(Events) /\ Len(queue) <= MaxQueue
    /\ handling \in Events \cup {NoEvent}
    /\ refused \in BOOLEAN

NetTypes ==
    /\ retry_count \in 0 .. MaxRetry /\ tries \in 0 .. MaxRetry
    /\ status \in [ssid : SsidOrNone, connected : BOOLEAN]
    /\ bits \subseteq {"CONNECTED", "FAIL"}
    /\ upFor \in SsidOrNone
    /\ pc \in [Callers -> [call : Calls, ret : Rets]]

Types == DriverTypes /\ NetTypes

\* What the status says, without the types.
Real == status.connected => link.is = "up" \/ Pending("DISCONNECTED")

\* An address that is not reported yet belongs to the link there is, or to one whose end
\* is reported later: so the handler of GOT_IP may believe it.
Announced ==
    \A i \in 1 .. Len(queue) :
        queue[i].ev = "GOT_IP" =>
            link.is = "up" \/ \E j \in i + 1 .. Len(queue) : queue[j].ev = "DISCONNECTED"

IInv == Types /\ Real /\ Announced

-----------------------------------------------------------------------------
(* The queue *)

\* The end of a link, once it is in the queue, vouches for everything before it.
LEMMA PostsDisconnected ==
    ASSUME DriverTypes, NEW n \in SsidOrNone, Posts(Event("DISCONNECTED", n))
    PROVE  /\ queue' \in Seq(Events) /\ Len(queue') <= MaxQueue
           /\ Announced' /\ Real'
<1> DEFINE e == Event("DISCONNECTED", n)
<1>1. e \in Events /\ e.ev = "DISCONNECTED"
  BY DEF Event, Events
<1>2. queue \in Seq(Events) /\ Len(queue) \in Nat /\ Len(queue) < MaxQueue /\ queue' = Append(queue, e)
  BY DEF DriverTypes, Posts
<1>3. queue' \in Seq(Events) /\ Len(queue') = Len(queue) + 1 /\ queue'[Len(queue) + 1] = e
  BY <1>1, <1>2
<1>4. Len(queue') <= MaxQueue
  BY <1>2, <1>3, WifiAssumption
<1>5. \A i \in 1 .. Len(queue) : queue'[i] = queue[i]
  BY <1>1, <1>2
<1>6. Announced'
  <2> SUFFICES ASSUME NEW i \in 1 .. Len(queue'), queue'[i].ev = "GOT_IP"
               PROVE  \E j \in i + 1 .. Len(queue') : queue'[j].ev = "DISCONNECTED"
    BY DEF Announced
  <2>1. i # Len(queue) + 1
    BY <1>1, <1>3
  <2>2. Len(queue) + 1 \in i + 1 .. Len(queue')
    BY <2>1, <1>2, <1>3
  <2> QED BY <2>2, <1>1, <1>3
<1>7. Real'
  <2>1. Len(queue) + 1 \in 1 .. Len(queue')
    BY <1>2, <1>3
  <2> QED BY <2>1, <1>1, <1>3 DEF Real, Pending
<1> QED BY <1>3, <1>4, <1>6, <1>7

\* Taking the first event leaves the others in their order.
LEMMA Taken ==
    ASSUME DriverTypes, NEW e, Takes(e)
    PROVE  /\ queue' \in Seq(Events) /\ Len(queue') = Len(queue) - 1 /\ Len(queue) \in Nat \ {0}
           /\ \A i \in 1 .. Len(queue') : queue'[i] = queue[i + 1]
           /\ queue[1].ev = e /\ queue[1] \in Events /\ handling' = queue[1]
BY DEF DriverTypes, Takes

\* ... the types hold on ...
LEMMA TakenTypes ==
    ASSUME DriverTypes, NEW e, Takes(e), UNCHANGED <<link, config, refused>>
    PROVE  DriverTypes'
<1>1. Len(queue) <= MaxQueue
  BY DEF DriverTypes
<1>2. queue' \in Seq(Events) /\ Len(queue') <= MaxQueue /\ handling' \in Events
  BY <1>1, Taken, WifiAssumption
<1> QED BY <1>2 DEF DriverTypes

\* ... and what is announced stays announced.
LEMMA TakenAnnounced ==
    ASSUME DriverTypes, Announced, NEW e, Takes(e), link' = link
    PROVE  Announced'
<1> SUFFICES ASSUME NEW i \in 1 .. Len(queue'), queue'[i].ev = "GOT_IP", link.is # "up"
             PROVE  \E j \in i + 1 .. Len(queue') : queue'[j].ev = "DISCONNECTED"
  BY DEF Announced
<1>1. i + 1 \in 1 .. Len(queue) /\ queue[i + 1].ev = "GOT_IP"
  BY Taken
<1>2. PICK j \in (i + 1) + 1 .. Len(queue) : queue[j].ev = "DISCONNECTED"
  BY <1>1 DEF Announced
<1>3. j - 1 \in i + 1 .. Len(queue') /\ queue'[j - 1] = queue[j]
  BY <1>1, <1>2, Taken
<1> QED BY <1>2, <1>3

\* What is promised does not depend on the rest of the state.
LEMMA Untouched ==
    ASSUME Real, Announced, queue' = queue,
           link.is = "up" => link'.is = "up",
           status'.connected => status.connected
    PROVE  Real' /\ Announced'
BY DEF Real, Announced, Pending

\* esp_wifi_connect does not take a link down.
LEMMA ConnectKeeps ==
    ASSUME DriverTypes, Connects
    PROVE  /\ link' \in [is : {"idle", "connecting", "up"}, ssid : SsidOrNone]
           /\ (link'.is = "idle") = (link'.ssid = NoSsid)
           /\ link.is = "up" => link'.is = "up"
           /\ refused' \in BOOLEAN
<1>1. CASE UNCHANGED <<link, refused>>
  BY <1>1 DEF DriverTypes
<1>2. CASE UNCHANGED link /\ refused' = TRUE
  <2>1. refused' \in BOOLEAN
    BY <1>2
  <2> QED BY <1>2, <2>1 DEF DriverTypes
<1>3. CASE /\ link.is = "idle" /\ config # NoSsid
           /\ link' = [is |-> "connecting", ssid |-> config] /\ refused' = FALSE
  <2>1. refused' \in BOOLEAN
    BY <1>3
  <2> QED BY <1>3, <2>1 DEF DriverTypes, SsidOrNone
<1> QED BY <1>1, <1>2, <1>3 DEF Connects

-----------------------------------------------------------------------------
(* The callers *)

\* Each way a caller's record changes (a call begins, moves on, ends) keeps its type.
LEMMA CallTypes ==
    ASSUME NetTypes, NEW c \in Callers
    PROVE  /\ \A call \in Calls : Begins(c, call) => pc' \in [Callers -> [call : Calls, ret : Rets]]
           /\ \A where \in {"config", "connect", "wait"} :
                  Goes(c, where) => pc' \in [Callers -> [call : Calls, ret : Rets]]
           /\ \A r \in {"ok", "fail", "timeout"} :
                  Ends(c, r) => pc' \in [Callers -> [call : Calls, ret : Rets]]
<1>1. ASSUME NEW call \in Calls, Begins(c, call) PROVE pc' \in [Callers -> [call : Calls, ret : Rets]]
  <2>1. NoReturn \in Rets
    BY DEF NoReturn, Rets
  <2>2. \A d \in Callers : [pc[d] EXCEPT !.call.alone = FALSE] \in [call : Calls, ret : Rets]
    BY DEF NetTypes, Calls
  <2>3. [call |-> call, ret |-> NoReturn] \in [call : Calls, ret : Rets]
    BY <2>1
  <2> QED BY <1>1, <2>2, <2>3 DEF Begins
<1>2. ASSUME NEW where \in {"config", "connect", "wait"}, Goes(c, where)
      PROVE  pc' \in [Callers -> [call : Calls, ret : Rets]]
  <2>1. pc[c] \in [call : Calls, ret : Rets]
    BY DEF NetTypes
  <2>2. [pc[c] EXCEPT !.call.at = where] \in [call : Calls, ret : Rets]
    BY <2>1 DEF Calls
  <2> QED BY <1>2, <2>2 DEF Goes, NetTypes
<1>3. ASSUME NEW r \in {"ok", "fail", "timeout"}, Ends(c, r)
      PROVE  pc' \in [Callers -> [call : Calls, ret : Rets]]
  <2>1. NoCall \in Calls /\ NoReturn \in Rets
    BY DEF NoCall, NoReturn, Calls, Rets, SsidOrNone
  <2>2. [is |-> r, own |-> upFor = pc[c].call.ssid, tried |-> tries = MaxRetry] \in Rets
    BY DEF Rets
  <2> QED BY <1>3, <2>1, <2>2 DEF Ends, NetTypes
<1> QED BY <1>1, <1>2, <1>3

-----------------------------------------------------------------------------
(* The induction *)

\* os_net_init leaves nothing connected and nothing queued.
LEMMA Initially == Init => IInv
<1> SUFFICES ASSUME Init PROVE IInv
  OBVIOUS
<1>1. DriverTypes
  <2>1. refused \in BOOLEAN
    BY DEF Init
  <2>2. queue \in Seq(Events) /\ Len(queue) <= MaxQueue
    BY WifiAssumption DEF Init
  <2>3. link \in [is : {"idle", "connecting", "up"}, ssid : SsidOrNone]
        /\ link.is = "idle" /\ link.ssid = NoSsid
    BY DEF Init, Down, SsidOrNone
  <2> QED BY <2>1, <2>2, <2>3 DEF Init, DriverTypes, NoEvent, SsidOrNone
<1>2. Idle \in [call : Calls, ret : Rets]
  BY DEF Idle, NoCall, NoReturn, Calls, Rets, SsidOrNone
<1>3. NetTypes
  BY <1>2, WifiAssumption DEF Init, NetTypes, Cleared, SsidOrNone
<1>4. Real /\ Announced
  BY DEF Init, Cleared, Real, Announced
<1> QED BY <1>1, <1>3, <1>4 DEF IInv, Types

\* The driver's own steps: an address, a failed attempt, a lost link.
LEMMA DriverStep ==
    ASSUME IInv, GotIp \/ AttemptFails \/ LinkLost
    PROVE  IInv'
<1> USE DEF IInv, Types
<1>1. CASE GotIp
  <2>1. Event("GOT_IP", link.ssid) \in Events
    BY DEF DriverTypes, Event, Events
  <2>2. queue' \in Seq(Events) /\ Len(queue') <= MaxQueue
    BY <1>1, <2>1, WifiAssumption DEF GotIp, Posts, DriverTypes
  <2>3. link' \in [is : {"idle", "connecting", "up"}, ssid : SsidOrNone] /\ link'.is = "up" /\ link'.ssid # NoSsid
    BY <1>1 DEF GotIp, DriverTypes
  <2>4. DriverTypes'
    BY <1>1, <2>2, <2>3 DEF GotIp, DriverTypes
  <2>5. NetTypes'
    BY <1>1 DEF GotIp, NetTypes, net
  <2>6. Real' /\ Announced'
    BY <2>3 DEF Real, Announced
  <2> QED BY <2>4, <2>5, <2>6
<1>2. CASE AttemptFails \/ LinkLost
  <2>1. link' = Down /\ link.ssid \in SsidOrNone /\ Posts(Event("DISCONNECTED", link.ssid))
    BY <1>2 DEF AttemptFails, LinkLost, DriverTypes
  <2>2. queue' \in Seq(Events) /\ Len(queue') <= MaxQueue /\ Announced' /\ Real'
    BY <2>1, PostsDisconnected
  <2>3. DriverTypes'
    BY <1>2, <2>1, <2>2 DEF AttemptFails, LinkLost, DriverTypes, Down, SsidOrNone
  <2>4. tries' \in 0 .. MaxRetry
    BY <1>2, WifiAssumption DEF AttemptFails, LinkLost, NetTypes
  <2>5. NetTypes'
    BY <1>2, <2>4 DEF AttemptFails, LinkLost, NetTypes, net
  <2> QED BY <2>2, <2>3, <2>5
<1> QED BY <1>1, <1>2

\* The event loop: the handler of GOT_IP believes the event, the others never raise
\* the flag.
LEMMA EventStep ==
    ASSUME IInv, EventLoop
    PROVE  IInv'
<1> USE DEF IInv, Types
<1>1. CASE EventDisconnected
  <2>1. DriverTypes'
    BY <1>1, TakenTypes DEF EventDisconnected
  <2>2. NetTypes'
    BY <1>1 DEF EventDisconnected, NetTypes, Cleared, SsidOrNone
  <2>3. Real'
    BY <1>1 DEF EventDisconnected, Cleared, Real
  <2>4. Announced'
    BY <1>1, TakenAnnounced DEF EventDisconnected
  <2> QED BY <2>1, <2>2, <2>3, <2>4
<1>2. CASE RetriesOrFails
  <2>1. Connects \/ UNCHANGED <<link, refused>>
    BY <1>2 DEF RetriesOrFails
  <2>2. /\ link' \in [is : {"idle", "connecting", "up"}, ssid : SsidOrNone]
        /\ (link'.is = "idle") = (link'.ssid = NoSsid)
        /\ link.is = "up" => link'.is = "up"
        /\ refused' \in BOOLEAN
    BY <2>1, ConnectKeeps DEF DriverTypes
  <2>3. DriverTypes'
    BY <1>2, <2>2 DEF RetriesOrFails, Ended, DriverTypes
  <2>4. NetTypes'
    <3>1. retry_count' \in 0 .. MaxRetry
      BY <1>2, WifiAssumption DEF RetriesOrFails, NetTypes
    <3>2. bits' \subseteq {"CONNECTED", "FAIL"}
      BY <1>2 DEF RetriesOrFails, NetTypes
    <3> QED BY <1>2, <3>1, <3>2 DEF RetriesOrFails, NetTypes
  <2>5. Real' /\ Announced'
    BY <1>2, <2>2, Untouched DEF RetriesOrFails, Ended
  <2> QED BY <2>3, <2>4, <2>5
<1>3. CASE EventGotIp
  <2>1. DriverTypes'
    BY <1>3, TakenTypes DEF EventGotIp
  <2>2. NetTypes'
    <3>1. status' \in [ssid : SsidOrNone, connected : BOOLEAN]
      BY <1>3 DEF EventGotIp, NetTypes
    <3>2. retry_count' \in 0 .. MaxRetry
      BY <1>3, WifiAssumption DEF EventGotIp
    <3> QED BY <1>3, <3>1, <3>2 DEF EventGotIp, NetTypes
  <2>3. Announced'
    BY <1>3, TakenAnnounced DEF EventGotIp
  <2>4. Real'
    <3> SUFFICES ASSUME link.is # "up" PROVE Pending("DISCONNECTED")'
      BY <1>3 DEF EventGotIp, Real
    <3>1. Takes("GOT_IP")
      BY <1>3 DEF EventGotIp
    <3>2. queue[1].ev = "GOT_IP" /\ 1 \in 1 .. Len(queue)
      BY <3>1, Taken
    <3>3. PICK j \in 1 + 1 .. Len(queue) : queue[j].ev = "DISCONNECTED"
      BY <3>2 DEF Announced
    <3>4. j - 1 \in 1 .. Len(queue') /\ queue'[j - 1] = queue[j]
      BY <3>1, <3>3, Taken
    <3> QED BY <3>3, <3>4 DEF Pending
  <2> QED BY <2>1, <2>2, <2>3, <2>4
<1>4. CASE SetsConnected
  <2>1. DriverTypes'
    BY <1>4 DEF SetsConnected, Ended, DriverTypes
  <2>2. handling.ssid \in SsidOrNone
    BY DEF DriverTypes, Events, NoEvent, SsidOrNone
  <2>3. NetTypes'
    BY <1>4, <2>2 DEF SetsConnected, NetTypes
  <2>4. Real' /\ Announced'
    BY <1>4, Untouched DEF SetsConnected, Ended
  <2> QED BY <2>1, <2>3, <2>4
<1> QED BY <1>1, <1>2, <1>3, <1>4 DEF EventLoop

\* esp_wifi_disconnect reports the link it ends, if there is one.
LEMMA DisconnectKeeps ==
    ASSUME IInv, Disconnects, UNCHANGED <<status, config, refused, handling>>
    PROVE  DriverTypes' /\ Real' /\ Announced'
<1> USE DEF IInv, Types
<1>1. CASE UNCHANGED <<link, queue>>
  BY <1>1, Untouched DEF DriverTypes
<1>2. CASE link' = Down /\ Posts(Event("DISCONNECTED", link.ssid))
  <2>1. link.ssid \in SsidOrNone
    BY DEF DriverTypes
  <2>2. queue' \in Seq(Events) /\ Len(queue') <= MaxQueue /\ Announced' /\ Real'
    BY <1>2, <2>1, PostsDisconnected
  <2> QED BY <1>2, <2>2 DEF DriverTypes, Down, SsidOrNone
<1> QED BY <1>1, <1>2 DEF Disconnects

\* A call begins.
LEMMA CommandStep ==
    ASSUME IInv, NEW c \in Callers, CmdWifi(c)
    PROVE  IInv'
<1> USE DEF IInv, Types
<1>1. CASE DisconnectBegins(c)
  <2>1. [at |-> "clear", ssid |-> NoSsid, alone |-> FALSE] \in Calls
    BY DEF Calls, SsidOrNone
  <2>2. NetTypes'
    BY <1>1, <2>1, CallTypes DEF DisconnectBegins, NetTypes, net
  <2> QED BY <1>1, <2>2, DisconnectKeeps DEF DisconnectBegins, net
<1>2. ASSUME NEW s \in Ssids, ConnectBegins(c, s) PROVE IInv'
  <2>1. Resting \in BOOLEAN
    BY DEF Resting
  <2>2. [at |-> "disconnect", ssid |-> s, alone |-> Resting] \in Calls
    BY <2>1 DEF Calls, SsidOrNone
  <2>3. NetTypes'
    <3>1. pc' \in [Callers -> [call : Calls, ret : Rets]]
      BY <1>2, <2>2, CallTypes DEF ConnectBegins
    <3> QED BY <1>2, <3>1, WifiAssumption DEF ConnectBegins, NetTypes, SsidOrNone
  <2>4. DriverTypes'
    BY <1>2 DEF ConnectBegins, driver, DriverTypes
  <2>5. status'.connected = status.connected
    BY <1>2 DEF ConnectBegins, NetTypes
  <2>6. Real' /\ Announced'
    BY <1>2, <2>5, Untouched DEF ConnectBegins, driver
  <2> QED BY <2>3, <2>4, <2>6
<1> QED BY <1>1, <1>2 DEF CmdWifi

\* A call moves on or ends.
LEMMA CallStep ==
    ASSUME IInv, NEW c \in Callers, CallSteps(c)
    PROVE  IInv'
<1> USE DEF IInv, Types
<1>1. CASE ConnectDisconnects(c)
  <2>1. NetTypes'
    BY <1>1, CallTypes DEF ConnectDisconnects, NetTypes, net
  <2> QED BY <1>1, <2>1, DisconnectKeeps DEF ConnectDisconnects, net
<1>2. CASE ConnectConfigures(c)
  <2>1. NetTypes'
    BY <1>2, CallTypes DEF ConnectConfigures, NetTypes, net
  <2>2. config' \in SsidOrNone
    BY <1>2 DEF ConnectConfigures, NetTypes, Calls
  <2>3. DriverTypes'
    BY <1>2, <2>2 DEF ConnectConfigures, DriverTypes
  <2> QED BY <1>2, <2>1, <2>3, Untouched DEF ConnectConfigures, net
<1>3. CASE ConnectConnects(c)
  <2>1. NetTypes'
    BY <1>3, CallTypes DEF ConnectConnects, NetTypes, net
  <2>2. DriverTypes'
    BY <1>3, ConnectKeeps DEF ConnectConnects, DriverTypes
  <2> QED BY <1>3, <2>1, <2>2, ConnectKeeps, Untouched DEF ConnectConnects, net
<1>4. CASE ConnectWaits(c)
  <2>1. pc' \in [Callers -> [call : Calls, ret : Rets]]
    BY <1>4, CallTypes DEF ConnectWaits
  <2>2. NetTypes'
    BY <1>4, <2>1 DEF ConnectWaits, NetTypes
  <2>3. DriverTypes'
    BY <1>4 DEF ConnectWaits, DriverTypes, driver
  <2> QED BY <1>4, <2>2, <2>3, Untouched DEF ConnectWaits, driver
<1>5. CASE WaitTimesOut(c)
  <2>1. NetTypes'
    BY <1>5, CallTypes DEF WaitTimesOut, NetTypes, net
  <2>2. DriverTypes'
    BY <1>5 DEF WaitTimesOut, DriverTypes, driver
  <2> QED BY <1>5, <2>1, <2>2, Untouched DEF WaitTimesOut, driver, net
<1>6. CASE DisconnectClears(c)
  <2>1. pc' \in [Callers -> [call : Calls, ret : Rets]]
    BY <1>6, CallTypes DEF DisconnectClears
  <2>2. NetTypes'
    BY <1>6, <2>1 DEF DisconnectClears, NetTypes, Cleared, SsidOrNone
  <2>3. DriverTypes'
    BY <1>6 DEF DisconnectClears, DriverTypes, driver
  <2> QED BY <1>6, <2>2, <2>3, Untouched DEF DisconnectClears, driver, Cleared
<1> QED BY <1>1, <1>2, <1>3, <1>4, <1>5, <1>6 DEF CallSteps

\* A reset forgets the status with the events.
LEMMA PanicStep ==
    ASSUME IInv, NEW c \in Callers, Panic(c)
    PROVE  IInv'
<1> USE DEF IInv, Types
<1>1. Idle \in [call : Calls, ret : Rets]
  BY DEF Idle, NoCall, NoReturn, Calls, Rets, SsidOrNone
<1>2. NetTypes'
  BY <1>1, WifiAssumption DEF Panic, NetTypes, Cleared, SsidOrNone
<1>3. DriverTypes'
  <2>1. refused' \in BOOLEAN
    BY DEF Panic
  <2>2. queue' \in Seq(Events) /\ Len(queue') <= MaxQueue
    BY WifiAssumption DEF Panic
  <2>3. link' \in [is : {"idle", "connecting", "up"}, ssid : SsidOrNone]
        /\ (link'.is = "idle") = (link'.ssid = NoSsid)
    BY DEF Panic, Down, DriverTypes, SsidOrNone
  <2>4. config' \in SsidOrNone /\ handling' \in Events \cup {NoEvent}
    BY DEF Panic, DriverTypes
  <2> QED BY <2>1, <2>2, <2>3, <2>4 DEF DriverTypes
<1>4. Real' /\ Announced'
  BY DEF Panic, Cleared, Real, Announced
<1> QED BY <1>2, <1>3, <1>4

\* Every step keeps what the status says true.
LEMMA StepKeeps == IInv /\ [Next]_vars => IInv'
<1> SUFFICES ASSUME IInv, [Next]_vars PROVE IInv'
  OBVIOUS
<1>1. CASE UNCHANGED vars
  BY <1>1, Untouched DEF IInv, Types, DriverTypes, NetTypes, vars
<1>2. CASE Next
  BY <1>2, DriverStep, EventStep, CommandStep, CallStep, PanicStep DEF Next
<1> QED BY <1>1, <1>2

\* Whatever the order of late events, explicit disconnects, reconnects and resets, the
\* status says "connected" only while there is a link or while its end is queued.
THEOREM StatusStaysReal == Spec => []ConnectedIsReal
<1>1. IInv => ConnectedIsReal
  BY DEF IInv, Types, DriverTypes, NetTypes, Real, ConnectedIsReal, TypeOK, SsidOrNone
<1> QED BY Initially, StepKeeps, <1>1, PTL DEF Spec

-----------------------------------------------------------------------------
(* Connects that are alone *)

\* Nothing is under way in the driver or in the event loop.
Quiet == link.is = "idle" /\ queue = <<>> /\ handling = NoEvent

\* An attempt is under way; as many have failed as were retried.
Connecting ==
    /\ link.is = "connecting" /\ queue = <<>> /\ handling = NoEvent
    /\ "FAIL" \notin bits /\ tries = retry_count

\* An attempt has failed and its event is queued or half handled.
Failed ==
    /\ link.is = "idle" /\ "FAIL" \notin bits
    /\ tries = (IF retry_count < MaxRetry THEN retry_count + 1 ELSE MaxRetry)
    /\ \/ Len(queue) = 1 /\ queue[1].ev = "DISCONNECTED" /\ handling = NoEvent
       \/ queue = <<>> /\ handling.ev = "DISCONNECTED"

\* No attempt is under way any more: the last has failed, or the driver refused one.
GivenUp == Quiet /\ ("FAIL" \in bits => tries = MaxRetry)

\* An address was obtained, and its event is the next to be handled.
Reached ==
    /\ "FAIL" \notin bits
    /\ \/ handling.ev = "GOT_IP"
       \/ handling = NoEvent /\ queue # <<>> /\ queue[1].ev = "GOT_IP"

\* A call that waits for network s, and has been alone.
Waiting(s) ==
    /\ link.ssid \in {NoSsid, s}
    /\ \A i \in 1 .. Len(queue) : queue[i].ssid = s
    /\ handling = NoEvent \/ handling.ssid = s
    /\ "CONNECTED" \in bits => upFor = s
    /\ "CONNECTED" \notin bits => Connecting \/ Failed \/ GivenUp \/ Reached

\* The state of the module as a call at point at for network s knows it, while it is
\* alone.
Phase(at, s) ==
    \/ /\ at \in {"disconnect", "config", "connect"}
       /\ Quiet /\ bits = {} /\ retry_count = 0 /\ tries = 0
       /\ at = "connect" => config = s
    \/ at = "wait" /\ config = s /\ Waiting(s)

AloneOK ==
    \A c \in Callers : pc[c].call.alone =>
        /\ \A d \in Callers \ {c} : pc[d].call.at = "none"
        /\ pc[c].call.ssid \in Ssids
        /\ Phase(pc[c].call.at, pc[c].call.ssid)

OwnInv == IInv /\ AloneOK /\ ConnectReportsOwn

-----------------------------------------------------------------------------
(* What the driver and the event loop do to a call that is alone *)

\* What is queued by the driver comes last and is for network s.
LEMMA OwnPosts ==
    ASSUME DriverTypes, NEW s \in Ssids, NEW e \in {"DISCONNECTED", "GOT_IP"},
           \A i \in 1 .. Len(queue) : queue[i].ssid = s,
           Posts(Event(e, s))
    PROVE  /\ Len(queue') = Len(queue) + 1 /\ Len(queue) \in Nat
           /\ \A i \in 1 .. Len(queue) : queue'[i] = queue[i]
           /\ queue'[Len(queue) + 1].ev = e
           /\ \A i \in 1 .. Len(queue') : queue'[i].ssid = s
<1> DEFINE v == Event(e, s)
<1>1. v \in Events /\ v.ev = e /\ v.ssid = s
  BY DEF Event, Events, SsidOrNone
<1> HIDE DEF v
<1>2. queue \in Seq(Events) /\ Len(queue) \in Nat /\ queue' = Append(queue, v)
  BY DEF DriverTypes, Posts, v
<1>3. Len(queue') = Len(queue) + 1 /\ queue'[Len(queue) + 1] = v
      /\ \A i \in 1 .. Len(queue) : queue'[i] = queue[i]
  BY <1>1, <1>2
<1>4. ASSUME NEW i \in 1 .. Len(queue') PROVE queue'[i].ssid = s
  <2>1. CASE i = Len(queue) + 1
    BY <1>1, <1>3, <2>1
  <2>2. CASE i # Len(queue) + 1
    <3>1. i \in 1 .. Len(queue)
      BY <1>2, <1>3, <2>2
    <3> QED BY <1>3, <3>1
  <2> QED BY <2>1, <2>2
<1> QED BY <1>1, <1>2, <1>3, <1>4

\* The driver's steps: an attempt succeeds or fails, a link is lost.
LEMMA DriverWaiting ==
    ASSUME IInv, NEW s \in Ssids, Waiting(s), GotIp \/ AttemptFails \/ LinkLost
    PROVE  Waiting(s)'
<1>0. DriverTypes /\ NetTypes
  BY DEF IInv, Types
<1>a. s # NoSsid
  BY WifiAssumption
<1>1. link.is # "idle" /\ link.ssid = s
  BY <1>0 DEF GotIp, AttemptFails, LinkLost, DriverTypes, Waiting
<1>2. UNCHANGED <<retry_count, status, bits, handling, upFor>>
  BY DEF GotIp, AttemptFails, LinkLost, net
<1>3. \A i \in 1 .. Len(queue) : queue[i].ssid = s
  BY DEF Waiting
<1>4. PICK e \in {"DISCONNECTED", "GOT_IP"} :
        /\ Posts(Event(e, s))
        /\ GotIp => e = "GOT_IP"
        /\ ~GotIp => e = "DISCONNECTED"
  <2>1. CASE GotIp
    BY <1>1, <2>1 DEF GotIp
  <2>2. CASE ~GotIp
    BY <1>1, <2>2 DEF AttemptFails, LinkLost
  <2> QED BY <2>1, <2>2
<1>5. /\ Len(queue') = Len(queue) + 1 /\ Len(queue) \in Nat
      /\ \A i \in 1 .. Len(queue) : queue'[i] = queue[i]
      /\ queue'[Len(queue) + 1].ev = e
      /\ \A i \in 1 .. Len(queue') : queue'[i].ssid = s
  BY ONLY <1>0, <1>3, <1>4, OwnPosts
<1>6. link'.ssid \in {NoSsid, s}
  BY <1>0, <1>1 DEF GotIp, AttemptFails, LinkLost, Down, DriverTypes
<1>7. handling' = NoEvent \/ handling'.ssid = s
  BY <1>2 DEF Waiting
<1>8. "CONNECTED" \in bits' => upFor' = s
  BY <1>2 DEF Waiting
<1>9. ASSUME "CONNECTED" \notin bits'
      PROVE  (Connecting \/ Failed \/ GivenUp \/ Reached)'
  <2>0. Connecting \/ Reached
    BY <1>1, <1>2, <1>9 DEF Waiting, Failed, GivenUp, Quiet
  <2>1. CASE Reached
    <3>1. CASE handling.ev = "GOT_IP"
      BY <1>2, <2>1, <3>1 DEF Reached
    <3>2. CASE handling = NoEvent /\ queue # <<>> /\ queue[1].ev = "GOT_IP"
      <4>1. Len(queue) # 0
        BY <1>0, <3>2 DEF DriverTypes
      <4>2. queue'[1] = queue[1] /\ Len(queue') # 0
        BY <1>5, <4>1
      <4>3. queue' # <<>>
        BY <4>2
      <4> QED BY <1>2, <2>1, <3>2, <4>2, <4>3 DEF Reached
    <3> QED BY <2>1, <3>1, <3>2 DEF Reached
  <2>2. CASE Connecting
    <3>1. link.is = "connecting" /\ Len(queue) = 0 /\ handling = NoEvent
          /\ "FAIL" \notin bits /\ tries = retry_count
      BY <2>2 DEF Connecting
    <3>2. Len(queue') = 1 /\ queue'[1].ev = e /\ queue' # <<>>
      BY <1>5, <3>1
    <3>3. CASE GotIp
      BY <1>2, <1>4, <3>1, <3>2, <3>3 DEF Reached
    <3>4. CASE AttemptFails
      <4>1. e = "DISCONNECTED" /\ link'.is = "idle"
        BY <1>4, <3>4 DEF AttemptFails, GotIp, Down
      <4>2. tries' = (IF retry_count' < MaxRetry THEN retry_count' + 1 ELSE MaxRetry)
        BY <1>0, <1>2, <3>1, <3>4, WifiAssumption DEF AttemptFails, NetTypes
      <4> QED BY <1>2, <3>1, <3>2, <4>1, <4>2 DEF Failed
    <3>5. CASE LinkLost
      BY <3>1, <3>5 DEF LinkLost
    <3> QED BY <3>3, <3>4, <3>5
  <2> QED BY <2>0, <2>1, <2>2
<1> QED BY <1>5, <1>6, <1>7, <1>8, <1>9 DEF Waiting

\* The event loop: handlers of events that are all for network s.
LEMMA EventWaiting ==
    ASSUME IInv, NEW s \in Ssids, config = s, Waiting(s), EventLoop
    PROVE  Waiting(s)'
<1>0. DriverTypes /\ NetTypes
  BY DEF IInv, Types
<1>a. s # NoSsid /\ NoEvent.ev = "none"
  BY WifiAssumption DEF NoEvent
<1>1. ASSUME NEW e, Takes(e), UNCHANGED <<bits, link, tries, upFor>>
      PROVE  /\ \A i \in 1 .. Len(queue') : queue'[i].ssid = s
             /\ handling'.ssid = s /\ handling'.ev = e
             /\ link'.ssid \in {NoSsid, s}
             /\ "CONNECTED" \in bits' => upFor' = s
  <2>1. /\ queue' \in Seq(Events) /\ Len(queue') = Len(queue) - 1 /\ Len(queue) \in Nat \ {0}
        /\ \A i \in 1 .. Len(queue') : queue'[i] = queue[i + 1]
        /\ queue[1].ev = e /\ queue[1] \in Events /\ handling' = queue[1]
    BY <1>0, <1>1, Taken
  <2>2. \A i \in 1 .. Len(queue) : queue[i].ssid = s
    BY DEF Waiting
  <2>3. ASSUME NEW i \in 1 .. Len(queue') PROVE queue'[i].ssid = s
    <3>1. i + 1 \in 1 .. Len(queue)
      BY <2>1
    <3> QED BY <2>1, <2>2, <3>1
  <2>4. handling'.ssid = s /\ handling'.ev = e
    BY <2>1, <2>2
  <2> QED BY <1>1, <2>3, <2>4 DEF Waiting
<1>2. CASE EventDisconnected
  <2>1. Takes("DISCONNECTED") /\ UNCHANGED <<retry_count, bits, link, tries, upFor>>
    BY <1>2 DEF EventDisconnected
  <2>2. ASSUME "CONNECTED" \notin bits' PROVE Failed'
    <3>1. handling = NoEvent /\ Len(queue) # 0 /\ queue # <<>> /\ queue[1].ev = "DISCONNECTED"
      BY <1>0, <2>1 DEF Takes, DriverTypes
    <3>2. Failed
      BY <1>a, <2>1, <2>2, <3>1 DEF Waiting, Connecting, GivenUp, Quiet, Reached
    <3>3. Len(queue) = 1
      BY <3>1, <3>2 DEF Failed
    <3>4. queue' = <<>> /\ handling'.ev = "DISCONNECTED"
      BY <1>0, <1>1, <2>1, <3>3 DEF DriverTypes, Takes
    <3> QED BY <2>1, <3>2, <3>4 DEF Failed
  <2> QED BY <1>1, <2>1, <2>2 DEF Waiting
<1>3. CASE EventGotIp
  <2>1. Takes("GOT_IP") /\ UNCHANGED <<bits, link, tries, upFor>>
    BY <1>3 DEF EventGotIp
  <2>2. ASSUME "CONNECTED" \notin bits' PROVE Reached'
    <3>1. handling = NoEvent /\ Len(queue) # 0 /\ queue # <<>> /\ queue[1].ev = "GOT_IP"
      BY <1>0, <2>1 DEF Takes, DriverTypes
    <3>2. Reached
      BY <1>a, <2>1, <2>2, <3>1 DEF Waiting, Connecting, GivenUp, Quiet, Failed
    <3>3. handling'.ev = "GOT_IP"
      BY <1>1, <2>1
    <3> QED BY <2>1, <3>2, <3>3 DEF Reached
  <2> QED BY <1>1, <2>1, <2>2 DEF Waiting
<1>4. CASE SetsConnected
  <2>1. handling.ev = "GOT_IP" /\ handling' = NoEvent
        /\ bits' = bits \cup {"CONNECTED"} /\ upFor' = handling.ssid
        /\ UNCHANGED <<queue, link>>
    BY <1>4 DEF SetsConnected, Ended
  <2>2. handling.ssid = s
    BY <1>a, <2>1 DEF Waiting
  <2> QED BY <2>1, <2>2 DEF Waiting
<1>5. CASE RetriesOrFails
  <2>1. handling.ev = "DISCONNECTED" /\ handling' = NoEvent /\ queue' = queue
        /\ UNCHANGED <<tries, upFor>>
    BY <1>5 DEF RetriesOrFails, Ended
  <2>2. \/ /\ retry_count < MaxRetry /\ retry_count' = retry_count + 1
           /\ Connects /\ bits' = bits
        \/ /\ retry_count >= MaxRetry /\ bits' = bits \cup {"FAIL"}
           /\ retry_count' = retry_count /\ link' = link
    BY <1>5 DEF RetriesOrFails
  <2>3. link'.ssid \in {NoSsid, s}
    BY <2>2 DEF Connects, Waiting
  <2>4. "CONNECTED" \in bits' => upFor' = s
    BY <2>1, <2>2 DEF Waiting
  <2>5. ASSUME "CONNECTED" \notin bits' PROVE (Connecting \/ GivenUp)'
    <3>1. Failed
      BY <1>a, <2>1, <2>2, <2>5 DEF Waiting, Connecting, GivenUp, Quiet, Reached
    <3>2. queue = <<>> /\ link.is = "idle" /\ "FAIL" \notin bits
          /\ tries = (IF retry_count < MaxRetry THEN retry_count + 1 ELSE MaxRetry)
      BY <1>a, <2>1, <3>1 DEF Failed
    <3>3. CASE retry_count < MaxRetry
      <4>1. Connects /\ bits' = bits /\ retry_count' = retry_count + 1
        BY <1>0, <2>2, <3>3, WifiAssumption DEF NetTypes
      <4>2. link'.is = "connecting" \/ link' = link
        BY <1>a, <3>2, <4>1 DEF Connects
      <4>3. tries' = retry_count'
        BY <2>1, <3>2, <3>3, <4>1
      <4>4. CASE link' = link
        BY <2>1, <3>2, <4>1, <4>4 DEF GivenUp, Quiet
      <4> QED BY <2>1, <3>2, <4>1, <4>2, <4>3, <4>4 DEF Connecting
    <3>4. CASE ~(retry_count < MaxRetry)
      <4>1. link' = link
        BY <2>2, <3>4
      <4> QED BY <2>1, <3>2, <3>4, <4>1 DEF GivenUp, Quiet
    <3> QED BY <3>3, <3>4
  <2> QED BY <2>1, <2>3, <2>4, <2>5 DEF Waiting
<1> QED BY <1>2, <1>3, <1>4, <1>5 DEF EventLoop

\* In the background a call that is alone stays in its phase.
LEMMA BackgroundPhase ==
    ASSUME IInv, NEW at, NEW s \in Ssids, Phase(at, s),
           GotIp \/ AttemptFails \/ LinkLost \/ EventLoop
    PROVE  Phase(at, s)'
<1>1. ~Quiet
  BY DEF Quiet, GotIp, AttemptFails, LinkLost, EventLoop, EventDisconnected, EventGotIp,
         RetriesOrFails, SetsConnected, Takes, Ended, NoEvent
<1>2. at = "wait" /\ config = s /\ Waiting(s)
  BY <1>1 DEF Phase
<1>3. config' = config
  BY DEF GotIp, AttemptFails, LinkLost, EventLoop, EventDisconnected, EventGotIp,
         RetriesOrFails, SetsConnected
<1>4. Waiting(s)'
  BY <1>2, DriverWaiting, EventWaiting
<1> QED BY <1>2, <1>3, <1>4 DEF Phase

-----------------------------------------------------------------------------
(* The calls *)

\* What a caller's record is after a call begins, moves on or ends.
LEMMA CallRecords ==
    ASSUME NetTypes, NEW c \in Callers
    PROVE  /\ \A call \in Calls : Begins(c, call) =>
                /\ pc'[c].call = call /\ pc'[c].ret = NoReturn
                /\ \A d \in Callers \ {c} : /\ ~pc'[d].call.alone
                                            /\ pc'[d].call.at = pc[d].call.at
                                            /\ pc'[d].ret = pc[d].ret
           /\ \A where : Goes(c, where) =>
                /\ pc'[c].call.at = where /\ pc'[c].call.ssid = pc[c].call.ssid
                /\ pc'[c].call.alone = pc[c].call.alone /\ pc'[c].ret = pc[c].ret
                /\ \A d \in Callers \ {c} : pc'[d] = pc[d]
           /\ \A r : Ends(c, r) =>
                /\ pc'[c].call = NoCall
                /\ pc'[c].ret = IF ~pc[c].call.alone THEN NoReturn
                                ELSE [is |-> r, own |-> upFor = pc[c].call.ssid,
                                      tried |-> tries = MaxRetry]
                /\ \A d \in Callers \ {c} : pc'[d] = pc[d]
<1>0. pc \in [Callers -> [call : Calls, ret : Rets]]
  BY DEF NetTypes
<1>1. ASSUME NEW call \in Calls, Begins(c, call)
      PROVE  /\ pc'[c].call = call /\ pc'[c].ret = NoReturn
             /\ \A d \in Callers \ {c} : /\ ~pc'[d].call.alone
                                         /\ pc'[d].call.at = pc[d].call.at
                                         /\ pc'[d].ret = pc[d].ret
  <2>1. pc'[c] = [call |-> call, ret |-> NoReturn]
    BY <1>1 DEF Begins
  <2>2. ASSUME NEW d \in Callers \ {c}
        PROVE  /\ ~pc'[d].call.alone /\ pc'[d].call.at = pc[d].call.at
               /\ pc'[d].ret = pc[d].ret
    <3>1. pc'[d] = [pc[d] EXCEPT !.call.alone = FALSE]
      BY <1>1 DEF Begins
    <3>2. pc[d] \in [call : Calls, ret : Rets]
      BY <1>0
    <3> QED BY <3>1, <3>2 DEF Calls
  <2> QED BY <2>1, <2>2
<1>2. ASSUME NEW where, Goes(c, where)
      PROVE  /\ pc'[c].call.at = where /\ pc'[c].call.ssid = pc[c].call.ssid
             /\ pc'[c].call.alone = pc[c].call.alone /\ pc'[c].ret = pc[c].ret
             /\ \A d \in Callers \ {c} : pc'[d] = pc[d]
  <2>1. pc' = [pc EXCEPT ![c].call.at = where]
    BY <1>2 DEF Goes
  <2>2. pc[c] \in [call : Calls, ret : Rets]
    BY <1>0
  <2>3. pc'[c] = [pc[c] EXCEPT !.call.at = where]
    BY <1>0, <2>1
  <2>4. \A d \in Callers \ {c} : pc'[d] = pc[d]
    BY <1>0, <2>1
  <2> QED BY <2>2, <2>3, <2>4 DEF Calls
<1>3. ASSUME NEW r, Ends(c, r)
      PROVE  /\ pc'[c].call = NoCall
             /\ pc'[c].ret = IF ~pc[c].call.alone THEN NoReturn
                             ELSE [is |-> r, own |-> upFor = pc[c].call.ssid,
                                   tried |-> tries = MaxRetry]
             /\ \A d \in Callers \ {c} : pc'[d] = pc[d]
  <2> DEFINE v == IF ~pc[c].call.alone THEN NoReturn
                  ELSE [is |-> r, own |-> upFor = pc[c].call.ssid, tried |-> tries = MaxRetry]
  <2>1. pc' = [pc EXCEPT ![c] = [call |-> NoCall, ret |-> v]]
    BY <1>3 DEF Ends
  <2> HIDE DEF v
  <2>2. pc'[c] = [call |-> NoCall, ret |-> v] /\ \A d \in Callers \ {c} : pc'[d] = pc[d]
    BY <1>0, <2>1
  <2> QED BY <2>2 DEF v
<1> QED BY <1>1, <1>2, <1>3

\* A step of a call that is alone, or of one that is not, takes the call to its next
\* phase and leaves the other callers alone.
LEMMA MovesOn ==
    ASSUME OwnInv, NEW c \in Callers, NEW where, NEW s, pc[c].call.at # "none",
           Goes(c, where), s = pc[c].call.ssid, pc[c].call.alone => Phase(where, s)'
    PROVE  AloneOK' /\ ConnectReportsOwn'
<1>0. NetTypes /\ AloneOK /\ ConnectReportsOwn
  BY DEF OwnInv, IInv, Types
<1>1. /\ pc'[c].call.at = where /\ pc'[c].call.ssid = pc[c].call.ssid
      /\ pc'[c].call.alone = pc[c].call.alone /\ pc'[c].ret = pc[c].ret
      /\ \A d \in Callers \ {c} : pc'[d] = pc[d]
  BY <1>0, CallRecords
<1>2. \A d \in Callers : pc'[d].ret = pc[d].ret /\ pc'[d].call.alone = pc[d].call.alone
  BY <1>1
<1>3. ConnectReportsOwn'
  BY <1>0, <1>2 DEF ConnectReportsOwn
<1>4. \A d \in Callers \ {c} : ~pc'[d].call.alone
  BY <1>0, <1>2 DEF AloneOK
<1>5. ASSUME pc[c].call.alone
      PROVE  /\ \A d \in Callers \ {c} : pc'[d].call.at = "none"
             /\ pc'[c].call.ssid \in Ssids
             /\ Phase(pc[c].call.at, pc[c].call.ssid)'
  <2>1. \A d \in Callers \ {c} : pc[d].call.at = "none"
    BY <1>0, <1>5 DEF AloneOK
  <2>2. pc[c].call.ssid \in Ssids
    BY <1>0, <1>5 DEF AloneOK
  <2>3. Phase(where, s)'
    BY <1>5
  <2>4. Phase(pc[c].call.at, pc[c].call.ssid)'
    BY <1>1, <2>3
  <2> QED BY <1>1, <2>1, <2>2, <2>4
<1>6. AloneOK'
  BY <1>1, <1>4, <1>5 DEF AloneOK
<1> QED BY <1>3, <1>6

\* A call that returns, and reports what is true of it if it was alone.
LEMMA Returns ==
    ASSUME OwnInv, NEW c \in Callers, NEW r, pc[c].call.at # "none", Ends(c, r),
           pc[c].call.alone /\ r = "ok" => upFor = pc[c].call.ssid,
           pc[c].call.alone /\ r = "fail" => tries = MaxRetry
    PROVE  AloneOK' /\ ConnectReportsOwn'
<1>0. NetTypes /\ AloneOK /\ ConnectReportsOwn
  BY DEF OwnInv, IInv, Types
<1>1. /\ pc'[c].call = NoCall
      /\ pc'[c].ret = IF ~pc[c].call.alone THEN NoReturn
                      ELSE [is |-> r, own |-> upFor = pc[c].call.ssid,
                            tried |-> tries = MaxRetry]
      /\ \A d \in Callers \ {c} : pc'[d] = pc[d]
  BY <1>0, CallRecords
<1>2. ~pc'[c].call.alone
  BY <1>1 DEF NoCall
<1>3. \A d \in Callers \ {c} : ~pc'[d].call.alone
  BY <1>0, <1>1 DEF AloneOK
<1>4. AloneOK'
  BY <1>2, <1>3 DEF AloneOK
<1>5. /\ pc'[c].ret.is = "ok" => pc'[c].ret.own
      /\ pc'[c].ret.is = "fail" => pc'[c].ret.tried
  <2>1. CASE ~pc[c].call.alone
    BY <1>1, <2>1 DEF NoReturn
  <2>2. CASE pc[c].call.alone
    <3>1. pc'[c].ret = [is |-> r, own |-> upFor = pc[c].call.ssid, tried |-> tries = MaxRetry]
      BY <1>1, <2>2
    <3>2. pc'[c].ret.is = r /\ pc'[c].ret.own = (upFor = pc[c].call.ssid)
          /\ pc'[c].ret.tried = (tries = MaxRetry)
      BY <3>1
    <3> QED BY <2>2, <3>2
  <2> QED BY <2>1, <2>2
<1>6. ConnectReportsOwn'
  BY <1>0, <1>1, <1>5 DEF ConnectReportsOwn
<1> QED BY <1>4, <1>6

\* A new call: no other is alone any more, and it is alone itself only if nothing was
\* under way.
LEMMA CommandOwn ==
    ASSUME OwnInv, NEW c \in Callers, CmdWifi(c)
    PROVE  AloneOK' /\ ConnectReportsOwn'
<1>0. NetTypes /\ AloneOK /\ ConnectReportsOwn
  BY DEF OwnInv, IInv, Types
<1>1. ASSUME NEW call \in Calls, Begins(c, call),
             call.alone => /\ \A d \in Callers \ {c} : pc[d].call.at = "none"
                           /\ call.ssid \in Ssids
                           /\ Phase(call.at, call.ssid)'
      PROVE  AloneOK' /\ ConnectReportsOwn'
  <2>1. /\ pc'[c].call = call /\ pc'[c].ret = NoReturn
        /\ \A d \in Callers \ {c} : /\ ~pc'[d].call.alone
                                    /\ pc'[d].call.at = pc[d].call.at
                                    /\ pc'[d].ret = pc[d].ret
    BY <1>0, <1>1, CallRecords
  <2>2. AloneOK'
    BY <1>1, <2>1 DEF AloneOK
  <2>3. ConnectReportsOwn'
    BY <1>0, <2>1 DEF ConnectReportsOwn, NoReturn
  <2> QED BY <2>2, <2>3
<1>2. CASE DisconnectBegins(c)
  <2> DEFINE call == [at |-> "clear", ssid |-> NoSsid, alone |-> FALSE]
  <2>1. call \in Calls /\ ~call.alone
    BY DEF Calls, SsidOrNone
  <2>2. Begins(c, call)
    BY <1>2 DEF DisconnectBegins
  <2> HIDE DEF call
  <2> QED BY <1>1, <2>1, <2>2
<1>3. ASSUME NEW s \in Ssids, ConnectBegins(c, s) PROVE AloneOK' /\ ConnectReportsOwn'
  <2> DEFINE call == [at |-> "disconnect", ssid |-> s, alone |-> Resting]
  <2>0. Resting \in BOOLEAN
    BY DEF Resting
  <2>1. call \in Calls /\ call.alone = Resting /\ call.ssid = s /\ call.at = "disconnect"
    BY <2>0 DEF Calls, SsidOrNone
  <2>2. /\ Begins(c, call) /\ retry_count' = 0 /\ bits' = bits \ {"CONNECTED", "FAIL"}
        /\ tries' = 0 /\ UNCHANGED <<link, queue, handling>>
    BY <1>3 DEF ConnectBegins, driver
  <2> HIDE DEF call
  <2>3. bits' = {}
    BY <1>0, <2>2 DEF NetTypes
  <2>4. ASSUME call.alone
        PROVE  /\ \A d \in Callers \ {c} : pc[d].call.at = "none"
               /\ Phase("disconnect", s)'
    <3>1. Resting
      BY <2>1, <2>4
    <3>2. \A d \in Callers : pc[d].call.at = "none"
      BY <3>1 DEF Resting, NoCall
    <3>3. Quiet'
      BY <2>2, <3>1 DEF Resting, Quiet
    <3> QED BY <2>2, <2>3, <3>2, <3>3 DEF Phase
  <2> QED BY <1>1, <2>1, <2>2, <2>4
<1> QED BY <1>2, <1>3 DEF CmdWifi

\* A step of a call.
LEMMA CallOwn ==
    ASSUME OwnInv, NEW c \in Callers, CallSteps(c)
    PROVE  AloneOK' /\ ConnectReportsOwn'
<1>s. PICK s : s = pc[c].call.ssid
  OBVIOUS
<1> DEFINE alone == pc[c].call.alone
<1>0. DriverTypes /\ NetTypes
  BY DEF OwnInv, IInv, Types
<1>a. ASSUME alone PROVE s \in Ssids /\ s # NoSsid /\ Phase(pc[c].call.at, s)
  <2>1. s \in Ssids /\ Phase(pc[c].call.at, s)
    BY <1>a, <1>s DEF OwnInv, AloneOK
  <2> QED BY <2>1, WifiAssumption
<1> HIDE DEF alone
<1>1. CASE ConnectDisconnects(c)
  <2>1. /\ pc[c].call.at = "disconnect" /\ Disconnects /\ Goes(c, "config")
        /\ UNCHANGED <<retry_count, bits, handling, tries>>
    BY <1>1 DEF ConnectDisconnects, At, net
  <2>2. ASSUME alone PROVE Phase("config", s)'
    <3>1. Quiet /\ bits = {} /\ retry_count = 0 /\ tries = 0
      BY <1>a, <2>1, <2>2 DEF Phase
    <3>2. UNCHANGED <<link, queue>>
      BY <2>1, <3>1 DEF Disconnects, Quiet
    <3> QED BY <2>1, <3>1, <3>2 DEF Phase, Quiet
  <2> QED BY <2>1, <2>2, <1>s, MovesOn DEF alone
<1>2. CASE ConnectConfigures(c)
  <2>1. /\ pc[c].call.at = "config" /\ Goes(c, "connect") /\ config' = s
        /\ UNCHANGED <<retry_count, bits, handling, tries, link, queue>>
    BY <1>2, <1>s DEF ConnectConfigures, At, net
  <2>2. ASSUME alone PROVE Phase("connect", s)'
    <3>1. Quiet /\ bits = {} /\ retry_count = 0 /\ tries = 0
      BY <1>a, <2>1, <2>2 DEF Phase
    <3> QED BY <2>1, <3>1 DEF Phase, Quiet
  <2> QED BY <2>1, <2>2, <1>s, MovesOn DEF alone
<1>3. CASE ConnectConnects(c)
  <2>1. /\ pc[c].call.at = "connect" /\ Goes(c, "wait") /\ Connects
        /\ UNCHANGED <<retry_count, bits, handling, tries, config, queue, upFor>>
    BY <1>3 DEF ConnectConnects, At, net
  <2>2. ASSUME alone PROVE Phase("wait", s)'
    <3>1. Quiet /\ bits = {} /\ retry_count = 0 /\ tries = 0 /\ config = s
      BY <1>a, <2>1, <2>2 DEF Phase
    <3>2. link' = [is |-> "connecting", ssid |-> s] \/ link' = link
      BY <1>a, <2>1, <2>2, <3>1 DEF Connects, Quiet
    <3>3. Connecting' \/ GivenUp'
      BY <2>1, <3>1, <3>2 DEF Connecting, Quiet, GivenUp
    <3>4. link'.ssid \in {NoSsid, s}
      BY <1>0, <3>1, <3>2 DEF Quiet, DriverTypes
    <3>5. Waiting(s)'
      BY <2>1, <3>1, <3>3, <3>4 DEF Waiting, Quiet
    <3> QED BY <2>1, <3>1, <3>5 DEF Phase
  <2> QED BY <2>1, <2>2, <1>s, MovesOn DEF alone
<1>4. CASE ConnectWaits(c)
  <2> DEFINE r == IF "CONNECTED" \in bits THEN "ok" ELSE "fail"
  <2>1. pc[c].call.at = "wait" /\ bits \cap {"CONNECTED", "FAIL"} # {} /\ Ends(c, r)
    BY <1>4 DEF ConnectWaits, At
  <2>2. ASSUME alone, r = "ok" PROVE upFor = s
    BY <1>a, <2>1, <2>2 DEF Phase, Waiting
  <2>3. ASSUME alone, r = "fail" PROVE tries = MaxRetry
    <3>1. "CONNECTED" \notin bits /\ "FAIL" \in bits
      BY <2>1, <2>3
    <3>2. Waiting(s)
      BY <1>a, <2>1, <2>3 DEF Phase
    <3> QED BY <3>1, <3>2 DEF Waiting, Connecting, Failed, GivenUp, Reached
  <2> HIDE DEF r
  <2> QED BY <1>s, <2>1, <2>2, <2>3, Returns DEF alone
<1>5. CASE WaitTimesOut(c)
  BY <1>5, Returns DEF WaitTimesOut, At
<1>6. CASE DisconnectClears(c)
  <2>1. pc[c].call.at = "clear" /\ Ends(c, "ok")
    BY <1>6 DEF DisconnectClears, At
  <2>2. ~alone
    BY <1>a, <2>1 DEF Phase
  <2> QED BY <2>1, <2>2, Returns DEF alone
<1> QED BY <1>1, <1>2, <1>3, <1>4, <1>5, <1>6 DEF CallSteps

\* In the background no caller's record changes.
LEMMA BackgroundOwn ==
    ASSUME OwnInv, GotIp \/ AttemptFails \/ LinkLost \/ EventLoop
    PROVE  AloneOK' /\ ConnectReportsOwn'
<1>1. pc' = pc
  BY DEF GotIp, AttemptFails, LinkLost, EventLoop, EventDisconnected, EventGotIp,
         RetriesOrFails, SetsConnected
<1>2. ASSUME NEW c \in Callers, pc[c].call.alone
      PROVE  Phase(pc[c].call.at, pc[c].call.ssid)'
  <2> DEFINE at == pc[c].call.at
             s == pc[c].call.ssid
  <2>1. s \in Ssids /\ Phase(at, s)
    BY <1>2 DEF OwnInv, AloneOK
  <2>2. at' = at /\ s' = s
    BY <1>1
  <2> HIDE DEF at, s
  <2>3. IInv
    BY DEF OwnInv
  <2>4. Phase(at, s)'
    BY <2>1, <2>2, <2>3, BackgroundPhase
  <2> QED BY <2>4 DEF at, s
<1>3. AloneOK'
  BY <1>1, <1>2 DEF OwnInv, AloneOK
<1>4. ConnectReportsOwn'
  BY <1>1 DEF OwnInv, ConnectReportsOwn
<1> QED BY <1>3, <1>4

\* For any number of sessions, networks and retries: a connect that nothing disturbs
\* succeeds only if an address was obtained in its own network, and is given up only
\* after MaxRetry attempts have failed.
THEOREM ConnectsReportOwn == Spec => []ConnectReportsOwn
<1>1. Init => OwnInv
  <2> SUFFICES ASSUME Init PROVE OwnInv
    OBVIOUS
  <2>1. \A c \in Callers : ~pc[c].call.alone /\ pc[c].ret.is = "none"
    BY DEF Init, Idle, NoCall, NoReturn
  <2> QED BY <2>1, Initially DEF OwnInv, AloneOK, ConnectReportsOwn
<1>2. OwnInv /\ [Next]_vars => OwnInv'
  <2> SUFFICES ASSUME OwnInv, [Next]_vars PROVE OwnInv'
    OBVIOUS
  <2>0. IInv'
    BY StepKeeps DEF OwnInv
  <2>1. CASE UNCHANGED vars
    <3>1. AloneOK' /\ ConnectReportsOwn'
      BY <2>1 DEF vars, OwnInv, AloneOK, ConnectReportsOwn, Phase, Quiet, Waiting,
                  Connecting, Failed, GivenUp, Reached
    <3> QED BY <2>0, <3>1 DEF OwnInv
  <2>2. CASE GotIp \/ AttemptFails \/ LinkLost \/ EventLoop
    BY <2>0, <2>2, BackgroundOwn DEF OwnInv
  <2>3. ASSUME NEW c \in Callers, CmdWifi(c) PROVE OwnInv'
    BY <2>0, <2>3, CommandOwn DEF OwnInv
  <2>4. ASSUME NEW c \in Callers, CallSteps(c) PROVE OwnInv'
    BY <2>0, <2>4, CallOwn DEF OwnInv
  <2>5. ASSUME NEW c \in Callers, Panic(c) PROVE OwnInv'
    <3>1. \A d \in Callers : pc'[d] = Idle
      BY <2>5 DEF Panic
    <3>2. AloneOK' /\ ConnectReportsOwn'
      BY <3>1 DEF AloneOK, ConnectReportsOwn, Idle, NoCall, NoReturn
    <3> QED BY <2>0, <3>2 DEF OwnInv
  <2> QED BY <2>1, <2>2, <2>3, <2>4, <2>5 DEF Next
<1>3. OwnInv => ConnectReportsOwn
  BY DEF OwnInv
<1> QED BY <1>1, <1>2, <1>3, PTL DEF Spec
=============================================================================
