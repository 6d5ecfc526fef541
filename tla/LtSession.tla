----------------------------- MODULE LtSession -----------------------------
(***************************************************************************)
(* One streaming session: the client of WsStreaming.tla, the FIFO          *)
(* connection of the ws-streaming library and a device that behaves like   *)
(* FakeLtPeer, the LT device of test_device_compatibility.cpp.  The device *)
(* advertises a value signal and never advertises its time signal: the     *)
(* messages that answer a subscription of the value signal announce it.    *)
(*                                                                         *)
(* Where WsStreaming.tla lets any event happen at any moment, here events  *)
(* are messages a device sent, and requests are messages it answers, so    *)
(* the module can say what the two ends agree on once nothing is in        *)
(* flight.                                                                 *)
(***************************************************************************)
EXTENDS WsStreaming

CONSTANT
  Sessions   \* the sessions looked at: FakeLtPeer::Options and the bounds below

Time == 1    \* "CH1.time" comes before
Value == 2   \* "CH1.value" in the order of the map

ASSUME SessionAssumption ==
  /\ N = 2 /\ References = {<<Value, Time>>} /\ AppSignals = {Value}
  /\ ~BadMetadata /\ Readvertise
  /\ Sessions \subseteq
       [drops : Nat,             \* dropSubscribeRequests: how many it ignores
        timeFirst : BOOLEAN,     \* timeMetadataBeforeValue
        withholds : BOOLEAN,     \* withholdTimeMetadata
        outOfOrder : BOOLEAN,    \* outOfOrderUnsubscribe
        timely : BOOLEAN,   \* TRUE: the device answers before the sweep timer expires
        patient : BOOLEAN,  \* TRUE: applications ask only while nothing is in flight
        impulses : Nat,     \* bound: things the device does on its own accord
        switches : Nat]     \* bound: how often the application changes its mind

VARIABLES
  options,     \* the device's options and the bounds of the session
  toDevice,    \* requests on their way to the device
  toClient,    \* messages on their way to the client
  received,    \* valueSubscribeRequests
  serving,     \* valueSubscribed
  postponed,   \* pendingValueUnsubscribeId is set
  late,        \* the timer that delays the time metadata is running
  impulses,    \* unilateral device actions so far
  hidden,      \* what the connection knows of the unadvertised time signal
  switches     \* application requests so far

deviceVars == <<options, received, serving, postponed, late, impulses>>
sessionVars == <<vars, toDevice, toClient, deviceVars, hidden, switches>>

Msg(kind, s) == [kind |-> kind, signal |-> s]
MsgOf(kinds) == {Msg(kind, s) : kind \in kinds, s \in Signal}

SessionInit ==
  /\ Init
  /\ toDevice = <<>> /\ toClient = <<Msg("available", Value)>>
  /\ options \in Sessions
  /\ received = 0 /\ serving = FALSE /\ postponed = FALSE /\ late = FALSE
  /\ impulses = 0 /\ hidden = "Unknown" /\ switches = 0

-----------------------------------------------------------------------------
(* The connection.                                                         *)

\* The ws-streaming library sends a request when the first subscription of a
\* signal is made and when the last one is given up.
RequestsFor(s) ==
  CASE wire[s] <= 0 /\ wire'[s] > 0 -> <<Msg("subscribe", s)>>
    [] wire[s] > 0 /\ wire'[s] <= 0 -> <<Msg("unsubscribe", s)>>
    [] OTHER -> <<>>

\* A handler visits the signals in the order of the map.
SendRequests == toDevice' = toDevice \o RequestsFor(Time) \o RequestsFor(Value)

\* A message for the time signal while it has no entry: the library creates
\* a signal object of its own for it.
OnlyRemembered(m) ==
  /\ m.signal = Time /\ Time \notin known /\ m.kind # "available"
  /\ hidden' = IF m.kind = "signal" THEN "Received"
               ELSE IF hidden = "Unknown" THEN "Empty" ELSE hidden
  /\ UNCHANGED vars

\* The metadata of the value signal names the time signal.
ValueMetadata ==
  \/ Time \in known /\ Metadata(Value, Time)
  \/ Time \notin known /\ hidden = "Unknown" /\ Metadata(Value, NoDomain)
  \/ Time \notin known /\ hidden = "Empty" /\ MetadataFindsHidden(Value, Time)
  \/ Time \notin known /\ hidden = "Received"
       /\ MetadataFindsDescribed(Value, Time, NoDomain)

Handled(m) ==
  /\ \/ m.kind = "available" /\ (AvailableKnown(m.signal) \/ AvailableFetch(m.signal))
     \/ m.kind = "subscribe" /\ RemoteSubscribed(m.signal)
     \/ m.kind = "unsubscribe" /\ RemoteUnsubscribed(m.signal)
     \/ m.kind = "signal" /\ m.signal = Value /\ ValueMetadata
     \/ m.kind = "signal" /\ m.signal = Time /\ Metadata(Time, NoDomain)
  /\ hidden' = hidden

\* The client's I/O thread reads the next message.
Receive ==
  /\ toClient # <<>>
  /\ toClient' = Tail(toClient)
  /\ OnlyRemembered(Head(toClient)) \/ Handled(Head(toClient))
  /\ SendRequests
  /\ UNCHANGED <<deviceVars, switches>>

-----------------------------------------------------------------------------
(* The device.                                                             *)

Sends(messages) == toClient' = toClient \o messages

TimeMetadata == IF options.withholds THEN <<>> ELSE <<Msg("signal", Time)>>

\* sendValueSignalFamily(): the time metadata comes before that of the value
\* signal, or after it at once, or later.
Family(delayed) ==
  <<Msg("subscribe", Value), Msg("subscribe", Time)>>
    \o IF options.timeFirst THEN TimeMetadata \o <<Msg("signal", Value)>>
       ELSE <<Msg("signal", Value)>> \o (IF delayed THEN <<>> ELSE TimeMetadata)

\* executeValueUnsubscribe()
Unsubscribed == <<Msg("unsubscribe", Value)>>

DropsSubscribe(m) ==
  /\ m = Msg("subscribe", Value) /\ received < options.drops
  /\ UNCHANGED <<toClient, serving, postponed, late>>

\* Out of order: rejected while still subscribed, then the unsubscribe runs.
RejectsSubscribe(m) ==
  /\ m = Msg("subscribe", Value) /\ received >= options.drops
  /\ serving /\ options.outOfOrder
  /\ Sends(IF postponed THEN Unsubscribed ELSE <<>>)
  /\ serving' = (serving /\ ~postponed)
  /\ postponed' = FALSE
  /\ late' = late

AnswersSubscribe(m) ==
  /\ m = Msg("subscribe", Value) /\ received >= options.drops
  /\ ~(serving /\ options.outOfOrder)
  /\ serving' = TRUE
  /\ \E delayed \in BOOLEAN :
       /\ delayed => ~options.timeFirst /\ ~options.withholds
       /\ late' = (late \/ delayed)
       /\ Sends(Family(delayed))
  /\ postponed' = postponed

PostponesUnsubscribe(m) ==
  /\ m = Msg("unsubscribe", Value) /\ options.outOfOrder
  /\ postponed' = TRUE
  /\ UNCHANGED <<toClient, serving, late>>

AnswersUnsubscribe(m) ==
  /\ m = Msg("unsubscribe", Value) /\ ~options.outOfOrder
  /\ serving' = FALSE
  /\ Sends(Unsubscribed)
  /\ UNCHANGED <<postponed, late>>

\* Requests for the time signal change nothing.
IgnoresTime(m) ==
  /\ m.signal = Time
  /\ UNCHANGED <<toClient, serving, postponed, late>>

\* handleMetadata()
DeviceServes ==
  /\ toDevice # <<>>
  /\ toDevice' = Tail(toDevice)
  /\ LET m == Head(toDevice)
     IN  /\ received' = IF m = Msg("subscribe", Value) /\ received <= options.drops
                        THEN received + 1 ELSE received
         /\ \/ DropsSubscribe(m) \/ RejectsSubscribe(m) \/ AnswersSubscribe(m)
            \/ PostponesUnsubscribe(m) \/ AnswersUnsubscribe(m) \/ IgnoresTime(m)
  /\ UNCHANGED <<vars, hidden, options, impulses, switches>>

\* The delayed time metadata.
DeviceSendsTime ==
  /\ late
  /\ late' = FALSE
  /\ Sends(<<Msg("signal", Time)>>)
  /\ UNCHANGED <<vars, toDevice, hidden, options, received, serving, postponed,
                 impulses, switches>>

\* unsubscribeValueSignal(), and advertiseTimeSignal() for a time signal whose
\* metadata it has sent.
DeviceUnsubscribes ==
  /\ impulses < options.impulses
  /\ serving' = FALSE
  /\ Sends(Unsubscribed)
  /\ UNCHANGED <<postponed, late>>

DeviceAdvertisesTime ==
  /\ impulses < options.impulses
  /\ received > options.drops /\ ~late /\ ~options.withholds
  /\ Sends(<<Msg("available", Time)>>)
  /\ UNCHANGED <<serving, postponed, late>>

DeviceActs ==
  /\ DeviceUnsubscribes \/ DeviceAdvertisesTime
  /\ impulses' = impulses + 1
  /\ UNCHANGED <<vars, toDevice, options, received, hidden, switches>>

-----------------------------------------------------------------------------
(* The client's other handlers.                                            *)

InFlight == toDevice # <<>> \/ toClient # <<>>

ClientTimer ==
  /\ options.timely => ~InFlight /\ ~late
  /\ TimerEvent
  /\ SendRequests
  /\ UNCHANGED <<toClient, deviceVars, hidden, switches>>

ClientServes ==
  /\ ServeRequest
  /\ SendRequests
  /\ UNCHANGED <<toClient, deviceVars, hidden, switches>>

ApplicationAsks ==
  /\ switches < options.switches
  /\ options.patient => ~InFlight /\ ~late /\ requests = <<>>
  /\ Application
  /\ switches' = switches + 1
  /\ UNCHANGED <<toDevice, toClient, deviceVars, hidden>>

\* Everything has been said, and the application is content.
Settled == ~InFlight /\ ~late /\ requests = <<>> /\ timer = "Idle"

Rest == Settled /\ UNCHANGED sessionVars

SessionNext ==
  \/ Receive \/ DeviceServes \/ DeviceSendsTime \/ DeviceActs
  \/ ClientTimer \/ ClientServes \/ ApplicationAsks \/ Rest

SessionSpec == SessionInit /\ [][SessionNext]_sessionVars

\* Both ends keep running and messages are delivered.
FairSession ==
  /\ SessionSpec
  /\ WF_sessionVars(Receive)
  /\ WF_sessionVars(DeviceServes)
  /\ WF_sessionVars(DeviceSendsTime)
  /\ WF_sessionVars(ClientTimer)
  /\ WF_sessionVars(ClientServes)

-----------------------------------------------------------------------------
\* Sessions in which the device serves requests in order and in time and does
\* nothing on its own, and applications wait for the answer to their requests.
Calm ==
  options.timely /\ options.patient /\ ~options.outOfOrder /\ options.impulses = 0

\* Once everything has settled, the device serves the signal if an application
\* wants it, so that no application waits for data that will not come; and only
\* then, so that no fetch subscription is left behind on the device.  The time
\* signal comes along with the value signal: it is never subscribed, even if the
\* device advertises it later.
SettledServedIffWanted ==
  /\ Calm /\ Settled => (serving <=> Value \in wanted)
  /\ wire[Time] = 0

\* "a takeover of it would never get data": the subscription an application
\* takes over is one the device serves, or has just ended with a message that
\* is still on its way.
TakeoverIsServed ==
  [][SubscribeTakesOver(Value) =>
       serving \/ \E i \in DOMAIN toClient : toClient[i] = Msg("unsubscribe", Value)]_sessionVars

\* "DroppedSubscribeRequestIsRetried": a device that ignores no more than two
\* requests gets its signal published.
ValuePublished == options.timely => <>(Value \in published)

\* "the value signal must have been deferred until the time signal published":
\* the value signal is registered without it only if it does not come in time.
PublishedWithDomain ==
  options.timely /\ Value \in published /\ ~options.withholds => parent[Value] = Time

\* "release a held fetch subscription only after a full sweep period, clear of
\* app subscribes": the sweep never ends the subscription of a signal for which
\* an application has asked and been served.
ReleaseClearOfApps ==
  [][Calm /\ InitialFetchSweep /\ fetch[Value] = "Held" /\ fetch'[Value] # "Held"
       => Value \notin wanted \/ requests # <<>>]_sessionVars

\* In a calm session no request of an application is lost: none to subscribe is
\* refused, and the signal that one gives up is always subscribed.
RequestsHonoured ==
  [][Calm => \A s \in Signal :
       ~SubscribeRefused(s) /\ (UnsubscribeServed(s) => s \in subscribed)]_sessionVars
=============================================================================
