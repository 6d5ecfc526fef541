# A TLA+ model of openDAQ LT streaming

This directory holds TLA+ modules that model the LT streaming modules of this
repository (class names below are those of the source), TLC configurations that
check them on small instances, and proofs checked by TLAPS. `PROJECT.json` maps
every definition to the lines it models and lists runs, mutants, findings and
hazards.

## 1. The system

openDAQ devices publish *signals*. LT streaming carries them over WebSockets. The
`ws-streaming` library (a git submodule, not part of this repository) speaks the
protocol: connections, `wss::remote_signal` objects on the client with a
subscription count, `wss::local_signal` objects on the server, events as
`boost::signals2` signals. This repository is what sits between that library and
openDAQ.

| Component | State | Operations | Interacts with |
|---|---|---|---|
| `WsStreaming` (client streaming object, `ws_streaming.cpp`) | map of signal entries (descriptor, domain entry, published, subscribed, initial-fetch state and counters), one timer, the I/O context and its thread | seven events of the library, two timer handlers, `onSubscribeSignal`/`onUnsubscribeSignal`, destructor | library (events in, subscribe/unsubscribe out), openDAQ (`addToAvailableSignals`, `triggerSubscribeAck`, packets), the pseudo-device (`onSignalAvailable`/`onSignalUnavailable`) |
| `WsStreamingDevice` (pseudo-device) | streaming object, connected slots, map of mirrored signals | constructor, two slots, `removed`/`removedNoLock` | streaming object; openDAQ's configuration lock |
| `WsStreamingSignal` | none of its own | creation | pseudo-device |
| `WsStreamingServer` | advertised local signals, connected clients, server capability, I/O thread | constructor, `onStopServer`, core events → `rescan`, client connect/disconnect, signal (un)subscribed | openDAQ component tree and device information, library |
| `WsStreamingListener` | input port, last descriptor | construction, `packetReceived` | acquisition thread; posts to the server's executor |
| `WsStreamingServerOutletFb`, `WsStreamingClientOutletFb`, `RemoteSignalHandler` | nested function block per client, signal per client signal | attach (posted), connect/disconnect/closed, available/ready/unavailable, data | server, connections |
| Client module | mutex and index of devices | discovery, completion of capabilities, connection strings, `onCreateDevice`, `onCreateStreaming` | openDAQ's module manager, application threads, the constructor of `WsStreaming` |
| Server module | none | `onCreateServer` with the module's options | server |
| Metadata conversion | none | `metadataToDescriptor`, `descriptorToMetadata` | client and server |

**Threads.** Each streaming object and each server pumps an I/O context of its own
with one thread, so its handlers never overlap; everything that comes from
elsewhere (application requests, acquisition packets, the outlet's attachment) is
posted to it, in order. The exceptions are what is hard: the destructor joins that
thread, the device's slots take a configuration lock on it, the constructor of the
device connects its slots while it is running already, and the server's `rescan`
runs on whatever thread raised a core event.

**What is hard in the client.** A signal can be registered with openDAQ only when
its metadata is known, and metadata comes only with a subscription. So every
advertised signal is subscribed once (*initial fetch*), and the subscription is
given back later. Around this: devices that drop subscribe requests (retried, at most
three attempts); devices that answer late, after the fetch was given up; domain
(time) signals that are never advertised, whose metadata comes after that of the value
signal or not at all (*deferral*, with a bound); an application that subscribes at
once takes over the fetch subscription (*hold*) instead of unsubscribing and
subscribing again; and one timer for all of it.

**What is hard in between.** The time of a block is not on the wire. The receiver makes the
packets of a domain signal itself, from its linear rule, when a value signal's block arrives, and
signals with the same domain signal share them. A connection string is formed from what the
application wrote, what a configuration object says (which the constructor of a streaming object
completes in place, property by property and without a lock) and two sets of defaults; threads
that create devices wait for each other while one of them waits for the network.

**What is hard in the server.** A server announces itself on a device that another server may hold
already, may fail half way through its construction, and is stopped again by its destructor when a
successor may be up. Its rescan has to keep two trees in step, domain signals first, through
signals that vanish, come back, and change their domain. A listener learns of a new descriptor on
the acquisition thread and has to get it to the client before the data made with it, while the
subscription handler is still between creating the listener and connecting its port. Clients may
have signals as well: the nested block of a client makes openDAQ signals of them when their
metadata and that of their domain signals are there, which the client may send in any order and
change later. Function blocks attach by a posted call that races the clients it is to find, the
close of the server, and its own removal.

### What makes each component correct

- *Streaming object*: the wire subscription count is balanced; every wait is under
  the timer and ends; domain signals are registered first and links form no cycle; the
  waits last as long as the comments promise; openDAQ and the streaming object agree on
  who is subscribed; the destructor returns.
- *Session*: when nothing is in flight the device serves a signal exactly if an
  application wants it; a device of the compatibility tests gets its signal published,
  linked to its time signal.
- *Pseudo-device*: mirrors the catalogue, with its domain links, while it is up; changes
  nothing once removed; removal ends.
- *Server*: advertised signals follow the component tree, domain first; capability and
  connected clients are balanced over stop and restart.
- *Listener*: the metadata a client has matches the packets it gets.
- *Outlet*: one block per client while attached; one signal per client signal, whose
  packets come with the domain packets of its domain signal.
- *Data path*: a packet has the domain packet of its own tick, if the domain signal is linear, and
  a descriptor its readers were told of; descriptors the wire can carry survive it.
- *Connecting*: what is dialed is the channel and port asked for; exceptions name their
  cause; a capability leads to the server that announced it; every call returns.

## 2. Modules

```
client                                        server

SignalCatalogue <- - -+- - - - - - - - - - - - - ClientOutlet
  ^                   : implements
WsStreamingDevice     :                       LtServer        servers and clients
                      :                         ^
WsStreaming - - - - - +                       ServerOutlet    + outlet blocks
  ^     ^     ^                                 ^
  |     |     |                               ServerOutletProofs
  |     |   LtSession
  |     |     ^                               ServerSignals   rescan and listeners
  |     |     +-- LtSessionProofs
  |     |                     |               ServerConfiguration
  |   SignalPackets --+       |                 ^
  |     ^             |       |               ClientConnection
  |     |             v       |
  |     |   MetadataConversion|
  |     |                     |
  |   SignalPacketsProofs     |
  |     |                     |
  |     v                     |
WsStreamingProofs <-----------+
```

An arrow points to the module that is extended (`WsStreamingDevice` extends the
abstract catalogue, `LtSession` and `SignalPackets` extend the client). A module `MCX`
holds the constants with which TLC checks `X`. Proofs are in modules that extend the one
they are about: those of the picture, `WsStreamingDeviceProofs`, `ClientOutletProofs`,
`ServerSignalsProofs` and `ClientConnectionProofs`. `SignalPacketsProofs` and `LtSessionProofs`
also extend `WsStreamingProofs`, whose lemmas about the handlers they use.

### WsStreaming

Variables are the fields of `WsStreamingRemoteSignalEntry` as sets and functions over
the signal identifiers (`known` is the key set of the map, `described` the entries with
a descriptor, `published`, `subscribed`, `fetch`, `attempts`, `sweeps`, `domain`), the
timer (what its pending wait is for), the library's subscription count (`wire`), what
openDAQ has been told (`parent`, `acked`), and the application side (`wanted`,
`requests`, `phase`). Three history variables serve the properties: `share` (the
application's part of `wire`) and `heldFull`/`deferFull` (waits older than the running
timer). Each handler is one action, with everything it calls: `Described` is the
metadata handler with the recursive `publishSignalEntry`, written with the least set
`Reached` that is closed under "deferred on a published signal", so that it needs no
recursion and can be proved about.

Identifiers are 1..N because the sweep visits the map in its order, which shows:
a signal published earlier in the pass is visited as a published one and its sweep
counter advances at once.

A removed entry stays alive while another entry refers to it as its domain; whether it
had been published is all that matters of it (`GonePublished`, `GoneUnpublished`).

Abstracted: metadata is usable or not and names a domain signal or none (what it says
otherwise is conversion); time is the order of handlers; logging. Applications may post
at most `RequestBound` unserved requests and drift the share by `ShareBound`
(these bound the state space and nothing else).

The device is arbitrary: any library event for any signal object at any moment. That is
more than a real device does, and the safety results hold for it. `Readvertise` and
`BadMetadata` take two of its liberties away where a property does not survive them.

### LtSession

`WsStreaming` composed with a FIFO connection and a device translated from `FakeLtPeer`
in `test_device_compatibility.cpp`, with its options (`dropSubscribeRequests`,
`timeMetadataBeforeValue`, `withholdTimeMetadata`, `outOfOrderUnsubscribe`) and its
unilateral acts (`unsubscribeValueSignal`, `advertiseTimeSignal`). Client handlers are
the actions of `WsStreaming`, fired by messages; a change of `wire` from or to zero is a
request on the connection (`RequestsFor`, modelled from how `src/` uses the library).
Each behaviour chooses a session (`Sessions`): a device, and whether the sweep timer is
longer than a round trip (`timely`: seconds against a network answer, in the constants of
the code), whether applications ask only while nothing is in flight (`patient`), how often
they change their mind and how often the device acts on its own. `Calm` sessions are the
ones in which the device serves requests in order and in time and does nothing on its own.

### SignalCatalogue and WsStreamingDevice

`SignalCatalogue` says what openDAQ may rely on: signals enter in groups, domain first;
they stay until withdrawn; only registered signals are forwarded. `WsStreamingDevice`
uses it in place of the streaming object: the I/O thread emits a catalogue change, the
slot waits for the configuration lock, and the application thread constructs the device
(two slots connected one after the other) and removes it (`removed` under the lock,
`removedNoLock` after it, then the streaming object's destructor joins the I/O thread).

### LtServer and ServerOutlet

`LtServer` is any number of `WsStreamingServer` objects on one device (`Servers`), each
with the protocols it is configured for (`ChannelsOf`), from construction to the second
stop. A phase records how far `onStopServer` has come: slots disconnected and the close
posted (`Stopping`), connections closed by the I/O thread (`Closed`), thread joined and
capability taken back (`Stopped`), stopped again (`StoppedAgain`). The device has the
capability (`capabilities`), the list of connected clients (`listed`) and may be removed at
any moment. A client's address may be unreadable, in which case it is never listed.

`ServerOutlet` extends it with the outlet function blocks: a block finds a server,
posts `attach()` to its I/O thread, and from then on has one nested block per connected
client. An event of the server and the handlers it calls are separate steps. `calls` are the
handlers that the I/O thread has still to call before it takes the next event: those of attached
blocks, and `onClientConnected()` for each client that `attach()` finds, which it calls itself.
`Calls` calls one, if it is still connected then; `waiting` is the handler that was called and
waits for the configuration lock of its block; the last step is its work
(`OnClientConnected`, `OnClientDisconnected`, `OnServerClosed`), which looks at nothing that has
happened to the block. The application may run `removed()` between any two of them, as it holds that
lock and `disconnect()` waits for nobody. What is posted runs before the thread ends (`Drained`).
`RemoveEarly` says whether a block may be removed while its attachment is still posted.

The nested blocks' own signals are in `ClientOutlet`, the configuration in `ServerConfiguration`.

### ServerSignals

The component tree (`tree`, `descriptor`, `domainOf`), the local signals of the library
(`local`, `linked`, `metadata`), listeners (`listening`, `last`) and the calls posted to the
executor (`posted`). Every core event of the tree is one action with the whole `rescan`:
removal of what has gone, and `createListener` for every described signal in the order of
`getItems()`, its domain signal first. `Chain` is the recursion of `createListener`, written as
the least set that holds the signal and is closed under "domain signal of"; an
exception for a signal without a descriptor ends the rescan (`Visited`). A posted call keeps
the local signal it is for: when a rescan removes that one, the call stays where it is and runs
for nobody (`PostedAfter`, `RunsForNobody`). The
subscription handler is two actions, `Subscribe` (the listener is built, and sets the
metadata directly) and `Start` (its port is connected): between them the application and the
acquisition thread run. `unnoticed` records that a signal has got its first descriptor,
which no event the server looks at announces.

The rescan is one action that does not overlap a handler of the I/O thread. In the code
it runs on the thread that raised the event, without a lock: that is a data race, and what
it may do is not modelled. Identifiers and sample offsets are left out.

### ClientOutlet

The nested block of one client with its `RemoteSignalHandler` objects. `handlers` is the key
set of `_handlers`; the block's pair of signals per entry and the handler's own pair are
assigned together and are `signal` and `domain`. `parent` and `packets` are what openDAQ
sees: the signals with their domain signals, and what was sent on each. The client offers,
withdraws, describes and sends in any order, with metadata that is unusable or names any table
it may name; an identifier that was withdrawn may be offered again. An entry
goes with its remote signal, the openDAQ signal stays, and so the identifier is taken
from then on: `failed` is the exception that leaves the I/O thread.

### SignalPackets and MetadataConversion

`SignalPackets` extends every handler of `WsStreaming` that a device with an openDAQ server
causes by what it does to descriptors and packets, and adds `onRemoteSignalDataReceived`.
`told` is what openDAQ was last told of a signal's descriptors, at registration and in events
(`emitDescriptorChangedEvents`); `last` is `lastPacket`. The device has a clock; at every tick
each signal sends at most one block, whose number of samples is its own (`BlockSizes`): signals that
share a domain signal need not agree, and the domain packet has the length of the block it was made
for. The sweep is left out here: signals are served in time and are not withdrawn. A block may
come between any two handlers and was made with the metadata that came last, as the connection keeps
its order.

Descriptors arrive through `ToDescriptor(ToMetadata(d, ...))`, the two conversions of
`MetadataConversion`. A parameter of a rule is a number with a whole part and a rest, of which the wire
carries the first (`AsInt64`). Only a linear rule of a dimension is sent, and each
dimension of a field gets that of the field's first. What a descriptor, a field or a dimension says
besides its type, rule, fields and dimensions is a set of pairs of name and value (`about`): a unit, a range
or labels are one value each. Those of a descriptor that are not in `Carried`, and all of fields and
dimensions, are lost. `Portable` names the descriptors for which the conversions should be inverse
to each other.

### ServerConfiguration and ClientConnection

`ServerConfiguration` has what a configuration makes of a server: defaults, options of the
module, the exceptions of the constructor, the listeners, and what is announced: discovery
records, capabilities, the protocol of a connected client.

`ClientConnection` has the threads that call `onCreateDevice` and `onCreateStreaming`. The steps of a
call are the places between which other threads and the server may act:

| Step | Code |
|---|---|
| `Begin` | the checks and the formed connection string |
| `Lock` | the mutex, which calls that create devices take and hold until they end |
| `Construct` | the constructor begins; a build without TLS refuses a secure string |
| `FindMissing`, `AddMissing` | `populateConfigFromDefault()`: `hasProperty()` finds a default that the object lacks, `addProperty()` adds it. Another call may have added it in between: the exception is the outcome `AlreadyExists` |
| `Dial` | TLS is set up (or not: `BadSecrets`), and the attempt meets a listener or nobody |
| `Answer` | the attempt ends with one of the error codes of `Codes`: those of the handshake with the listener it has met, and, when the server has stopped since, those of a closed connection |

A secure attempt that the stopping server closes is taken for an authentication failure, a plain one
for an absent server, as `isTlsRejection` tells them apart. The host has one server at a time, which
starts with any configuration, stops at any moment and may start again. `configs` are the
application's configuration objects; `found` is a capability that was discovered or completed, with the
start of the server it belongs to. `met`, `host` and `raced` are kept for the properties: the listener
met, its server, and the kinds of calls that added what this one was about to add. Ports have 16 bits
on the client. A certificate and its key are one property. The system gives a listener on port 0 a port of its
choice and no port twice (`Clash`): a server whose channels ask for one port is refused. A
call that dials the control port is answered as if nothing listened there.

## 3. Runs

| Run | Shows | Bounds |
|---|---|---|
| `WsStreaming_entries` | No entry waits without a timer (`SweepArmedWhilePending`); the wire count is conserved; acknowledgements agree with what is forwarded; a hold lasts a full period; only the sweep drops a domain link; the streaming object implements `SignalCatalogue` | 2 signals that may name each other, all device events, one signal with an application, 1 pending request, share ±2 |
| `WsStreaming_progress` | A retry is due for every entry that awaits one; a deferral lasts a full period; fetches, deferrals and holds end (`WaitsEnd`); the destructor returns | 2 mutual signals, usable metadata, each signal advertised once, destruction at any moment |
| `LtSession_settled` | At rest the device serves the signal exactly if it is wanted, and the hidden time signal is never subscribed; publication with the time signal; the sweep never takes a served application's subscription; no request of a calm session is lost; every device gets its signal published | calm sessions with 4 changes of mind; restless ones with 2 unilateral acts of any device and 2 impatient changes of mind |
| `SignalPackets_data` | Under a linear domain signal, a packet's domain packet is that of its own tick and is sent once; packets have the descriptors readers were told of; a program ends only for unusable metadata of a registered signal; portable descriptors arrive unchanged | 2 value signals, with blocks of 1 and of 2 samples, on 1 time signal, linear or explicit; 2 ticks; a constant signal with an attribute that is not carried, a structure with a field of every type, one of them an array |
| `WsStreamingDevice_mirror` | Mirrors the catalogue and its links; quiet once removed; removal returns | 3 signals |
| `ServerOutlet_lives` | The advertised capability is that of the server that is up; listed clients are connected; one nested block per client whenever no handler is under way; once the handlers called before a removal have returned, nothing reaches the removed block again (`RemovalIsFinal`); stopping and posted attachments end (`StopsEnd`) | 2 servers, one with a plain and one with a secure channel, 2 clients, 1 block, `RemoveEarly` FALSE |
| `ServerSignals_tree` | The server advertises the tree as of the last core event, linked to the current domain signals; metadata catches up; data goes out under its own metadata | 3 signals, 1 of them subscribed, 2 descriptors each, 2 posted calls, `Orderly` TRUE |
| `ClientOutlet_packets` | Blocks of a signal described after its domain signal arrive once; domain and value packets are paired; an exception only for a taken identifier; openDAQ sees a `SignalCatalogue` | 3 identifiers, 4 remote signals, 2 blocks |
| `ClientConnection_connect` | Channel and port are the ones asked for; local identifiers differ; exceptions name their cause; capabilities lead to their server; every call returns | 2 threads, 2 calls, 6 kinds of calls with strings and those with capabilities, 3 configuration objects, 2 starts of a server with any of 3 configurations, and 4 that are refused, builds with and without TLS |

Two signals suffice for the entry properties because entries interact only through
domain links, one timer, and the order of the map: with `1 -> 2` and `2 -> 1` the domain
may come before or after the signal it serves. Attempts (3) and
sweeps (2) are the code's own and not bounded by the model. Every property has a
*mutant*: a plausible mistake in a mapped definition (the operators with a suffix such as
`WaitEnds_AtFirst`, each next to the definition it varies) under which TLC finds the
property violated.

Two remote signals of one identifier, a domain signal and a value signal that can be both need
four remote objects of three identifiers; pairing and delivery speak of single blocks, so a second
block only has to show that the first leaves nothing behind. With two ticks the domain packet of
the first is there when a block of the second comes, and the two value signals, whose blocks
differ in length, share it in either order. Two calls let one thread wait for the other, let both
fill one configuration object at a time, and let a second call find what the first made of the
object or of the mutex. Two starts let a capability outlive the server that announced it, and an
attempt the server it met. Nobody looks for servers, completes capabilities or keeps one once no
call is left to use it.

Two servers are enough for the capability because each acts on the device only when it
starts and when it stops; what matters is one acting while another is up. A block's state
depends on its own server only. For the rescan, three signals give a domain of a domain and
a signal that is registered as somebody's domain before its own turn; one subscriber
is enough because calls posted for different signals do not affect each other.

### Findings: runs that end in a violation

| Run | What the code does |
|---|---|
| `LtSession_deadHold` | A device that ends the subscription of a deferred signal: the dead subscription is later held and taken over |
| `WsStreamingDevice_early` | A signal published before the device's constructor has connected its slots is never mirrored |
| `ServerOutlet_removedEarly` | A block removed before its posted `attach()` has run is attached afterwards. The same property fails when `RemoveEarly` is FALSE: a handler that was called and waits for the block's lock adds a nested block to the removed block (`ws_streaming_server_outlet_fb.cpp:162`) |

`PROJECT.json` quotes what the repository says in each case.

Other behaviour the models contain, each behind a switch of the model that the passing runs
keep off or a condition of a property, because the property does not survive it:

- `timely` FALSE: a retry that is confirmed after the signal was published makes a held signal
  look subscribed (`ws_streaming.cpp:618`); an application is turned away and the sweep
  releases the subscription (`ReleaseClearOfApps`, `RequestsHonoured`).
- `BadMetadata`: unusable metadata ends a deferral but not its sweep count, so that the
  next deferral gets less than a full period (`DeferralLastsFullPeriod`); and metadata that
  comes during the retry delay and becomes unusable later leaves the entry in
  `AwaitingRetry` with nothing to retry it (`AwaitingRetryIsDue`).
- `Readvertise`: a device that advertises the same signal again in every retry delay
  restarts its attempts each time (`WaitsEnd`).
- Not `patient`: an application that unsubscribes and subscribes again before the device
  has confirmed the end is refused, although the subscription has been given up, and its signal
  stays silent (`RequestsHonoured`, `SettledServedIffWanted`).
- `Orderly` FALSE: a client that unsubscribes and subscribes again while calls of the
  first listener are still posted gets its metadata overwritten with older metadata
  (`DataMatchesMetadata`).
- `Careless` and `bad`: data of a registered signal whose metadata has become unusable is put in
  a packet without a descriptor, outside any `try` (`FailsOnlyOnBadMetadata`).
- `Reoffer`: a client that withdraws a signal and offers it again makes `createAndAddSignal`
  throw on the I/O thread (`FailsOnlyOnClash`).
- `Portable`: every dimension of a structure's field is sent with the rule of the first one, and
  without a rule if that is not linear (`descriptor_to_metadata.cpp:75`); the parameters of linear
  rules lose their fractions (a delta of 0.5 arrives as 0); what a field or a dimension says of units and
  labels is not sent.
- Blocks of different lengths: a block goes with the domain packet that another signal's block of the
  same tick has made, although it has more or fewer samples, as only the offsets are compared
  (`ws_streaming.cpp:822`). Under a domain signal without a linear rule, it goes with whatever
  packet of that signal came last (`ws_streaming.cpp:839`). `DomainPacketOfTick` says nothing of either.
- Two calls that fill one configuration object: the slower one ends with the exception of `addProperty()`
  before it has dialed (`ws_streaming.cpp:285`), with a good capability, too (`AlreadyExists` in
  `FailureNamesCause` and `CapabilityConnects`). Calls that create devices have the mutex and do not
  meet this among themselves.
- A server that stops in the middle of a TLS handshake is reported as `AuthenticationFailed` when the
  connection is closed (`ws_streaming.cpp:216`).
- A configuration object that was used for a plain device has the plain default port afterwards,
  and a `daq.lts://` string without a port then dials it (`filled` in `PortAsTold`).
- A server on port 0 announces port 0; with a TLS port of 0, its TLS clients are listed as
  plain ones (`CapabilityConnects`, `ChannelAsAsked`).

The comment at `ws_streaming.cpp:111` says that the formed connection string must contain the
port; `formConnectionString` leaves a default port out, and the default of the `ws-streaming`
library is used (taken here to be that of `constants.h`).
And `ws_streaming.h:59` says `onAddSignal`/`onRemoveSignal` manage subscriptions; they are
empty.

### Fairness

`FairSpec` asks weak fairness of the timer handler, of serving posted requests, of the teardown
handler and of the join: one I/O thread runs every handler that is due (`run()` does not return
while work is pending) and no handler blocks. Nothing is asked of the device or of applications.
`FairSession` adds delivery of messages and a device that serves its queue, which is what
`FakeLtPeer` does. `FairDevice` asks that both threads go on when they can take the lock; nothing
forces an announcement or a removal. `FairSpec` of `ServerOutlet` asks weak fairness of what an
I/O thread is doing (`IoGoesOn`: it calls the handlers that are due, a handler gets the lock it
waits for and returns, and the thread ends when nothing is left), and strong fairness of what has
been posted to it (`IoPosted`): events of clients may come first, but what is posted has its place
in the queue, with finitely many of them in front. No client, application or block is asked for
anything, but openDAQ's lock of a block is taken to be released by who has it. `ClientConnection`
asks that a thread that waits for the mutex gets it when it stays free (`Lock`), that the
constructor goes on, and that a connection attempt is answered (`Goes`), by the host or by a
time-out of the operating system: the wait at `ws_streaming.cpp:207` has none. As no more than
`MaxCalls` calls are made, the mutex cannot be taken over and over by others, and weak fairness is
enough.

Deadlock is checked except where a bound ends every behaviour (`ClientOutlet_packets`,
`SignalPackets_data`, `ClientConnection_connect`: offers, ticks, calls); states where the
other programs may really stop have an explicit self-loop (`Destroyed`, `Rest`, `Gone`).

## 4. Proofs

Every safety property that a passing run checks is also proved:
for every number of signals, every set of references, any servers, clients, blocks, channels,
descriptors, domain signals, threads, strings, configurations and sessions, under the named
assumptions on constants.

### The streaming object

| Theorem | Module | Invariant it rests on |
|---|---|---|
| `TypeCorrect`, `FetchMatchesPublicationHolds` | `WsStreamingProofs` | `TypeInv` |
| `WireCountConservedHolds` | `WsStreamingProofs` | `TypeInv`, `WireInv` |
| `SweepArmedWhilePendingHolds`, `AckedIsSubscribedHolds` | `WsStreamingProofs` | `TypeInv` and the property itself |
| `DeferredOnlyOnUnpublishedHolds`, `LinkDroppedOnlyBySweepHolds`, `ImplementsCatalogueHolds`, `DomainLinksAcyclicHolds` | `WsStreamingProofs` | `TypeInv`, `LinksInv` |
| `HoldLastsFullPeriodHolds` | `WsStreamingProofs` | `TypeInv`, `HoldInv` |
| `DeferralLastsFullPeriodHolds` (usable metadata) | `WsStreamingProofs` | `TypeInv`, `LinksInv`, `DeferInv` |
| `AwaitingRetryIsDueHolds` (usable metadata) | `WsStreamingProofs` | `TypeInv` and the property itself |

**Types.** `TypeOK` bounds `sweeps` by 2 and `attempts` by 3, and neither is
inductive: the sweep adds one to the counter of an entry that is held or deferred. The
invariant is

    TypeInv == TypeOK /\ FetchMatchesPublication /\ WaitsBounded

`WaitsBounded` says that the counter of an entry still being counted (unpublished, or
held) is at most 1: at 2 the wait has ended, by publication or by release.
`FetchMatchesPublication` is needed for it, because only a published entry is held, and
publication resets the counter.

**Metadata.** The three metadata actions are brought into one form (`MetadataForm`,
`MetadataOf`), whose effect on every field is then a lemma (`MetadataEffects`); the later
proofs use that form only.

**Publication.** `Reached` stands for the recursion of `publishSignalEntry`. What the
proofs use of it: it contains its roots, is closed, is the least such set, everything in it
but the roots waited for something in it (`ReachedOn`), any group of signals in it without
a root has one that waited for a signal outside the group (`ReachedInOrder`: they were
published in some order), and the entries from which the sweep starts reach everything that
expired (`RootsSuffice`, by the first signal of the map's order that they would miss).

**Links.** `LinksInv` adds to `DeferredOnlyOnUnpublished` that the domain of a described entry
has an entry itself or is gone, that the link openDAQ was given leads to a registered or
formerly registered signal, and that unregistered signals have no link. Without the first
a hidden signal could be published while something was already deferred on it;
without the second a cycle could run through a signal that is registered later. From
`LinksInv` every handler is a step of `SignalCatalogue` or a stutter (`LinksStep`), so the
refinement holds, and acyclicity is proved of the catalogue's steps alone (`AcyclicStep`).

**Waits.** An entry whose wait the running timer will end has been waiting since that timer
was armed (`HoldInv`, `DeferInv`). `DeferInv` also needs that an entry neither described nor
published has its counter at zero, which unusable metadata breaks.

### A session with a device

| Theorem (`LtSessionProofs`) | Part of the invariant it rests on |
|---|---|
| `SessionIsClient` | `SessionTypes` |
| `PublishedWithDomainHolds` | `ClientInv`, `TimeUntouched`, `TimeInv`, `LinkInv` |
| `SettledServedIffWantedHolds`, `RequestsHonouredHolds`, `ReleaseClearOfAppsHolds` | all of it |

The proofs speak of any set of sessions: any number of ignored requests, of things the device
does on its own accord, of changes of mind, and both queues of any length. The
queues are described with three operators, each with its lemmas about the first message and about
what is sent behind the last: some message of a kind is there (`Has`), none comes behind one of
another kind (`NoneAfter`), or each has one of another kind in front of it (`Precedes`).

`SessionInv` starts with what is proved of the client (`ClientInv`: a step of a session is one of
`WsStreaming` or leaves it alone, `SessionStep`) and adds:

- `TimeUntouched`: the client does nothing about the time signal but describe it. It depends on
  `TimeInv`: an advertisement of the time signal would start a fetch, but comes only behind the
  messages that describe it.
- `TimeInv`: once the device has answered a subscription, the time signal is known, or the
  metadata of the value signal is on its way and a message that makes the connection know the time
  signal is in front of it; and the time metadata is there, remembered, on its way or on the delay
  timer. So a sweep that finds nothing in flight finds no value signal deferred on its time signal
  (`LinkStep`).
- `CalmInv`, for calm sessions. `CalmQueues` lists the four queues of requests there can be and the
  order of the answers; `CalmEnds` relates the subscription count to what is in flight and to what the
  device serves; `CalmRequests` says that an application's request meets the state it was
  made in. Each is needed for the others: a request is served in the state it was made in because
  no answer is in flight that would change `isSubscribed`, and there is none because
  the timer and applications wait.

What goes wrong in sessions that are not calm is listed with the findings (`timely`, `patient`).

### Packets and descriptors

`SignalPacketsProofs` first shows that the data path only adds to the handlers
(`PacketsKeepHandlers`: a behaviour of `SignalPackets` is one of `WsStreaming`), so that
`TypeInv` and `LinksInv` hold while data flows. Its invariant `PacketInv` adds to these:

- `DescriptorsInv`: the descriptor of an entry is the one conversion made of that on the device, a
  described entry names the domain signal of its metadata, and a published one is described
  unless its metadata was unusable. `FailsOnlyOnBadMetadataHolds` follows from it, and
  `DescriptorArrivesHolds` with `DescriptorRoundTrip`, the theorem about the two conversions
  for descriptors with any fields and dimensions (`WellFormed`, `Portable`). It goes from the types
  (`TypesInverse`) and rules (`RuleRoundTrip`, `DimensionRuleArrives`: whole parameters arrive) to
  fields (`FieldRoundTrip`).
- `LastInv`: the last packet has the present descriptor; one with an offset is a domain packet
  of a linear signal; and once a domain packet was made in this tick, it is the last. It needs
  that a rule stays linear on its way (`LinearAsOnDevice`): a linear signal sends no blocks of its
  own which would replace the shared packet. `DomainPacketOfTickHolds` follows: tick and offset of
  the domain packet are those of the block, for blocks of any lengths. It says nothing of the number of
  samples, which need not agree, and nothing of a domain signal without a linear rule.
- `ToldInv`: openDAQ was told the descriptors of whatever is published, and those of its domain
  signal if openDAQ knows that link. `PacketsAsAnnouncedHolds` follows with `LastInv`.

`NoneIsNothing` is assumed: the constant that stands for a missing attribute is not a number,
a rule, a descriptor or a packet.

### The pseudo-device

`MirrorsCatalogueHolds` assumes `EarlySignals = FALSE` and `Distinct`; the run
`WsStreamingDevice_early` shows what happens without the first, and the second says that no two
identifiers become the same local identifier. Its invariant (`DeviceInv`) says that before
the slots are connected there is nothing to mirror, and from then on the device differs from the
catalogue only by the slot that is waiting for the lock. `QuietOnceRemovedHolds` needs no
invariant: no action of the device changes its signals once it is removed.

### The server

`ServerOutletProofs` first shows that the blocks change nothing of the servers
(`OutletsKeepServers`: a behaviour of `ServerOutlet` is one of `LtServer`), and then
`CapabilityMatchesServerHolds` and `ListedAreConnectedHolds` for the servers alone, with
`ServerInv` (for a running server, the clients registered with it are connected to it, and
while the device is there they are the ones numbered and the ones listed).

`NestedMatchesClientsHolds` rests on `NestedInv`. The property speaks of moments without handlers;
`BlocksInv` says what holds between them: an attached block has nested blocks for the clients of
its server, but for those of whom the I/O thread has still to tell it. `CallsInv` says what the
calls that are owed or waiting may be: a thread does not take the next event before they have
returned, so a client that has just connected is not also told to have gone, and what an attached
block will be told is what has happened.

`RemovalIsFinalHolds` assumes `RemoveEarly = FALSE`, as a posted `attach()` would connect
the handlers of a removed block. Its invariant is that a removed block has no handlers connected
and that no attachment of it is posted to a server whose thread still runs (`GoneInv`); attachments are
posted only to servers that have been built (`PostedInv`), and a server does not come back
(`PhasesInOrder`). So no event reaches it, and when the calls that were under way have returned, nothing
changes it. That no nested block is left at all (`RemovedIsDetached`) is false, see the findings.
`OutletTypeCorrect` is type correctness of the composition.

### The server's signals

`ServerSignalsProofs` has two invariants over any component tree. `TreeInv`: the local signals are
in the tree and described, and every domain signal is in the tree, or is none. The
lemmas about `Chain` carry `AdvertisedInStepHolds`: the set is closed (`ChainClosed`) and within any
closed set that holds the signal (`ChainLeast`), so the chain of a member is within it
(`ChainOfMember`), and a domain signal is found whenever its user is (`ScanFindsWanted`). No
induction over the length of chains is needed.

`CallsInv` says of every posted call for data that the metadata the signal has when it runs is the
call's own: it is that of the last `set_metadata` before it in the queue or, if there is none, that
of the signal now (`InForce`). The last of them all is what the listener last announced. One call
posted at the end keeps it (`PostOne`), so do a call that runs (`RunKeepsCalls`) and a rescan, which
leaves the queue as long as it was and takes the names of the gone signals out (`RescanKeepsCalls`).
A subscription keeps it only if no calls of a former listener are posted: `Orderly` is an assumption
of `DataMatchesMetadataHolds` and `MetadataCatchesUpHolds`, and the hazard at
`ws_streaming_listener.cpp:55` is what happens without it.

### Connecting

`ClientConnectionProofs` follows a call from its beginning to its end, while other calls add properties to
the same configuration objects and the server stops and another starts. `ConnectionInv` consists of

- `ObjectsInv`: an object is what the application gave and, where it gave nothing, defaults; adding one more
  default keeps this (`FilledStays`). So the secrets of TLS that a call ends up with are those that
  follow from what the application gave (`SettingsStay`), but the port may be the default of the
  other channel.
- `CapabilityInv`: a capability leads to a channel of the server that announced it, as long as
  that server is up. Completing one capability with another keeps this.
- `CallsInv`: the port that a call reports is the one it dials, although the formed string may
  leave it out (`FormedAsTold`), and is that of the string, the object or the channel, unless the object
  was filled by a call for the other channel when this one began (`ToldByObject`). An object keeps a port it
  has, so the exception is still visible when the call ends (`CallStays`). A call that shakes hands
  (`Shaking`) has met listeners of one server at the port it dialed; if that is not the server that
  runs now, it has stopped for good, as starts are counted.
- `LockInv`: only the thread with the mutex is about to use the index, and devices have smaller ones.
- `RaceInv`: of two calls that are filling one object, one creates a streaming, because those that create
  devices have the mutex. The `AlreadyExists` of `FailureNamesCause` depends on it.

The properties of a call that ends follow step by step: `BeginEnds`, `ConstructEnds`,
`AddMissingEnds`, `DialEnds`, `AnswerEnds`. `DialEnds` needs that what an exact capability names
is a port on which its server listens (`AnnouncedListens`), so that a call is not refused while
the server runs. `AnswerEnds` needs that a server has one listener at a port (`OneListener`),
whose port tells its channel (`ListenerProtocol`), what a handshake may end with
(`HandshakeMeets`) and that it succeeds with the secrets the channel needs (`HandshakeSucceeds`);
when the server has stopped meanwhile, a code of a closed connection only makes the outcomes that
the property allows then. Assumed of the constants: ports of `constants.h` and of servers are
within the bounds that the configuration's properties have (`PortAssumption`, `ServerAssumption`),
and ports in strings are numbers.

### The client-side outlet block

`ClientOutletProofs` has one invariant, `OutletInv`. `SignalsInv`: an openDAQ signal is that of
one remote signal, is named after it, and has the domain signal that the packets go to.
`EntriesInv`: the handlers are those of the signals offered, with distinct identifiers, and
whatever was described in order has its signal. The lemma `DescribedIsMade` is the heart of
`BlocksArriveHolds`: metadata that comes after that of the domain signal finds the entry of the
domain signal, and that entry has a signal. `PacketsInv` bounds the blocks that packets belong to,
so that a new block's packets are new and last. `OutletIsCatalogueHolds` is the
refinement: making a signal registers it, and every other step is a stutter (`CatalogueStep`).

### Only model-checked

- Liveness: `WaitsEnd`, `DestructorReturns`, `RemovalReturns`, `StopsEnd`, `ValuePublished`,
  `CallsReturn`. Fairness is out of the prover's reach.
- `TakeoverIsServed` does not hold (`LtSession_deadHold`).

## 5. Plan

Every component is modelled, and the theorems above cover the client's streaming object, its data
path and its sessions, the pseudo-device, the server with its signals, both outlet blocks, and
connecting. The order was: the streaming object with its theorems, the session with a device, the
pseudo-device, the server, and then the client-side block, packets, and the two ends of a
connection.

What could come next:

1. Registration that fails (`ws_streaming.cpp:712`): `publishSignalEntry` when openDAQ refuses a
   signal, and the later removal of such a signal.
2. Chains of hidden domain signals of any length in `WsStreaming`.
3. `ClientOutlet` composed with `ServerOutlet`: the nested blocks of several clients share one
   I/O thread and nothing else, so each is modelled alone.

## 6. Not modelled

- The data race of the server's `rescan`, which runs on the thread that raised the core event,
  with its I/O thread: a rescan is one action that no handler overlaps. Reading a map while
  another thread changes it has no outcomes a model could list.
- The bytes of samples and metadata, sample offsets and scaling, the wording of JSON.
- Parsing of connection strings and addresses: strings are records of protocol, host and port.
- Registration that fails when openDAQ throws (`ws_streaming.cpp:712`): what it would throw
  depends on the context of the application.
- A nested block whose client's address cannot be read (`ws_streaming_client_outlet_fb.cpp:87`).
- A port that another program of the host listens on, and a call that dials the control port.
- A server that is found by an outlet block and destroyed before the block attaches: the
  model keeps the stopped server, as the block's reference does.
- Hidden domain signals that name a further hidden domain signal: `MetadataFindsDescribed`
  discovers one level.
- Factories of modules, types and default configurations: they have no state.
- Locks that openDAQ takes while a handler of an outlet block runs, beyond the configuration lock of the
  block itself: a thread that holds one of them while it stops the server is not in the model.
- The order of the library calls within one rescan: domain signals are registered first in the
  model, and the outcome is checked (every link leads to a registered signal), not the order itself.
- Packets on the acquisition thread of the server that were made with an older descriptor than the signal
  has, or with one after the next (`Acquire` in `ServerSignals`).
- The `ws-streaming` library is modelled from its use (`RequestsFor`, `OnlyRemembered`, the error
  codes of `Handshake` and `Codes`), openDAQ likewise. The library's default port is taken to be that of
  `constants.h`.
