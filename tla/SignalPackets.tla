--------------------------- MODULE SignalPackets ---------------------------
(***************************************************************************)
(* The data path of class WsStreaming: how the blocks a device sends become*)
(* packets of openDAQ signals, while the handlers of WsStreaming.tla fetch,*)
(* publish and subscribe the signals and their metadata changes.  The time *)
(* of a block is not sent: packets of the domain signal are made when a    *)
(* value signal's block arrives, and signals with the same domain signal   *)
(* share them.                                                             *)
(*                                                                         *)
(* The device is an openDAQ server.  It advertises all its signals, does   *)
(* not withdraw them, and sends the blocks of a clock: at every tick each  *)
(* signal sends at most one block, of any length, whatever the length of   *)
(* the others.  Signals with a linear rule, such as most domain signals,   *)
(* send none.                                                              *)
(* The sweep timer is left to WsStreaming.tla: answers come in time.       *)
(***************************************************************************)
EXTENDS WsStreaming, MetadataConversion

CONSTANTS
  TableOfSignal,  \* the domain signal that the metadata of each signal names
  Descriptors,    \* the descriptors a signal may have on the device
  Careless,       \* signals whose metadata nobody can use now and then
  BlockSizes,     \* the numbers of samples that blocks of each signal may have
  MaxBlocks       \* bound: ticks of the device's clock

ASSUME PacketAssumption ==
  /\ TableOfSignal \in [Signal -> Signal \cup {NoDomain}]
  /\ \A s \in Signal : TableOfSignal[s] # NoDomain => <<s, TableOfSignal[s]>> \in References
  /\ ~Readvertise /\ ~Destroyable
  /\ Careless \subseteq Signal /\ MaxBlocks \in Nat
  /\ BlockSizes \in [Signal -> SUBSET Nat]

VARIABLES
  origin,      \* the descriptor on the device that the metadata was made of
  descriptor,  \* descriptor of each entry, None if not assigned
  last,        \* lastPacket
  told,        \* the value and domain descriptors openDAQ was last told of
  failed,      \* an exception has left the I/O thread and ended the program
  now,         \* the device's clock
  sent,        \* the tick of the last block of each signal
  made,        \* history: domain packets made of a signal for this tick
  bad          \* history: signals whose metadata was unusable once published

packetVars == <<origin, descriptor, last, told, failed>>
deviceVars == <<now, sent>>
historyVars == <<made, bad>>
allVars == <<vars, packetVars, deviceVars, historyVars>>

PacketInit ==
  /\ Init
  /\ origin = [s \in Signal |-> None] /\ descriptor = [s \in Signal |-> None]
  /\ last = [s \in Signal |-> None]
  /\ told = [s \in Signal |-> [value |-> None, domain |-> None]]
  /\ now = 0 /\ sent = [s \in Signal |-> 0]
  /\ made = [s \in Signal |-> 0] /\ bad = {} /\ failed = FALSE

-----------------------------------------------------------------------------
(* What openDAQ is told.                                                   *)

\* Mistake: signals are not told of changes of their domain signal.
Dependents_None(s) == {}

\* Published signals that use s as their domain.
Dependents(s) == {x \in published \ {s} : domain'[x] = s}

\* emitDescriptorChangedEvents(s)
Emitted(s) ==
  [x \in Signal |->
     CASE x = s -> [told[x] EXCEPT !.value = descriptor'[s]]
       [] x \in Dependents(s) -> [told[x] EXCEPT !.domain = descriptor'[s]]
       [] OTHER -> told[x]]

\* Publication: onSignalAvailable() with the signal, its domain signal and its
\* descriptor.
Introduced ==
  [x \in Signal |->
     IF x \in published' \ published
     THEN [value |-> descriptor'[x],
           domain |-> IF parent'[x] \in Signal THEN descriptor'[parent'[x]] ELSE None]
     ELSE told[x]]

-----------------------------------------------------------------------------
(* Handlers of WsStreaming.tla, with what they do to packets.              *)

\* entry->lastPacket = nullptr
LastWithout(s) == [last EXCEPT ![s] = None]

\* A descriptor of the device's, made metadata and a descriptor again.
Received(s, d) ==
  LET domainId == IF TableOfSignal[s] = NoDomain THEN None ELSE TableOfSignal[s]
  IN  ToDescriptor(ToMetadata(d, s, domainId))

\* onRemoteSignalMetadataChanged()
MetadataChanged(s) ==
  /\ Metadata(s, TableOfSignal[s])
  /\ \E d \in Descriptors[s] :
       /\ origin' = [origin EXCEPT ![s] = d]
       /\ descriptor' = [descriptor EXCEPT ![s] = Received(s, d)]
  /\ last' = LastWithout(s)
  /\ told' = IF s \in published THEN Emitted(s) ELSE Introduced
  /\ made' = [made EXCEPT ![s] = 0]
  /\ UNCHANGED <<failed, deviceVars, bad>>

MetadataUnusable(s) ==
  /\ s \in Careless \cap published /\ bad = {}
  /\ MetadataBad(s)
  /\ origin' = [origin EXCEPT ![s] = None]
  /\ descriptor' = [descriptor EXCEPT ![s] = None]
  /\ last' = LastWithout(s)
  /\ made' = [made EXCEPT ![s] = 0]
  /\ bad' = {s}
  /\ UNCHANGED <<told, failed, deviceVars>>

\* A subscription that takes over the one of the fetch repeats the descriptor.
TakeOver(s) ==
  /\ SubscribeTakesOver(s)
  /\ UNCHANGED <<origin, descriptor, last, failed, deviceVars, historyVars>>
  /\ told' = IF s \in described THEN Emitted(s) ELSE told

\* A client's first message offers all signals of the device, in their order.
Advertised(s) == AvailableFetch(s) /\ \A t \in Signal : t < s => t \in known

\* The device confirms a subscription, and its end when it has been asked to.
Confirmed(s) == RemoteSubscribed(s) /\ wire[s] > 0
Ended(s) == RemoteUnsubscribed(s) /\ wire[s] <= 0

\* The other handlers publish signals or none.
OtherHandler ==
  /\ \/ \E s \in Signal :
          \/ Advertised(s) \/ Confirmed(s) \/ Ended(s)
          \/ SubscribeRefused(s) \/ SubscribeSent(s) \/ UnsubscribeServed(s)
     \/ Application
  /\ UNCHANGED <<origin, descriptor, last, failed, deviceVars, historyVars>>
  /\ told' = Introduced

-----------------------------------------------------------------------------
(* Data: onRemoteSignalDataReceived().                                     *)

Linear(d) == d # None /\ d.rule.kind = "Linear"

\* Mistake: a domain packet is made for the first block only.
NeedsDomainPacket_First(d) == Linear(descriptor[d]) /\ last[d] = None

\* The last domain packet is not that of this block.
NeedsDomainPacket(d) ==
  /\ Linear(descriptor[d])
  /\ \/ last[d] = None
     \/ last[d].offset = None
     \/ last[d].offset # now

\* Packets: the offset is None unless the packet was made with one; `tick` is
\* the block the samples belong to.
Packet(desc, offset, size, dom) ==
  [descriptor |-> desc, offset |-> offset, tick |-> now, samples |-> size, domain |-> dom]

\* The domain packet of a block of s: a new one, as long as the block, or the last
\* of its domain signal, however long that is.
HasDomain(s) == domain[s] \in Signal /\ descriptor[domain[s]] # None
DomainPacket(s, size) ==
  IF ~HasDomain(s) THEN None
  ELSE IF NeedsDomainPacket(domain[s])
       THEN Packet(descriptor[domain[s]], now, size, None) ELSE last[domain[s]]

\* Mistake: data is taken for signals whose fetch subscription brings it.
Forwarded_Fetched(s) == s \in subscribed \/ fetch[s] \in {"Fetching", "Held"}

\* Data is dropped unless the signal is subscribed.
Forwarded(s) == s \in subscribed

\* A packet cannot be made without a descriptor: the exception leaves the slot.
DataReceived(s, size) ==
  LET new == HasDomain(s) /\ NeedsDomainPacket(domain[s]) IN
  /\ Connected /\ s \in known
  /\ sent[s] < now /\ ~Linear(origin[s])
  /\ sent' = [sent EXCEPT ![s] = now]
  /\ IF Forwarded(s)
     THEN /\ last' = [x \in Signal |->
               CASE x = s /\ descriptor[s] # None ->
                     Packet(descriptor[s], None, size, DomainPacket(s, size))
                 [] x = domain[s] /\ new -> DomainPacket(s, size)
                 [] OTHER -> last[x]]
          /\ made' = IF new THEN [made EXCEPT ![domain[s]] = @ + 1] ELSE made
          /\ failed' = (descriptor[s] = None)
     ELSE UNCHANGED <<last, made, failed>>
  /\ UNCHANGED <<vars, origin, descriptor, told, now, bad>>

\* The device's clock.
Tick ==
  /\ now < MaxBlocks /\ subscribed # {} /\ now' = now + 1
  /\ made' = [s \in Signal |-> 0]
  /\ UNCHANGED <<vars, packetVars, sent, bad>>

-----------------------------------------------------------------------------
PacketNext ==
  /\ ~failed
  /\ \/ Tick \/ OtherHandler
     \/ \E s \in Signal :
          \/ MetadataChanged(s) \/ MetadataUnusable(s) \/ TakeOver(s)
          \/ \E size \in BlockSizes[s] : DataReceived(s, size)

PacketSpec == PacketInit /\ [][PacketNext]_allVars

-----------------------------------------------------------------------------
(* Properties.                                                             *)

\* The time of a block is its own: where the domain signal has a linear rule, a
\* packet goes with a domain packet made for its own tick, also when it was made
\* for another signal's block; and the domain signal sends one packet for a tick,
\* however many signals share it, until its own metadata changes.  (Nothing is said
\* of the length of the domain packet, which is that of the block it was made for,
\* nor of a domain signal with an explicit rule: its packets come off the wire, and
\* a block goes with the last that came.)
DomainPacketOfTick ==
  /\ \A s \in Signal :
       last[s] # None /\ last[s].domain # None /\ Linear(last[s].domain.descriptor) =>
         /\ last[s].domain.tick = last[s].tick
         /\ last[s].domain.offset = last[s].tick
  /\ \A d \in Signal : made[d] <= 1

\* A reader knows how to read what it gets: a packet has the descriptor openDAQ
\* was last told of, and so has its domain packet if openDAQ was told of the
\* domain signal.  (A signal whose metadata is unusable for a while misses the
\* changes of its domain signal.)
PacketsAsAnnounced ==
  [][\A s \in Signal :
       sent'[s] # sent[s] /\ last'[s] # last[s] =>
         /\ last'[s].descriptor = told[s].value
         /\ last'[s].domain # None /\ parent[s] = domain[s] /\ s \notin bad
              => last'[s].domain.descriptor = told[s].domain]_allVars

\* Data ends the program only if the device has sent metadata nobody can use for
\* a signal that is registered with openDAQ.
FailsOnlyOnBadMetadata == failed => \E s \in bad : descriptor[s] = None

\* A descriptor the wire can carry arrives as it was on the device.
DescriptorArrives ==
  \A s \in Signal : origin[s] # None /\ Portable(origin[s]) => descriptor[s] = origin[s]
=============================================================================
