---------------------------- MODULE ClientOutlet ----------------------------
(***************************************************************************)
(* The nested function block of ws_streaming_client_outlet_fb.cpp together *)
(* with its signal handlers (remote_signal_handler.cpp): every signal that *)
(* one client of the server offers is subscribed to, an openDAQ signal is  *)
(* made for it when its metadata comes, and its data is sent on there.     *)
(*                                                                         *)
(* A remote signal is an object of the connection, made when the client    *)
(* offers an identifier.  Its handler is kept by the slots that attach()   *)
(* connects, so it outlives the entry of _handlers.  The library announces *)
(* an object once: the entry's pair of signals and the handler's pair are  *)
(* assigned together, and are one pair of variables here.  Everything runs *)
(* on the I/O thread of the server, in the order in which the client sends.*)
(***************************************************************************)
EXTENDS Naturals, Sequences, FiniteSets

CONSTANTS
  Ids,          \* identifiers of signals
  SafeId,       \* the local identifier made of each ('/' becomes '#')
  Tables,       \* the table identifiers that the metadata of each may carry
  NoId,         \* no identifier, no signal
  Unusable,     \* metadata from which no descriptor can be made
  Reoffer,      \* TRUE: an identifier that was withdrawn may be offered again
  MaxOffers,    \* remote signals of a connection
  MaxBlocks     \* data blocks of a connection

Remotes == 1 .. MaxOffers
Locals == {SafeId[i] : i \in Ids}

ASSUME OutletAssumption ==
  /\ NoId \notin Ids /\ NoId \notin Locals /\ Unusable \notin Ids \cup {NoId}
  /\ Tables \in [Ids -> SUBSET Ids]
  /\ Reoffer \in BOOLEAN /\ MaxOffers \in Nat /\ MaxBlocks \in Nat

VARIABLES
  link,       \* "Open", "Removed" (the block) or "Closed" (the connection)
  idOf,       \* the identifier of each remote signal, NoId until it is offered
  live,       \* remote signals the client offers
  handlers,   \* _handlers
  signal,     \* entry.signal and _signal: local identifier, NoId if unassigned
  domain,     \* entry.domainSignal and _domainSignal
  parent,     \* openDAQ signals that exist: local identifier -> domain signal
  packets,    \* packets sent on each openDAQ signal
  failed,     \* an exception has left the I/O thread and ended the program
  described,  \* signals the client has described, each after its domain signal
  blocks      \* number of blocks so far, and those of each signal since then

outletVars == <<link, idOf, live, handlers, signal, domain, parent, failed>>
vars == <<outletVars, packets, described, blocks>>

Init ==
  /\ link = "Open" /\ failed = FALSE
  /\ idOf = [r \in Remotes |-> NoId]
  /\ live = {} /\ handlers = {} /\ described = {}
  /\ signal = [r \in Remotes |-> NoId] /\ domain = [r \in Remotes |-> NoId]
  /\ parent = [l \in {} |-> NoId]
  /\ packets = [l \in Locals |-> <<>>]
  /\ blocks = [count |-> 0, sent |-> [r \in Remotes |-> {}]]

-----------------------------------------------------------------------------
(* The catalogue of the client.                                            *)

\* The client offers a signal.  A block that was removed does not see it.
Offer(r, i) ==
  /\ link # "Closed" /\ idOf[r] = NoId
  /\ \A q \in Remotes : q < r => idOf[q] # NoId
  /\ \A q \in Remotes : idOf[q] = i => Reoffer /\ q \notin live
  /\ idOf' = [idOf EXCEPT ![r] = i]
  /\ live' = live \cup {r}
  /\ handlers' = IF link = "Open" THEN handlers \cup {r} ELSE handlers
  /\ UNCHANGED <<link, signal, domain, parent, failed, packets, described, blocks>>

\* The client withdraws a signal.  Only the entry goes; the openDAQ signal stays.
Withdraw(r) ==
  /\ link # "Closed" /\ r \in live
  /\ live' = live \ {r}
  /\ handlers' = IF link = "Open" THEN handlers \ {r} ELSE handlers
  /\ UNCHANGED <<link, idOf, signal, domain, parent, failed, packets, described, blocks>>

\* removed() disconnects the block from the catalogue, not its handlers from
\* the signals.
Remove ==
  /\ link = "Open" /\ link' = "Removed"
  /\ UNCHANGED <<idOf, live, handlers, signal, domain, parent, failed, packets, described, blocks>>

\* onConnectionDisconnected(), after which nothing arrives.
Disconnect ==
  /\ link # "Closed" /\ link' = "Closed" /\ live' = {}
  /\ UNCHANGED <<idOf, handlers, signal, domain, parent, failed, packets, described, blocks>>

-----------------------------------------------------------------------------
(* Metadata: onMetadataChanged() and onSignalReady().  A signal is         *)
(* subscribed to, and gets metadata and data, if it has a handler.         *)

Heard(r) == link # "Closed" /\ r \in live \cap handlers

\* Entries whose signal has the identifier.
Named(i) == {h \in handlers : idOf[h] = i}

\* Mistake: the domain signal is taken to exist.
DomainForAny(r, t) == IF t = idOf[r] THEN NoId ELSE SafeId[t]

\* The domain signal for a table: the openDAQ signal of the entry it names.
DomainFor(r, t) ==
  IF t = idOf[r] \/ Named(t) = {} THEN NoId ELSE signal[CHOOSE h \in Named(t) : TRUE]

\* Mistake: a signal is made again when its metadata changes.
NothingMadeOnce(r, t) ==
  \/ t = Unusable
  \/ t # idOf[r] /\ DomainFor(r, t) = NoId

\* Mistake: the table is looked up even if it is the signal's own.
NothingMadeAlone(r, t) ==
  \/ signal[r] # NoId \/ t = Unusable
  \/ DomainFor(r, t) = NoId

\* No signal is made: there is one already, or no descriptor, or the domain
\* signal has not been made yet.
NothingMade(r, t) ==
  \/ signal[r] # NoId \/ t = Unusable
  \/ t # idOf[r] /\ DomainFor(r, t) = NoId

\* createAndAddSignal() and setDomainSignal().
MakeSignal(r, t) ==
  LET own == SafeId[idOf[r]] IN
  /\ own \notin DOMAIN parent
  /\ signal' = [signal EXCEPT ![r] = own]
  /\ domain' = [domain EXCEPT ![r] = DomainFor(r, t)]
  /\ parent' = [l \in DOMAIN parent \cup {own} |->
                  IF l = own THEN DomainFor(r, t) ELSE parent[l]]
  /\ UNCHANGED failed

\* createAndAddSignal() throws: the local identifier is taken.
MakeFails(r) ==
  /\ SafeId[idOf[r]] \in DOMAIN parent
  /\ failed' = TRUE /\ UNCHANGED <<signal, domain, parent>>

\* The metadata can be used, and the client has described its domain signal.
InOrder(r, t) ==
  \/ t = idOf[r]
  \/ \E q \in live \cap described : idOf[q] = t

Metadata(r, t) ==
  /\ Heard(r) /\ (t = Unusable \/ t \in Tables[idOf[r]])
  /\ described' = IF InOrder(r, t) THEN described \cup {r} ELSE described
  /\ IF NothingMade(r, t) THEN UNCHANGED <<signal, domain, parent, failed>>
     ELSE MakeSignal(r, t) \/ MakeFails(r)
  /\ UNCHANGED <<link, idOf, live, handlers, packets, blocks>>

-----------------------------------------------------------------------------
(* Data: onDataReceived().                                                 *)

\* Mistake: the domain packet is not sent.
SentBare(r, n) ==
  IF signal[r] = NoId THEN packets
  ELSE [packets EXCEPT ![signal[r]] =
          Append(@, [of |-> r, at |-> n, samples |-> IF domain[r] = NoId THEN 0 ELSE 1])]

\* The packets of a block: with a domain signal, a domain packet and a packet
\* of values; without one, a packet without samples.
Sent(r, n) ==
  IF signal[r] = NoId THEN packets
  ELSE IF domain[r] = NoId
  THEN [packets EXCEPT ![signal[r]] = Append(@, [of |-> r, at |-> n, samples |-> 0])]
  ELSE [packets EXCEPT ![domain[r]] = Append(@, [of |-> r, at |-> n, samples |-> 1]),
                       ![signal[r]] = Append(@, [of |-> r, at |-> n, samples |-> 1])]

Data(r) ==
  LET n == blocks.count + 1 IN
  /\ Heard(r) /\ n <= MaxBlocks
  /\ packets' = Sent(r, n)
  /\ blocks' = [count |-> n,
                sent |-> IF r \in described THEN [blocks.sent EXCEPT ![r] = @ \cup {n}]
                         ELSE blocks.sent]
  /\ UNCHANGED <<outletVars, described>>

-----------------------------------------------------------------------------
Next ==
  /\ ~failed
  /\ \/ Remove \/ Disconnect
     \/ \E r \in Remotes :
          \/ \E i \in Ids : Offer(r, i)
          \/ Withdraw(r) \/ Data(r)
          \/ \E t \in Ids \cup {Unusable} : Metadata(r, t)

Spec == Init /\ [][Next]_vars

-----------------------------------------------------------------------------
(* Properties.                                                             *)

Packet == [of : Remotes, at : 1 .. MaxBlocks, samples : {0, 1}]

\* The state is well formed.
TypeOK ==
  /\ link \in {"Open", "Removed", "Closed"} /\ failed \in BOOLEAN
  /\ idOf \in [Remotes -> Ids \cup {NoId}]
  /\ live \subseteq Remotes /\ handlers \subseteq Remotes /\ described \subseteq Remotes
  /\ \A r \in live \cup handlers \cup described : idOf[r] # NoId
  /\ signal \in [Remotes -> Locals \cup {NoId}]
  /\ domain \in [Remotes -> Locals \cup {NoId}]
  /\ DOMAIN parent \subseteq Locals /\ parent \in [DOMAIN parent -> Locals \cup {NoId}]
  /\ packets \in [Locals -> Seq(Packet)]
  /\ blocks \in [count : 0 .. MaxBlocks, sent : [Remotes -> SUBSET (1 .. MaxBlocks)]]

\* Packets of a remote signal's block on an openDAQ signal.
PacketsOf(l, r, n) == {k \in DOMAIN packets[l] : packets[l][k].of = r /\ packets[l][k].at = n}

\* ws_streaming_client_outlet_fb.h: "Each WebSocket Streaming signal published by
\* the client causes the function block instance to create a corresponding openDAQ
\* signal", and data arriving "causes corresponding data packets to be transmitted".
\* Every block of a signal that was described after its domain signal is sent on
\* exactly once, whatever else the client offers, withdraws and describes.
BlocksArrive ==
  ~failed => \A r \in described : \A n \in blocks.sent[r] :
    signal[r] # NoId /\ Cardinality(PacketsOf(signal[r], r, n)) = 1

\* Packets of a remote signal on an openDAQ signal.
From(l, r) == {packets[l][k] : k \in {j \in DOMAIN packets[l] : packets[l][j].of = r}}

\* A packet of values comes with its domain packet: the domain signal that openDAQ
\* links the signal to has sent one for the same block with as many samples; and
\* every signal sends its packets in the order of the blocks.
PacketsPaired ==
  /\ \A r \in Remotes : signal[r] # NoId /\ parent[signal[r]] # NoId =>
       From(parent[signal[r]], r) = From(signal[r], r)
  /\ \A l \in Locals : \A j, k \in DOMAIN packets[l] :
       j < k => packets[l][j].at < packets[l][k].at

\* An exception leaves the I/O thread only when two remote signals need the same
\* local identifier: an identifier that is offered again, or two that differ in
\* '/' and '#' only.
FailsOnlyOnClash ==
  failed => \E q, r \in Remotes : q # r /\ idOf[q] # NoId /\ idOf[r] # NoId
                                  /\ SafeId[idOf[q]] = SafeId[idOf[r]]

\* What openDAQ sees is a catalogue in which nothing is ever withdrawn.
Catalogue == INSTANCE SignalCatalogue WITH
  Signals <- Locals, NoParent <- NoId, Former <- NoId,
  catalogue <- DOMAIN parent,
  parentOf <- [l \in Locals |-> IF l \in DOMAIN parent THEN parent[l] ELSE NoId],
  forwarded <- {}

\* Signals enter openDAQ's catalogue after their domain signals and keep them.
OutletIsCatalogue == Catalogue!CatalogueSpec
=============================================================================
