--------------------------- MODULE ServerSignals ---------------------------
(***************************************************************************)
(* What a WsStreamingServer advertises and streams.  The application       *)
(* changes the component tree; core events make the server rescan it and   *)
(* register local signals, domain signals first.  When a client subscribes *)
(* one, the I/O thread builds a listener, which takes the signal's packets *)
(* on the acquisition thread and posts what they mean to the I/O thread:   *)
(* new metadata, and data.                                                 *)
(*                                                                         *)
(* A rescan runs on the thread that raised the core event.  It is one      *)
(* action, and does not overlap a handler of the I/O thread.  Everything   *)
(* else of the two threads interleaves, also between the two parts of the  *)
(* subscription handler.                                                   *)
(***************************************************************************)
EXTENDS Integers, Sequences

CONSTANTS
  N,              \* signals are 1..N, in the order getItems() lists them
  NoDomain,       \* no domain signal
  NoSignal,       \* no subscription handler is running; a signal object that has gone
  Subscribable,   \* signals clients subscribe
  MaxDescriptor,  \* bound: how many descriptors a signal may have, one by one
  PostBound,      \* bound: posted calls not yet run
  Orderly         \* TRUE: nobody subscribes a signal while calls for it wait

Signal == 1 .. N
Descriptor == 0 .. MaxDescriptor   \* 0: not assigned

ASSUME SignalAssumption ==
  /\ N \in Nat \ {0} /\ {NoDomain, NoSignal} \cap Signal = {}
  /\ Subscribable \subseteq Signal
ASSUME BoundAssumption ==
  {MaxDescriptor, PostBound} \subseteq Nat \ {0} /\ Orderly \in BOOLEAN

VARIABLES
  tree,         \* signals that are in the component tree
  descriptor,   \* their descriptors
  domainOf,     \* their domain signals
  unnoticed,    \* some signal got its first descriptor after the last rescan
  local,        \* keys of _localSignals
  linked,       \* StreamableSignal::domainSignal
  metadata,     \* the descriptor a local signal's metadata was made from
  listening,    \* signals with a listener
  starting,     \* the signal whose subscription handler is between its parts
  last,         \* _lastDescriptor of each listener
  posted        \* calls posted to the executor

treeVars == <<tree, descriptor, domainOf, unnoticed>>
serverVars == <<local, linked>>
streamVars == <<metadata, listening, starting, last, posted>>
vars == <<treeVars, serverVars, streamVars>>

Call == [kind : {"set_metadata", "publish_data"}, signal : Signal \cup {NoSignal},
         descriptor : Descriptor]

TypeOK ==
  /\ tree \subseteq Signal /\ local \subseteq Signal
  /\ descriptor \in [Signal -> Descriptor]
  /\ metadata \in [Signal -> Descriptor] /\ last \in [Signal -> Descriptor]
  /\ domainOf \in [Signal -> Signal \cup {NoDomain}]
  /\ linked \in [Signal -> Signal \cup {NoDomain}]
  /\ unnoticed \in BOOLEAN
  /\ listening \subseteq local
  /\ starting \in listening \cup {NoSignal}
  /\ posted \in Seq(Call)

Init ==
  /\ tree = {} /\ local = {} /\ listening = {} /\ posted = <<>>
  /\ descriptor = [s \in Signal |-> 0] /\ metadata = descriptor /\ last = descriptor
  /\ domainOf = [s \in Signal |-> NoDomain] /\ linked = domainOf
  /\ unnoticed = FALSE /\ starting = NoSignal

-----------------------------------------------------------------------------
(* The rescan.                                                             *)

\* A signal, its domain signal, the domain signal of that one, and so on: the
\* signals for which createListener(s) calls itself.
Chain(s, dom) ==
  LET closed == {T \in SUBSET Signal :
                   s \in T /\ \A t \in T : dom[t] \in T \cup {NoDomain}}
  IN  {u \in Signal : \A T \in closed : u \in T}

Chains(dom) == [s \in Signal |-> Chain(s, dom)]

Complete(s, desc, chain) == \A t \in chain[s] : desc[t] # 0

\* createListener(s) begins with the domain signal.  A signal that has no
\* descriptor throws, and so do those that led to it.
Registered(s, desc, chain) == {u \in chain[s] : Complete(u, desc, chain)}

\* The signals rescan() comes to: an exception ends it.
Visited(present, desc, chain) ==
  LET items == {s \in present : desc[s] # 0}
  IN  {s \in items : \A r \in items : r < s => Complete(r, desc, chain)}

\* The local signals whose signals have not been removed.
Remaining(present) == local \cap present

\* Mistake: the domain signal of a local signal is not looked at again.
Relinked_Never(s, dom) == FALSE

\* The signal has acquired another domain signal since it was registered.
Relinked(s, dom) == linked[s] # dom[s]

\* A listener goes with its local signal.
ListeningAfter(gone) == listening \ gone

\* The calls posted for it keep the object they are for, which is no longer the
\* signal's, and what they do to it does not matter.
CallForGone == [kind |-> "publish_data", signal |-> NoSignal, descriptor |-> 0]
PostedAfter(gone) ==
  [i \in DOMAIN posted |-> IF posted[i].signal \in gone THEN CallForGone ELSE posted[i]]

\* What a rescan comes to: the signals it registers, and the local signals that go,
\* among them those that are registered anew.
Scan(present, desc, dom) ==
  LET chain == Chains(dom)
      found == UNION {Registered(s, desc, chain) : s \in Visited(present, desc, chain)}
      new == {s \in found : s \notin Remaining(present) \/ Relinked(s, dom)}
  IN  [new |-> new, gone |-> (local \ Remaining(present)) \cup new]

\* rescan(), of the component tree the core event announces.  (The scan is named by
\* a quantifier so that TLC evaluates it once.)
Rescan(present, desc, dom) ==
  /\ starting = NoSignal
  /\ \E scan \in {Scan(present, desc, dom)} :
       /\ local' = Remaining(present) \cup scan.new
       /\ linked' = [s \in Signal |-> IF s \in scan.new THEN dom[s]
                                      ELSE IF s \in scan.gone THEN NoDomain ELSE linked[s]]
       /\ metadata' = [s \in Signal |-> IF s \in scan.new THEN desc[s]
                                        ELSE IF s \in scan.gone THEN 0 ELSE metadata[s]]
       /\ listening' = ListeningAfter(scan.gone)
       /\ last' = [s \in Signal |-> IF s \in scan.gone THEN 0 ELSE last[s]]
       /\ posted' = PostedAfter(scan.gone)
  /\ unnoticed' = FALSE
  /\ UNCHANGED starting

-----------------------------------------------------------------------------
(* The component tree.                                                     *)

\* A signal is added, with or without a descriptor: ComponentAdded.
AddSignal(s) ==
  /\ s \notin tree
  /\ tree' = tree \cup {s}
  /\ \E d \in {0, 1} : descriptor' = [descriptor EXCEPT ![s] = d]
  /\ domainOf' = domainOf
  /\ Rescan(tree', descriptor', domainOf')

\* A signal is removed: ComponentRemoved.  openDAQ takes it out of the signals
\* that have it as their domain signal.
RemoveSignal(s) ==
  /\ s \in tree
  /\ tree' = tree \ {s}
  /\ descriptor' = [descriptor EXCEPT ![s] = 0]
  /\ domainOf' = [t \in Signal |-> IF t = s \/ domainOf[t] = s THEN NoDomain ELSE domainOf[t]]
  /\ Rescan(tree', descriptor', domainOf')

\* A signal gets another domain signal, or none: AttributeChanged.
SetDomain(s, d) ==
  /\ s \in tree /\ d \in tree \cup {NoDomain} /\ d # domainOf[s]
  /\ d # NoDomain => s \notin Chain(d, domainOf)
  /\ domainOf' = [domainOf EXCEPT ![s] = d]
  /\ UNCHANGED <<tree, descriptor>>
  /\ Rescan(tree, descriptor, domainOf')

\* Any other core event the server listens to.
OtherEvent ==
  /\ UNCHANGED <<tree, descriptor, domainOf>>
  /\ Rescan(tree, descriptor, domainOf)

-----------------------------------------------------------------------------
(* The listener.                                                           *)

Started(s) == s \in listening /\ starting # s
Room(n) == Len(posted) + n <= PostBound

\* Mistake: a changed descriptor is not announced until data comes with it.
Announces_DataOnly(s, d) == FALSE

\* The descriptor of a packet is not the one the listener knows.
Announces(s, d) == d # last[s]

\* onEventPacketReceived(), for a descriptor.
OnEventPacket(s, d) ==
  /\ posted' = IF Announces(s, d)
               THEN Append(posted, [kind |-> "set_metadata", signal |-> s, descriptor |-> d])
               ELSE posted
  /\ last' = IF Announces(s, d) THEN [last EXCEPT ![s] = d] ELSE last

\* A signal's descriptor changes.  No core event the server looks at comes
\* with it, but a connected port gets an event packet.
SetDescriptor(s) ==
  /\ s \in tree /\ descriptor[s] < MaxDescriptor
  /\ descriptor' = [descriptor EXCEPT ![s] = @ + 1]
  /\ unnoticed' = (unnoticed \/ descriptor[s] = 0)
  /\ Room(1)
  /\ IF Started(s) THEN OnEventPacket(s, descriptor'[s]) ELSE UNCHANGED <<posted, last>>
  /\ UNCHANGED <<tree, domainOf, serverVars, metadata, listening, starting>>

\* Mistake: the data goes first.
CallsForData_DataFirst(s, d) ==
  <<[kind |-> "publish_data", signal |-> s, descriptor |-> d],
    [kind |-> "set_metadata", signal |-> s, descriptor |-> d]>>

\* What onDataPacketReceived() posts: the metadata first, if it is new.
CallsForData(s, d) ==
  (IF d # last[s] THEN <<[kind |-> "set_metadata", signal |-> s, descriptor |-> d]>> ELSE <<>>)
    \o <<[kind |-> "publish_data", signal |-> s, descriptor |-> d]>>

\* The acquisition thread sends a packet, made with the signal's descriptor or
\* with the one that the signal is about to get.
Acquire(s, d) ==
  /\ Started(s) /\ Room(2)
  /\ d \in {descriptor[s], descriptor[s] + 1} \cap Descriptor
  /\ posted' = posted \o CallsForData(s, d)
  /\ last' = [last EXCEPT ![s] = d]
  /\ UNCHANGED <<treeVars, serverVars, metadata, listening, starting>>

-----------------------------------------------------------------------------
(* The I/O thread.                                                         *)

\* on_subscribed: the listener is built and sets the metadata at once.
Subscribe(s) ==
  /\ starting = NoSignal
  /\ s \in Subscribable /\ s \in local \ listening
  /\ Orderly => \A i \in DOMAIN posted : posted[i].signal # s
  /\ listening' = listening \cup {s} /\ starting' = s
  /\ last' = [last EXCEPT ![s] = descriptor[s]]
  /\ metadata' = [metadata EXCEPT ![s] = descriptor[s]]
  /\ UNCHANGED <<treeVars, serverVars, posted>>

\* start(): the port is connected, and openDAQ sends it an event packet with
\* the descriptor the signal has by now.
Start ==
  /\ starting # NoSignal
  /\ starting' = NoSignal
  /\ OnEventPacket(starting, descriptor[starting])
  /\ UNCHANGED <<treeVars, serverVars, metadata, listening>>

\* on_unsubscribed: the listener goes.
Unsubscribe(s) ==
  /\ starting = NoSignal /\ s \in listening
  /\ listening' = listening \ {s}
  /\ last' = [last EXCEPT ![s] = 0]
  /\ UNCHANGED <<treeVars, serverVars, metadata, starting, posted>>

\* The next posted call runs, on the object it was posted for.
Runs(kind) ==
  /\ starting = NoSignal
  /\ posted # <<>> /\ Head(posted).kind = kind /\ Head(posted).signal # NoSignal

SetMetadata ==
  /\ Runs("set_metadata")
  /\ metadata' = [metadata EXCEPT ![Head(posted).signal] = Head(posted).descriptor]
  /\ posted' = Tail(posted)
  /\ UNCHANGED <<treeVars, serverVars, listening, starting, last>>

PublishData ==
  /\ Runs("publish_data")
  /\ posted' = Tail(posted)
  /\ UNCHANGED <<treeVars, serverVars, metadata, listening, starting, last>>

\* A call for an object that has gone reaches nobody.
RunsForNobody ==
  /\ starting = NoSignal /\ posted # <<>> /\ Head(posted) = CallForGone
  /\ posted' = Tail(posted)
  /\ UNCHANGED <<treeVars, serverVars, metadata, listening, starting, last>>

-----------------------------------------------------------------------------
Next ==
  \/ \E s \in Signal :
       \/ AddSignal(s) \/ RemoveSignal(s) \/ SetDescriptor(s)
       \/ Subscribe(s) \/ Unsubscribe(s)
       \/ \E d \in Descriptor : Acquire(s, d)
       \/ \E d \in Signal \cup {NoDomain} : SetDomain(s, d)
  \/ OtherEvent \/ Start \/ SetMetadata \/ PublishData \/ RunsForNobody

Spec == Init /\ [][Next]_vars

-----------------------------------------------------------------------------
\* The signals a client should see: those with a descriptor and their domain
\* signals.
Wanted == UNION {Chain(s, domainOf) : s \in {t \in tree : descriptor[t] # 0}}

\* As of the last rescan the server advertises every signal that has a
\* descriptor, with its domain signals, and no others, each linked to the
\* domain signal it has now; unless some domain signal has no descriptor, which
\* ends the rescan.
AdvertisedInStep ==
  (\A s \in Wanted : descriptor[s] # 0) /\ ~unnoticed =>
    local = Wanted /\ \A s \in local : linked[s] = domainOf[s]

\* Data goes out under the metadata it was acquired under, whatever the
\* acquisition thread, the application and the client do meanwhile.
DataMatchesMetadata ==
  [][PublishData => metadata[Head(posted).signal] = Head(posted).descriptor]_vars

\* Once all posted calls have run, no subscriber is behind the signal's present
\* descriptor.
MetadataCatchesUp ==
  posted = <<>> => \A s \in listening : Started(s) => metadata[s] >= descriptor[s]
=============================================================================
