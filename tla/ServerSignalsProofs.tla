------------------------ MODULE ServerSignalsProofs ------------------------
(***************************************************************************)
(* Theorems about ServerSignals.tla, for any number of signals, domain     *)
(* signals, descriptors and posted calls.  First the chains of domain      *)
(* signals that createListener() follows and what a rescan makes of them,  *)
(* then the calls that listeners post: the metadata that is in force when  *)
(* a call runs is the one its data was acquired under.                     *)
(***************************************************************************)
EXTENDS ServerSignals, TLAPS

-----------------------------------------------------------------------------
(* Chains of domain signals.                                               *)

DomainMap == [Signal -> Signal \cup {NoDomain}]

\* createListener(s) is called for s and, with a signal, for its domain signal.
LEMMA ChainClosed ==
  ASSUME NEW dom \in DomainMap, NEW s \in Signal
  PROVE  /\ Chain(s, dom) \subseteq Signal
         /\ s \in Chain(s, dom)
         /\ \A t \in Chain(s, dom) : dom[t] \in Chain(s, dom) \cup {NoDomain}
BY DEF Chain, DomainMap

\* It is called for no others.
LEMMA ChainLeast ==
  ASSUME NEW dom, NEW T \in SUBSET Signal, NEW s \in T,
         \A t \in T : dom[t] \in T \cup {NoDomain}
  PROVE  Chain(s, dom) \subseteq T
BY DEF Chain

\* What is called on the way of a call is called by it.
LEMMA ChainOfMember ==
  ASSUME NEW dom \in DomainMap, NEW s \in Signal, NEW t \in Chain(s, dom)
  PROVE  Chain(t, dom) \subseteq Chain(s, dom)
BY ChainClosed, ChainLeast

-----------------------------------------------------------------------------
(* A rescan of a tree whose domain links lead to signals of the tree.      *)

WantedOf(present, desc, dom) ==
  UNION {Chain(s, dom) : s \in {t \in present : desc[t] # 0}}

\* A tree as core events announce it: domain links stay within it.
TreeOK(present, desc, dom) ==
  /\ present \subseteq Signal
  /\ desc \in [Signal -> Descriptor]
  /\ dom \in DomainMap
  /\ \A s \in Signal : dom[s] \in present \cup {NoDomain}

\* A rescan registers nothing but described signals of the tree.
LEMMA ScanWithin ==
  ASSUME NEW present, NEW desc, NEW dom, TreeOK(present, desc, dom)
  PROVE  \A s \in Scan(present, desc, dom).new : s \in present /\ desc[s] # 0
<1> DEFINE chain == Chains(dom)
           found == UNION {Registered(s, desc, chain) : s \in Visited(present, desc, chain)}
<1> SUFFICES ASSUME NEW u \in found
             PROVE  u \in present /\ desc[u] # 0
  BY DEF Scan
<1>1. PICK s \in present : u \in Registered(s, desc, chain)
  BY DEF Visited
<1>2. s \in Signal /\ present \in SUBSET Signal
  BY DEF TreeOK
<1>3. u \in Chain(s, dom) /\ Complete(u, desc, chain)
  BY <1>1, <1>2 DEF Registered, Chains
<1>4. Chain(s, dom) \subseteq present
  BY <1>2, ChainLeast DEF TreeOK
<1>5. u \in Chain(u, dom)
  BY <1>2, <1>3, <1>4, ChainClosed DEF TreeOK
<1> QED BY <1>2, <1>3, <1>4, <1>5 DEF Complete, Chains

\* If no domain signal lacks its descriptor, a rescan visits every described
\* signal and registers whatever is wanted.
LEMMA ScanFindsWanted ==
  ASSUME NEW present, NEW desc, NEW dom, TreeOK(present, desc, dom),
         \A u \in WantedOf(present, desc, dom) : desc[u] # 0
  PROVE  Scan(present, desc, dom).new
           = {s \in WantedOf(present, desc, dom) :
                s \notin Remaining(present) \/ Relinked(s, dom)}
<1> DEFINE chain == Chains(dom)
           items == {s \in present : desc[s] # 0}
           W == WantedOf(present, desc, dom)
<1>1. \A s \in items : s \in Signal /\ chain[s] = Chain(s, dom) /\ Chain(s, dom) \subseteq W
  BY DEF TreeOK, Chains, WantedOf
<1>2. W \subseteq Signal
  BY ChainClosed DEF WantedOf, TreeOK
<1>3. ASSUME NEW s \in items, NEW u \in Chain(s, dom)
      PROVE  Complete(u, desc, chain)
  <2>1. Chain(u, dom) \subseteq W
    BY <1>1, <1>3, ChainOfMember DEF TreeOK
  <2>2. chain[u] = Chain(u, dom)
    BY <1>1, <1>2, <1>3 DEF Chains
  <2> QED BY <2>1, <2>2 DEF Complete
<1>4. Visited(present, desc, chain) = items
  <2>1. \A s \in items : Complete(s, desc, chain)
    BY <1>1, <1>3, ChainClosed DEF TreeOK
  <2> QED BY <2>1 DEF Visited
<1>5. \A s \in items : Registered(s, desc, chain) = Chain(s, dom)
  BY <1>1, <1>3 DEF Registered
<1>6. UNION {Registered(s, desc, chain) : s \in Visited(present, desc, chain)} = W
  BY <1>4, <1>5 DEF WantedOf
<1> QED BY <1>6 DEF Scan
-----------------------------------------------------------------------------
(* The inductive invariant: types, and local signals within the tree.      *)

\* The server advertises only described signals of the tree, and openDAQ takes a
\* removed signal out of the domain links.
LocalInv ==
  /\ \A s \in local : s \in tree /\ descriptor[s] # 0
  /\ \A s \in Signal : domainOf[s] \in tree \cup {NoDomain}

TreeInv == TypeOK /\ LocalInv

LEMMA TreeInvInit == Init => TreeInv
<1> SUFFICES ASSUME Init PROVE TreeInv
  OBVIOUS
<1>1. 0 \in Descriptor
  BY BoundAssumption DEF Descriptor
<1>2. [s \in Signal |-> 0] \in [Signal -> Descriptor]
  BY <1>1
<1>3. [s \in Signal |-> NoDomain] \in [Signal -> Signal \cup {NoDomain}]
  OBVIOUS
<1>4. <<>> \in Seq(Call)
  OBVIOUS
<1>5. TypeOK
  BY <1>2, <1>3, <1>4 DEF Init, TypeOK
<1> QED BY <1>5 DEF Init, TreeInv, LocalInv

\* A rescan of a tree in which no local signal has lost its descriptor keeps it.
LEMMA RescanKeepsTypes ==
  ASSUME TypeOK, NEW present, NEW desc, NEW dom, TreeOK(present, desc, dom),
         \A s \in local \cap present : desc[s] # 0,
         Rescan(present, desc, dom)
  PROVE  /\ \A s \in local' : s \in present /\ desc[s] # 0
         /\ local' \subseteq Signal /\ listening' \subseteq local'
         /\ linked' \in DomainMap /\ unnoticed' \in BOOLEAN
         /\ metadata' \in [Signal -> Descriptor] /\ last' \in [Signal -> Descriptor]
         /\ starting' \in listening' \cup {NoSignal}
         /\ posted' \in Seq(Call)
<1> DEFINE scan == Scan(present, desc, dom)
<1>1. \A s \in scan.new : s \in present /\ desc[s] # 0
  BY ScanWithin
<1>2. scan.new \subseteq Signal /\ scan.gone = (local \ Remaining(present)) \cup scan.new
  BY <1>1 DEF Scan, TreeOK
<1>3. local' = Remaining(present) \cup scan.new /\ starting' = NoSignal
  BY DEF Rescan
<1>4. posted' \in Seq(Call)
  <2>1. CallForGone \in Call
    BY BoundAssumption DEF CallForGone, Call, Descriptor
  <2>2. posted \in [1 .. Len(posted) -> Call] /\ DOMAIN posted = 1 .. Len(posted)
    BY DEF TypeOK
  <2>3. posted' = PostedAfter(scan.gone)
    BY DEF Rescan
  <2>4. PostedAfter(scan.gone) \in [1 .. Len(posted) -> Call] /\ Len(posted) \in Nat
    BY <2>1, <2>2 DEF PostedAfter, TypeOK
  <2> QED BY <2>3, <2>4
<1>5. linked' \in DomainMap
  BY <1>2 DEF Rescan, TypeOK, TreeOK, DomainMap
<1>6. metadata' \in [Signal -> Descriptor] /\ last' \in [Signal -> Descriptor]
  BY BoundAssumption DEF Rescan, TypeOK, TreeOK, Descriptor
<1>7. listening' \subseteq local'
  BY <1>2, <1>3 DEF Rescan, ListeningAfter, TypeOK
<1> QED BY <1>1, <1>2, <1>3, <1>4, <1>5, <1>6, <1>7 DEF Remaining, TypeOK, Rescan

\* The four events that change the tree announce one whose links stay within it,
\* and in which no local signal has lost its descriptor.
TreeEvent ==
  \/ \E s \in Signal : AddSignal(s) \/ RemoveSignal(s)
  \/ \E s \in Signal, d \in Signal \cup {NoDomain} : SetDomain(s, d)
  \/ OtherEvent

LEMMA EventsAnnounceTrees ==
  ASSUME TreeInv, TreeEvent
  PROVE  /\ TreeOK(tree', descriptor', domainOf')
         /\ \A t \in local \cap tree' : descriptor'[t] # 0
         /\ Rescan(tree', descriptor', domainOf')
<1> USE SignalAssumption, BoundAssumption DEF TreeInv, TypeOK, LocalInv, TreeOK, DomainMap, Descriptor
<1> DEFINE Announced ==
      /\ TreeOK(tree', descriptor', domainOf')
      /\ \A t \in local \cap tree' : descriptor'[t] # 0
      /\ Rescan(tree', descriptor', domainOf')
<1>1. ASSUME NEW s \in Signal, AddSignal(s) PROVE Announced
  BY <1>1 DEF AddSignal
<1>2. ASSUME NEW s \in Signal, RemoveSignal(s) PROVE Announced
  BY <1>2 DEF RemoveSignal
<1>3. ASSUME NEW s \in Signal, NEW d \in Signal \cup {NoDomain}, SetDomain(s, d) PROVE Announced
  BY <1>3 DEF SetDomain
<1>4. ASSUME OtherEvent PROVE Announced
  BY <1>4 DEF OtherEvent
<1> QED BY <1>1, <1>2, <1>3, <1>4 DEF TreeEvent

\* An event packet changes nothing but the calls posted and what the listener knows.
LEMMA EventPacketTypes ==
  ASSUME TypeOK, NEW s \in Signal, NEW d \in Descriptor, OnEventPacket(s, d)
  PROVE  posted' \in Seq(Call) /\ last' \in [Signal -> Descriptor]
<1>1. [kind |-> "set_metadata", signal |-> s, descriptor |-> d] \in Call
  BY DEF Call
<1> QED BY <1>1 DEF OnEventPacket, TypeOK

\* So do the calls for data.
LEMMA DataTypes ==
  ASSUME TypeOK, NEW s \in Signal, NEW d \in Descriptor
  PROVE  CallsForData(s, d) \in Seq(Call)
<1>1. /\ [kind |-> "set_metadata", signal |-> s, descriptor |-> d] \in Call
      /\ [kind |-> "publish_data", signal |-> s, descriptor |-> d] \in Call
  BY DEF Call
<1> QED BY <1>1 DEF CallsForData

\* Every step keeps the types and the server within the tree.
LEMMA TreeInvNext == TreeInv /\ [Next]_vars => TreeInv'
<1> SUFFICES ASSUME TreeInv, [Next]_vars
             PROVE  TreeInv'
  OBVIOUS
<1> USE SignalAssumption, BoundAssumption
<1>1. CASE TreeEvent
  <2>1. TreeOK(tree', descriptor', domainOf') /\ Rescan(tree', descriptor', domainOf')
    BY <1>1, EventsAnnounceTrees
  <2>2. \A t \in local \cap tree' : descriptor'[t] # 0
    BY <1>1, EventsAnnounceTrees
  <2> QED BY <2>1, <2>2, RescanKeepsTypes DEF TreeInv, TypeOK, LocalInv, TreeOK, DomainMap
<1>2. ASSUME NEW s \in Signal, SetDescriptor(s)
      PROVE  TreeInv'
  <2>1. descriptor'[s] \in Descriptor /\ descriptor' \in [Signal -> Descriptor]
    BY <1>2 DEF SetDescriptor, TreeInv, TypeOK, Descriptor
  <2>2. posted' \in Seq(Call) /\ last' \in [Signal -> Descriptor]
    BY <1>2, <2>1, EventPacketTypes DEF SetDescriptor, TreeInv, TypeOK
  <2>3. \A t \in local : descriptor'[t] # 0
    BY <1>2 DEF SetDescriptor, TreeInv, TypeOK, LocalInv, Descriptor
  <2> QED BY <1>2, <2>1, <2>2, <2>3 DEF SetDescriptor, TreeInv, TypeOK, LocalInv, serverVars
<1>3. ASSUME NEW s \in Signal, NEW d \in Descriptor, Acquire(s, d)
      PROVE  TreeInv'
  <2>1. posted' \in Seq(Call)
    BY <1>3, DataTypes DEF Acquire, TreeInv, TypeOK
  <2> QED BY <1>3, <2>1 DEF Acquire, TreeInv, TypeOK, LocalInv, serverVars, treeVars
<1>4. ASSUME NEW s \in Signal, Subscribe(s) \/ Unsubscribe(s)
      PROVE  TreeInv'
  <2>1. last' \in [Signal -> Descriptor] /\ metadata' \in [Signal -> Descriptor]
    <3>1. 0 \in Descriptor
      BY DEF Descriptor
    <3>2. CASE Subscribe(s)
      BY <3>2 DEF Subscribe, TreeInv, TypeOK
    <3>3. CASE Unsubscribe(s)
      BY <3>1, <3>3 DEF Unsubscribe, TreeInv, TypeOK
    <3> QED BY <1>4, <3>2, <3>3
  <2>2. /\ listening' \subseteq local' /\ starting' \in listening' \cup {NoSignal}
        /\ UNCHANGED <<treeVars, serverVars, posted>>
    BY <1>4 DEF Subscribe, Unsubscribe, TreeInv, TypeOK, serverVars
  <2> QED BY <2>1, <2>2 DEF TreeInv, TypeOK, LocalInv, serverVars, treeVars
<1>5. CASE Start
  <2>1. starting \in Signal
    BY <1>5 DEF Start, TreeInv, TypeOK
  <2>2. posted' \in Seq(Call) /\ last' \in [Signal -> Descriptor]
    BY <1>5, <2>1, EventPacketTypes DEF Start, TreeInv, TypeOK
  <2> QED BY <1>5, <2>2 DEF Start, TreeInv, TypeOK, LocalInv, serverVars, treeVars
<1>6. CASE SetMetadata \/ PublishData \/ RunsForNobody
  <2>1. posted # <<>> /\ posted' = Tail(posted)
    BY <1>6 DEF SetMetadata, PublishData, RunsForNobody, Runs
  <2>2. Head(posted) \in Call /\ posted' \in Seq(Call)
    BY <2>1 DEF TreeInv, TypeOK
  <2>3. metadata' \in [Signal -> Descriptor]
    BY <1>6, <2>2 DEF SetMetadata, PublishData, RunsForNobody, TreeInv, TypeOK, Call
  <2> QED BY <1>6, <2>2, <2>3
          DEF SetMetadata, PublishData, RunsForNobody, TreeInv, TypeOK, LocalInv, serverVars, treeVars
<1>7. CASE UNCHANGED vars
  BY <1>7 DEF vars, TreeInv, TypeOK, LocalInv, serverVars, treeVars, streamVars
<1> QED BY <1>1, <1>2, <1>3, <1>4, <1>5, <1>6, <1>7 DEF Next, TreeEvent

\* Every reachable state is type correct.
THEOREM SignalsTypeOK == Spec => []TypeOK
<1>1. TreeInv => TypeOK
  BY DEF TreeInv
<1> QED BY TreeInvInit, TreeInvNext, <1>1, PTL DEF Spec
-----------------------------------------------------------------------------
(* What is advertised.                                                     *)

\* Whatever was advertised before, a rescan that meets no exception advertises
\* what is wanted.
LEMMA RescanAdvertises ==
  ASSUME TypeOK, NEW present, NEW desc, NEW dom, TreeOK(present, desc, dom),
         \A s \in local \cap present : desc[s] # 0,
         Rescan(present, desc, dom),
         \A u \in WantedOf(present, desc, dom) : desc[u] # 0
  PROVE  local' = WantedOf(present, desc, dom) /\ \A s \in local' : linked'[s] = dom[s]
<1> DEFINE scan == Scan(present, desc, dom)
           W == WantedOf(present, desc, dom)
<1>1. scan.new = {s \in W : s \notin Remaining(present) \/ Relinked(s, dom)}
  BY ScanFindsWanted
<1>2. scan.gone = (local \ Remaining(present)) \cup scan.new
  BY DEF Scan
<1>3. local' = Remaining(present) \cup scan.new
  BY DEF Rescan
<1>4. Remaining(present) \subseteq W
  BY ChainClosed DEF Remaining, TreeOK, WantedOf
<1>5. ASSUME NEW s \in local'
      PROVE  linked'[s] = dom[s]
  <2>1. s \in Signal /\ s \in W
    BY <1>1, <1>3, <1>4, <1>5, ChainClosed DEF WantedOf, TreeOK
  <2>2. linked'[s] = IF s \in scan.new THEN dom[s]
                     ELSE IF s \in scan.gone THEN NoDomain ELSE linked[s]
    BY <2>1 DEF Rescan
  <2> QED BY <1>1, <1>2, <1>3, <1>5, <2>1, <2>2 DEF Relinked
<1> QED BY <1>1, <1>3, <1>4, <1>5

LEMMA AdvertisedNext == TreeInv /\ AdvertisedInStep /\ [Next]_vars => AdvertisedInStep'
<1> SUFFICES ASSUME TreeInv, AdvertisedInStep, [Next]_vars
             PROVE  AdvertisedInStep'
  OBVIOUS
<1>1. CASE TreeEvent
  <2>1. /\ TreeOK(tree', descriptor', domainOf')
        /\ \A t \in local \cap tree' : descriptor'[t] # 0
        /\ Rescan(tree', descriptor', domainOf')
    BY <1>1, EventsAnnounceTrees
  <2>2. Wanted' = WantedOf(tree', descriptor', domainOf')
    BY DEF Wanted, WantedOf
  <2> QED BY <2>1, <2>2, RescanAdvertises DEF TreeInv, AdvertisedInStep
<1>2. ASSUME NEW s \in Signal, SetDescriptor(s)
      PROVE  AdvertisedInStep'
  <2>1. SUFFICES ASSUME (\A u \in Wanted : descriptor[u] # 0)', ~unnoticed'
                 PROVE  (local = Wanted /\ \A t \in local : linked[t] = domainOf[t])'
    BY DEF AdvertisedInStep
  <2>2. descriptor[s] # 0 /\ ~unnoticed
    BY <1>2, <2>1 DEF SetDescriptor, TreeInv, TypeOK
  <2>3. \A t \in Signal : descriptor'[t] # 0 <=> descriptor[t] # 0
    BY <1>2, <2>2 DEF SetDescriptor, TreeInv, TypeOK, Descriptor
  <2>4. tree' = tree /\ domainOf' = domainOf /\ local' = local /\ linked' = linked
    BY <1>2 DEF SetDescriptor, serverVars
  <2>5. {t \in tree' : descriptor'[t] # 0} = {t \in tree : descriptor[t] # 0}
    BY <2>3, <2>4 DEF TreeInv, TypeOK
  <2>6. Wanted' = Wanted
    BY <2>4, <2>5 DEF Wanted
  <2>7. Wanted \subseteq Signal
    BY ChainClosed DEF Wanted, TreeInv, TypeOK, DomainMap
  <2> QED BY <2>1, <2>2, <2>3, <2>4, <2>6, <2>7 DEF AdvertisedInStep
<1>3. CASE UNCHANGED <<treeVars, serverVars>>
  BY <1>3 DEF AdvertisedInStep, Wanted, treeVars, serverVars
<1>4. ASSUME NEW s \in Signal, NEW d \in Descriptor,
             \/ Subscribe(s) \/ Unsubscribe(s) \/ Acquire(s, d)
             \/ Start \/ SetMetadata \/ PublishData \/ RunsForNobody
      PROVE  UNCHANGED <<treeVars, serverVars>>
  BY <1>4 DEF Subscribe, Unsubscribe, Acquire, Start, SetMetadata, PublishData, RunsForNobody
<1>5. 1 \in Signal /\ 0 \in Descriptor
  BY SignalAssumption, BoundAssumption DEF Signal, Descriptor
<1> QED BY <1>1, <1>2, <1>3, <1>4, <1>5 DEF Next, TreeEvent, vars

\* As of the last event, the server advertises exactly the described signals and
\* their domain signals, however signals came, went and changed their domain
\* before, unless a domain signal without a descriptor ends the rescan.
THEOREM AdvertisedInStepHolds == Spec => []AdvertisedInStep
<1>1. Init => AdvertisedInStep
  BY DEF Init, AdvertisedInStep, Wanted
<1> QED BY <1>1, TreeInvInit, TreeInvNext, AdvertisedNext, PTL DEF Spec
-----------------------------------------------------------------------------
(* The calls that wait for the I/O thread.                                 *)

Announcement(q, k, s) == q[k].kind = "set_metadata" /\ q[k].signal = s
Silent(q, s, a, b) == \A k \in a .. b : ~Announcement(q, k, s)

\* What the metadata of s, which is m now, will have been made from when the first
\* i - 1 calls of the queue q have run.
InForce(q, m, s, i, d) ==
  \/ m = d /\ Silent(q, s, 1, i - 1)
  \/ \E j \in 1 .. i - 1 :
       /\ Announcement(q, j, s) /\ q[j].descriptor = d
       /\ Silent(q, s, j + 1, i - 1)

\* Each posted piece of data finds the metadata it was acquired under, and when all
\* calls have run, that is what the signal's listener takes for known.
CallsOK(q, meta, known, listeners) ==
  /\ \A i \in 1 .. Len(q) :
       q[i].kind = "publish_data" /\ q[i].signal \in Signal =>
         InForce(q, meta[q[i].signal], q[i].signal, i, q[i].descriptor)
  /\ \A s \in listeners : InForce(q, meta[s], s, Len(q) + 1, known[s])

CallsInv == CallsOK(posted, metadata, last, listening)

\* A listener whose port is connected has been told of the present descriptor.
ListenersInv == \A s \in listening : Started(s) => last[s] >= descriptor[s]

\* What a queue already promises is not changed by calls posted later.
LEMMA InForceAppend ==
  ASSUME NEW q \in Seq(Call), NEW c \in Call, NEW m, NEW s, NEW d, NEW i \in 1 .. Len(q) + 1,
         InForce(q, m, s, i, d)
  PROVE  InForce(Append(q, c), m, s, i, d)
<1>1. \A k \in 1 .. i - 1 : Append(q, c)[k] = q[k]
  OBVIOUS
<1> QED BY <1>1 DEF InForce, Announcement, Silent

\* An announcement at the end is in force after it; any other call changes nothing.
LEMMA InForceAfter ==
  ASSUME NEW q \in Seq(Call), NEW c \in Call, NEW m, NEW s, NEW d,
         IF c.kind = "set_metadata" /\ c.signal = s THEN d = c.descriptor
         ELSE InForce(q, m, s, Len(q) + 1, d)
  PROVE  InForce(Append(q, c), m, s, Len(Append(q, c)) + 1, d)
<1> DEFINE r == Append(q, c)
           n == Len(q) + 1
<1>1. /\ \A k \in 1 .. Len(q) : r[k] = q[k]
      /\ r[n] = c /\ Len(r) = n /\ n \in Nat \ {0} /\ n - 1 = Len(q)
  OBVIOUS
<1> HIDE DEF r, n
<1>2. CASE c.kind = "set_metadata" /\ c.signal = s
  <2>1. Announcement(r, n, s) /\ r[n].descriptor = d
    BY <1>1, <1>2 DEF Announcement
  <2>2. Silent(r, s, n + 1, (n + 1) - 1) /\ n \in 1 .. (n + 1) - 1
    BY <1>1 DEF Silent
  <2>3. InForce(r, m, s, n + 1, d)
    BY <2>1, <2>2 DEF InForce
  <2> QED BY <1>1, <2>3 DEF r
<1>3. CASE ~(c.kind = "set_metadata" /\ c.signal = s)
  <2>1. \A k \in 1 .. n : Announcement(r, k, s) <=> k < n /\ Announcement(q, k, s)
    BY <1>1, <1>3 DEF Announcement
  <2>2. InForce(q, m, s, n, d)
    BY <1>3 DEF n
  <2>3. ASSUME NEW a \in 1 .. n, Silent(q, s, a, n - 1)
        PROVE  Silent(r, s, a, (n + 1) - 1)
    BY <1>1, <2>1, <2>3 DEF Silent
  <2>4. ASSUME NEW j \in 1 .. n - 1, Announcement(q, j, s), q[j].descriptor = d,
               Silent(q, s, j + 1, n - 1)
        PROVE  InForce(r, m, s, n + 1, d)
    <3>1. j \in 1 .. (n + 1) - 1 /\ Announcement(r, j, s) /\ r[j].descriptor = d
      BY <1>1, <2>1, <2>4
    <3>2. Silent(r, s, j + 1, (n + 1) - 1)
      BY <1>1, <2>3, <2>4
    <3> QED BY <3>1, <3>2 DEF InForce
  <2>5. ASSUME m = d, Silent(q, s, 1, n - 1)
        PROVE  InForce(r, m, s, n + 1, d)
    <3>1. Silent(r, s, 1, (n + 1) - 1)
      BY <1>1, <2>3, <2>5
    <3> QED BY <2>5, <3>1 DEF InForce
  <2>6. InForce(r, m, s, n + 1, d)
    BY <2>2, <2>4, <2>5 DEF InForce
  <2> QED BY <1>1, <2>6 DEF r
<1> QED BY <1>2, <1>3 DEF r

\* When the first call has run, what was promised still is.
LEMMA InForceTail ==
  ASSUME NEW q \in Seq(Call), q # <<>>, NEW m, NEW s, NEW d, NEW i \in 2 .. Len(q) + 1,
         InForce(q, m, s, i, d)
  PROVE  InForce(Tail(q), IF Announcement(q, 1, s) THEN q[1].descriptor ELSE m, s, i - 1, d)
<1> DEFINE r == Tail(q)
<1>1. \A k \in 1 .. i - 2 : r[k] = q[k + 1]
  OBVIOUS
<1> HIDE DEF r
<1>2. \A k \in 1 .. i - 2 : Announcement(r, k, s) <=> Announcement(q, k + 1, s)
  BY <1>1 DEF Announcement
<1> DEFINE now == IF Announcement(q, 1, s) THEN q[1].descriptor ELSE m
<1>3. ASSUME NEW a \in 1 .. i, Silent(q, s, a, i - 1)
      PROVE  \A b \in 1 .. i - 1 : a <= b + 1 => Silent(r, s, b, (i - 1) - 1)
  BY <1>2, <1>3 DEF Silent
<1> HIDE DEF now
<1>4. ASSUME m = d, Silent(q, s, 1, i - 1)
      PROVE  InForce(r, now, s, i - 1, d)
  <2>1. ~Announcement(q, 1, s)
    BY <1>4 DEF Silent
  <2>2. Silent(r, s, 1, (i - 1) - 1)
    BY <1>3, <1>4
  <2>3. now = d
    BY <1>4, <2>1 DEF now
  <2> QED BY <2>2, <2>3 DEF InForce
<1>5. ASSUME NEW j \in 1 .. i - 1, Announcement(q, j, s), q[j].descriptor = d,
             Silent(q, s, j + 1, i - 1)
      PROVE  InForce(r, now, s, i - 1, d)
  <2>1. CASE j = 1
    <3>1. Silent(r, s, 1, (i - 1) - 1)
      BY <1>3, <1>5, <2>1
    <3>2. now = d
      BY <1>5, <2>1 DEF now
    <3> QED BY <3>1, <3>2 DEF InForce
  <2>2. CASE j > 1
    <3>1. /\ j - 1 \in 1 .. (i - 1) - 1 /\ Announcement(r, j - 1, s)
          /\ r[j - 1].descriptor = d
      BY <1>1, <1>2, <1>5, <2>2
    <3>2. Silent(r, s, (j - 1) + 1, (i - 1) - 1)
      BY <1>3, <1>5, <2>2
    <3> QED BY <3>1, <3>2 DEF InForce
  <2> QED BY <2>1, <2>2
<1>6. InForce(r, now, s, i - 1, d)
  BY <1>4, <1>5 DEF InForce
<1> QED BY <1>6 DEF r, now

\* The calls for the signals that go are taken away from no other signal.
LEMMA InForceRescan ==
  ASSUME TypeOK, NEW gone, NEW m, NEW s \in Signal \ gone, NEW d, NEW i \in 1 .. Len(posted) + 1,
         InForce(posted, m, s, i, d)
  PROVE  InForce(PostedAfter(gone), m, s, i, d)
<1>1. \A k \in 1 .. i - 1 :
        PostedAfter(gone)[k] = IF posted[k].signal \in gone THEN CallForGone ELSE posted[k]
  BY DEF PostedAfter, TypeOK
<1>2. CallForGone.kind = "publish_data"
  BY DEF CallForGone
<1>3. \A k \in 1 .. i - 1 : /\ Announcement(PostedAfter(gone), k, s) <=> Announcement(posted, k, s)
                            /\ Announcement(posted, k, s) => PostedAfter(gone)[k] = posted[k]
  BY <1>1, <1>2 DEF Announcement
<1> QED BY <1>3 DEF InForce, Silent
\* A listener that posts metadata remembers it, and posts data under the metadata it
\* remembers.
LEMMA PostOne ==
  ASSUME NEW q \in Seq(Call), NEW meta, NEW known \in [Signal -> Descriptor],
         NEW listeners \in SUBSET Signal, CallsOK(q, meta, known, listeners),
         NEW c \in Call, c.signal \in listeners,
         c.kind = "publish_data" => c.descriptor = known[c.signal]
  PROVE  CallsOK(Append(q, c), meta, [known EXCEPT ![c.signal] = c.descriptor], listeners)
<1> DEFINE r == Append(q, c)
           now == [known EXCEPT ![c.signal] = c.descriptor]
<1>1. /\ Len(r) = Len(q) + 1 /\ r[Len(q) + 1] = c
      /\ \A i \in 1 .. Len(q) : r[i] = q[i]
  OBVIOUS
<1>2. ASSUME NEW i \in 1 .. Len(r), r[i].kind = "publish_data", r[i].signal \in Signal
      PROVE  InForce(r, meta[r[i].signal], r[i].signal, i, r[i].descriptor)
  <2>1. CASE i = Len(q) + 1
    <3>1. r[i] = c
      BY <1>1, <2>1
    <3>2. InForce(q, meta[c.signal], c.signal, Len(q) + 1, c.descriptor)
      BY <1>2, <3>1 DEF CallsOK
    <3>3. InForce(r, meta[c.signal], c.signal, i, c.descriptor)
      BY <2>1, <3>2, InForceAppend
    <3> QED BY <3>1, <3>3
  <2>2. CASE i \in 1 .. Len(q)
    <3>1. r[i] = q[i]
      BY <1>1, <2>2
    <3>2. InForce(q, meta[q[i].signal], q[i].signal, i, q[i].descriptor)
      BY <1>2, <2>2, <3>1 DEF CallsOK
    <3>3. InForce(r, meta[q[i].signal], q[i].signal, i, q[i].descriptor)
      BY <2>2, <3>2, InForceAppend
    <3> QED BY <3>1, <3>3
  <2> QED BY <1>1, <1>2, <2>1, <2>2
<1>3. ASSUME NEW s \in listeners
      PROVE  InForce(r, meta[s], s, Len(r) + 1, now[s])
  <2>1. InForce(q, meta[s], s, Len(q) + 1, known[s])
    BY DEF CallsOK
  <2>2. now[s] = IF s = c.signal THEN c.descriptor ELSE known[s]
    OBVIOUS
  <2>3. c.kind \in {"set_metadata", "publish_data"}
    BY DEF Call
  <2>4. IF c.kind = "set_metadata" /\ c.signal = s THEN now[s] = c.descriptor
        ELSE InForce(q, meta[s], s, Len(q) + 1, now[s])
    BY <2>1, <2>2, <2>3
  <2> QED BY <2>4, InForceAfter
<1> QED BY <1>2, <1>3 DEF CallsOK

\* An event packet keeps the calls in order.
LEMMA EventPacketKeepsCalls ==
  ASSUME TypeOK, CallsInv, NEW s \in listening, NEW d \in Descriptor, OnEventPacket(s, d)
  PROVE  CallsOK(posted', metadata, last', listening)
<1> DEFINE c == [kind |-> "set_metadata", signal |-> s, descriptor |-> d]
<1>1. CASE Announces(s, d)
  <2>1. c \in Call /\ c.kind = "set_metadata" /\ c.signal = s /\ c.descriptor = d
    BY DEF Call, TypeOK
  <2>2. CallsOK(Append(posted, c), metadata, [last EXCEPT ![c.signal] = c.descriptor], listening)
    BY <2>1, PostOne DEF TypeOK, CallsInv
  <2> QED BY <1>1, <2>1, <2>2 DEF OnEventPacket
<1>2. CASE ~Announces(s, d)
  BY <1>2 DEF OnEventPacket, CallsInv
<1> QED BY <1>1, <1>2

\* So do the calls for data: metadata first, if it is new.
LEMMA DataKeepsCalls ==
  ASSUME TypeOK, CallsInv, NEW s \in listening, NEW d \in Descriptor
  PROVE  CallsOK(posted \o CallsForData(s, d), metadata, [last EXCEPT ![s] = d], listening)
<1> DEFINE a == [kind |-> "set_metadata", signal |-> s, descriptor |-> d]
           b == [kind |-> "publish_data", signal |-> s, descriptor |-> d]
           now == [last EXCEPT ![s] = d]
           q == IF d # last[s] THEN Append(posted, a) ELSE posted
<1>1. /\ a \in Call /\ a.kind = "set_metadata" /\ a.signal = s /\ a.descriptor = d
      /\ b \in Call /\ b.kind = "publish_data" /\ b.signal = s /\ b.descriptor = d
  BY DEF Call, TypeOK
<1>2. now \in [Signal -> Descriptor] /\ now[s] = d /\ [now EXCEPT ![s] = d] = now
  BY DEF TypeOK
<1>3. CallsOK(q, metadata, now, listening)
  <2>1. CASE d # last[s]
    <3>1. CallsOK(Append(posted, a), metadata, [last EXCEPT ![a.signal] = a.descriptor], listening)
      BY <1>1, PostOne DEF TypeOK, CallsInv
    <3> QED BY <1>1, <2>1, <3>1
  <2>2. CASE d = last[s]
    <3>1. now = last
      BY <2>2 DEF TypeOK
    <3> QED BY <2>2, <3>1 DEF CallsInv
  <2> QED BY <2>1, <2>2
<1>4. q \in Seq(Call)
  BY <1>1 DEF TypeOK
<1>5. CallsOK(Append(q, b), metadata, now, listening)
  <2>1. CallsOK(Append(q, b), metadata, [now EXCEPT ![b.signal] = b.descriptor], listening)
    BY <1>1, <1>2, <1>3, <1>4, PostOne DEF TypeOK
  <2> QED BY <1>1, <1>2, <2>1
<1>6. posted \o CallsForData(s, d) = Append(q, b)
  BY <1>1 DEF CallsForData, TypeOK
<1> QED BY <1>5, <1>6

\* A rescan takes away signals with their listeners and calls, and nothing else.
LEMMA RescanKeepsCalls ==
  ASSUME TypeOK, CallsInv, NEW present, NEW desc, NEW dom, Rescan(present, desc, dom)
  PROVE  CallsInv'
<1> DEFINE scan == Scan(present, desc, dom)
<1>1. /\ posted' = PostedAfter(scan.gone) /\ listening' = listening \ scan.gone
      /\ scan.new \subseteq scan.gone
      /\ \A s \in Signal \ scan.gone : metadata'[s] = metadata[s] /\ last'[s] = last[s]
  <2>1. scan.new \subseteq scan.gone
    BY DEF Scan
  <2>2. posted' = PostedAfter(scan.gone) /\ listening' = listening \ scan.gone
    BY DEF Rescan, ListeningAfter
  <2>3. ASSUME NEW s \in Signal \ scan.gone
        PROVE  metadata'[s] = metadata[s] /\ last'[s] = last[s]
    BY <2>1, <2>3 DEF Rescan
  <2> QED BY <2>1, <2>2, <2>3
<1> HIDE DEF scan
<1>2. /\ Len(posted') = Len(posted) /\ Len(posted) \in Nat
      /\ \A i \in 1 .. Len(posted) :
           posted'[i] = IF posted[i].signal \in scan.gone THEN CallForGone ELSE posted[i]
  BY <1>1 DEF PostedAfter, TypeOK
<1>3. ASSUME NEW i \in 1 .. Len(posted'), posted'[i].kind = "publish_data",
             posted'[i].signal \in Signal
      PROVE  InForce(posted, metadata[posted[i].signal], posted[i].signal, i, posted[i].descriptor)
             /\ posted'[i] = posted[i] /\ posted[i].signal \in Signal \ scan.gone
  <2>1. CallForGone.signal \notin Signal
    BY SignalAssumption DEF CallForGone
  <2> QED BY <1>2, <1>3, <2>1 DEF CallsInv, CallsOK
<1>4. ASSUME NEW i \in 1 .. Len(posted'), posted'[i].kind = "publish_data",
             posted'[i].signal \in Signal
      PROVE  InForce(posted', metadata'[posted'[i].signal], posted'[i].signal, i,
                     posted'[i].descriptor)
  <2> DEFINE s == posted[i].signal
  <2>1. s \in Signal \ scan.gone /\ InForce(posted, metadata[s], s, i, posted[i].descriptor)
    BY <1>3, <1>4
  <2>2. i \in 1 .. Len(posted) + 1
    BY <1>2, <1>4
  <2>3. InForce(posted', metadata[s], s, i, posted[i].descriptor)
    BY <1>1, <2>1, <2>2, InForceRescan
  <2> QED BY <1>1, <1>3, <1>4, <2>1, <2>3
<1>5. ASSUME NEW s \in listening'
      PROVE  InForce(posted', metadata'[s], s, Len(posted') + 1, last'[s])
  <2>1. s \in Signal \ scan.gone /\ InForce(posted, metadata[s], s, Len(posted) + 1, last[s])
    BY <1>1, <1>5 DEF CallsInv, CallsOK, TypeOK
  <2>2. InForce(posted', metadata[s], s, Len(posted) + 1, last[s])
    BY <1>1, <1>2, <2>1, InForceRescan
  <2> QED BY <1>1, <1>2, <2>1, <2>2
<1> QED BY <1>4, <1>5 DEF CallsInv, CallsOK
\* When a call runs, what was promised of the ones behind it still is.
LEMMA RunKeepsCalls ==
  ASSUME TypeOK, CallsInv, SetMetadata \/ PublishData \/ RunsForNobody
  PROVE  CallsInv'
<1> DEFINE Now(s) == IF Announcement(posted, 1, s) THEN posted[1].descriptor ELSE metadata[s]
<1>1. /\ posted # <<>> /\ posted' = Tail(posted)
      /\ UNCHANGED <<listening, last>>
  BY DEF SetMetadata, PublishData, RunsForNobody, Runs
<1>2. /\ Head(posted) = posted[1] /\ posted[1] \in Call /\ Len(posted) \in Nat \ {0}
      /\ Len(posted') = Len(posted) - 1
      /\ \A i \in 1 .. Len(posted') : posted'[i] = posted[i + 1]
  BY <1>1 DEF TypeOK
<1>3. ASSUME NEW s \in Signal
      PROVE  metadata'[s] = Now(s)
  <2>1. CASE SetMetadata
    BY <1>2, <2>1 DEF SetMetadata, Runs, Announcement, TypeOK
  <2>2. CASE PublishData
    BY <1>2, <2>2 DEF PublishData, Runs, Announcement
  <2>3. CASE RunsForNobody
    BY <1>2, <2>3 DEF RunsForNobody, CallForGone, Announcement
  <2> QED BY <2>1, <2>2, <2>3
<1>4. ASSUME NEW s \in Signal, NEW d, NEW i \in 2 .. Len(posted) + 1,
             InForce(posted, metadata[s], s, i, d)
      PROVE  InForce(posted', metadata'[s], s, i - 1, d)
  <2>1. InForce(Tail(posted), Now(s), s, i - 1, d)
    BY <1>1, <1>4, InForceTail DEF TypeOK
  <2> QED BY <1>1, <1>3, <2>1
<1>5. ASSUME NEW i \in 1 .. Len(posted'), posted'[i].kind = "publish_data",
             posted'[i].signal \in Signal
      PROVE  InForce(posted', metadata'[posted'[i].signal], posted'[i].signal, i,
                     posted'[i].descriptor)
  <2>1. i + 1 \in 2 .. Len(posted) + 1 /\ i + 1 \in 1 .. Len(posted) /\ (i + 1) - 1 = i
    BY <1>2
  <2>2. posted'[i] = posted[i + 1]
    BY <1>2
  <2> DEFINE c == posted[i + 1]
  <2>3. c.signal \in Signal /\ InForce(posted, metadata[c.signal], c.signal, i + 1, c.descriptor)
    BY <1>5, <2>1, <2>2 DEF CallsInv, CallsOK
  <2>4. InForce(posted', metadata'[c.signal], c.signal, (i + 1) - 1, c.descriptor)
    BY <1>4, <2>1, <2>3
  <2> QED BY <2>1, <2>2, <2>4
<1>6. ASSUME NEW s \in listening'
      PROVE  InForce(posted', metadata'[s], s, Len(posted') + 1, last'[s])
  <2>1. s \in Signal /\ InForce(posted, metadata[s], s, Len(posted) + 1, last[s])
    BY <1>1, <1>6 DEF CallsInv, CallsOK, TypeOK
  <2>2. Len(posted) + 1 \in 2 .. Len(posted) + 1 /\ (Len(posted) + 1) - 1 = Len(posted') + 1
    BY <1>2
  <2> QED BY <1>1, <1>4, <2>1, <2>2
<1> QED BY <1>5, <1>6 DEF CallsInv, CallsOK

\* A client that subscribes when no call for the signal waits begins with a clean
\* queue.
LEMMA SubscribeKeepsCalls ==
  ASSUME Orderly, TypeOK, CallsInv, NEW s \in Signal, Subscribe(s)
  PROVE  CallsInv'
<1>1. /\ posted' = posted /\ listening' = listening \cup {s} /\ Len(posted) \in Nat
      /\ \A i \in 1 .. Len(posted) : posted[i].signal # s
  BY DEF Subscribe, TypeOK
<1>2. \A t \in Signal : t # s => metadata'[t] = metadata[t] /\ last'[t] = last[t]
  BY DEF Subscribe, TypeOK
<1>3. metadata'[s] = last'[s]
  BY DEF Subscribe, TypeOK
<1>4. InForce(posted, metadata'[s], s, Len(posted) + 1, last'[s])
  <2>1. Silent(posted, s, 1, (Len(posted) + 1) - 1)
    BY <1>1 DEF Silent, Announcement
  <2> QED BY <1>3, <2>1 DEF InForce
<1>5. \A i \in 1 .. Len(posted) :
        posted[i].kind = "publish_data" /\ posted[i].signal \in Signal =>
          InForce(posted, metadata'[posted[i].signal], posted[i].signal, i, posted[i].descriptor)
  BY <1>1, <1>2 DEF CallsInv, CallsOK
<1>6. \A t \in listening \cup {s} : InForce(posted, metadata'[t], t, Len(posted) + 1, last'[t])
  BY <1>2, <1>4 DEF CallsInv, CallsOK, TypeOK
<1> QED BY <1>1, <1>5, <1>6 DEF CallsInv, CallsOK

LEMMA CallsInvNext ==
  ASSUME Orderly
  PROVE  TreeInv /\ CallsInv /\ [Next]_vars => CallsInv'
<1> SUFFICES ASSUME TreeInv, CallsInv, [Next]_vars
             PROVE  CallsInv'
  OBVIOUS
<1> USE SignalAssumption, BoundAssumption
<1>0. TypeOK
  BY DEF TreeInv
<1>1. CASE TreeEvent
  BY <1>0, <1>1, EventsAnnounceTrees, RescanKeepsCalls
<1>2. ASSUME NEW s \in Signal, SetDescriptor(s)
      PROVE  CallsInv'
  <2>1. metadata' = metadata /\ listening' = listening
    BY <1>2 DEF SetDescriptor
  <2>2. descriptor'[s] \in Descriptor
    BY <1>0, <1>2 DEF SetDescriptor, TypeOK, Descriptor
  <2>3. CASE Started(s)
    <3>1. OnEventPacket(s, descriptor'[s]) /\ s \in listening
      BY <1>2, <2>3 DEF SetDescriptor, Started
    <3>2. CallsOK(posted', metadata, last', listening)
      BY <1>0, <2>2, <3>1, EventPacketKeepsCalls
    <3> QED BY <2>1, <3>2 DEF CallsInv
  <2>4. CASE ~Started(s)
    BY <1>2, <2>1, <2>4 DEF SetDescriptor, CallsInv
  <2> QED BY <2>3, <2>4
<1>3. ASSUME NEW s \in Signal, NEW d \in Descriptor, Acquire(s, d)
      PROVE  CallsInv'
  <2>1. /\ posted' = posted \o CallsForData(s, d) /\ last' = [last EXCEPT ![s] = d]
        /\ metadata' = metadata /\ listening' = listening /\ s \in listening
    BY <1>3 DEF Acquire, Started
  <2>2. CallsOK(posted', metadata, last', listening)
    BY <1>0, <2>1, DataKeepsCalls
  <2> QED BY <2>1, <2>2 DEF CallsInv
<1>4. ASSUME NEW s \in Signal, Subscribe(s)
      PROVE  CallsInv'
  BY <1>0, <1>4, SubscribeKeepsCalls
<1>5. ASSUME NEW s \in Signal, Unsubscribe(s)
      PROVE  CallsInv'
  <2>1. /\ posted' = posted /\ metadata' = metadata /\ listening' = listening \ {s}
        /\ \A t \in listening' : last'[t] = last[t]
    BY <1>0, <1>5 DEF Unsubscribe, TypeOK
  <2> QED BY <2>1 DEF CallsInv, CallsOK
<1>6. CASE Start
  <2>1. /\ starting \in listening /\ OnEventPacket(starting, descriptor[starting])
        /\ metadata' = metadata /\ listening' = listening
    BY <1>0, <1>6 DEF Start, TypeOK
  <2>2. descriptor[starting] \in Descriptor
    BY <1>0, <2>1 DEF TypeOK
  <2>3. CallsOK(posted', metadata, last', listening)
    BY <1>0, <2>1, <2>2, EventPacketKeepsCalls
  <2> QED BY <2>1, <2>3 DEF CallsInv
<1>7. CASE SetMetadata \/ PublishData \/ RunsForNobody
  BY <1>0, <1>7, RunKeepsCalls
<1>8. CASE UNCHANGED vars
  BY <1>8 DEF vars, streamVars, CallsInv
<1> QED BY <1>1, <1>2, <1>3, <1>4, <1>5, <1>6, <1>7, <1>8 DEF Next, TreeEvent

\* Events and data keep a started listener at the present descriptor or one ahead.
LEMMA ListenersInvNext == TreeInv /\ ListenersInv /\ [Next]_vars => ListenersInv'
<1> SUFFICES ASSUME TreeInv, ListenersInv, [Next]_vars
             PROVE  ListenersInv'
  OBVIOUS
<1> USE SignalAssumption, BoundAssumption
<1>0. TypeOK /\ LocalInv /\ Descriptor \subseteq Nat
  BY DEF TreeInv, Descriptor
<1>1. CASE TreeEvent
  <2>1. Rescan(tree', descriptor', domainOf')
    BY <1>1, EventsAnnounceTrees
  <2> DEFINE scan == Scan(tree', descriptor', domainOf')
  <2>2. /\ starting = NoSignal /\ listening' = listening \ scan.gone
        /\ \A t \in listening' : t \in Signal /\ t \in tree' /\ last'[t] = last[t]
    <3>1. /\ starting = NoSignal /\ listening' = listening \ scan.gone
          /\ last' = [t \in Signal |-> IF t \in scan.gone THEN 0 ELSE last[t]]
      BY <2>1 DEF Rescan, ListeningAfter
    <3>2. \A t \in listening' : t \in tree'
      BY <1>0, <3>1 DEF Scan, Remaining, TypeOK
    <3> QED BY <1>0, <3>1, <3>2 DEF TypeOK
  <2>3. \A t \in listening' : descriptor'[t] = descriptor[t]
    BY <1>0, <1>1, <2>2 DEF TreeEvent, AddSignal, RemoveSignal, SetDomain, OtherEvent, TypeOK, LocalInv
  <2> QED BY <2>2, <2>3, <1>0 DEF ListenersInv, Started
<1>2. ASSUME NEW s \in Signal, SetDescriptor(s)
      PROVE  ListenersInv'
  <2>1. /\ descriptor' = [descriptor EXCEPT ![s] = descriptor[s] + 1]
        /\ UNCHANGED <<listening, starting>>
    BY <1>2 DEF SetDescriptor
  <2>2. Started(s) => last'[s] = descriptor'[s]
    BY <1>0, <1>2 DEF SetDescriptor, OnEventPacket, Announces, TypeOK
  <2>3. \A t \in Signal : t # s => last'[t] = last[t]
    BY <1>0, <1>2 DEF SetDescriptor, OnEventPacket, TypeOK
  <2>4. descriptor'[s] \in Nat
    <3>1. descriptor \in [Signal -> Descriptor] /\ descriptor[s] \in Nat
      BY <1>0 DEF TypeOK
    <3> QED BY <2>1, <3>1
  <2> QED BY <1>0, <2>1, <2>2, <2>3, <2>4 DEF ListenersInv, Started, TypeOK
<1>3. ASSUME NEW s \in Signal, NEW d \in Descriptor, Acquire(s, d)
      PROVE  ListenersInv'
  <2>1. d \in Nat /\ descriptor[s] \in Nat /\ d >= descriptor[s]
    <3>1. d \in Nat /\ descriptor[s] \in Nat
      BY <1>0 DEF TypeOK
    <3>2. d \in {descriptor[s], descriptor[s] + 1}
      BY <1>3 DEF Acquire
    <3> QED BY <3>1, <3>2
  <2> QED BY <1>0, <1>3, <2>1 DEF Acquire, ListenersInv, Started, treeVars, TypeOK
<1>4. ASSUME NEW s \in Signal, Subscribe(s)
      PROVE  ListenersInv'
  BY <1>0, <1>4 DEF Subscribe, ListenersInv, Started, treeVars, TypeOK
<1>5. ASSUME NEW s \in Signal, Unsubscribe(s)
      PROVE  ListenersInv'
  BY <1>0, <1>5 DEF Unsubscribe, ListenersInv, Started, treeVars, TypeOK
<1>6. CASE Start
  <2>1. starting \in Signal /\ descriptor[starting] \in Nat
    BY <1>0, <1>6 DEF Start, TypeOK
  <2>2. last'[starting] = descriptor[starting]
    BY <1>0, <1>6, <2>1 DEF Start, OnEventPacket, Announces, TypeOK
  <2>3. \A t \in Signal : t # starting => last'[t] = last[t]
    BY <1>0, <1>6 DEF Start, OnEventPacket, TypeOK
  <2> QED BY <1>0, <1>6, <2>1, <2>2, <2>3 DEF Start, ListenersInv, Started, treeVars, TypeOK
<1>7. CASE SetMetadata \/ PublishData \/ RunsForNobody
  BY <1>7 DEF SetMetadata, PublishData, RunsForNobody, ListenersInv, Started, treeVars
<1>8. CASE UNCHANGED vars
  BY <1>8 DEF vars, streamVars, treeVars, ListenersInv, Started
<1> QED BY <1>1, <1>2, <1>3, <1>4, <1>5, <1>6, <1>7, <1>8 DEF Next, TreeEvent

LEMMA CallsInit == Init => CallsInv /\ ListenersInv
BY DEF Init, CallsInv, CallsOK, ListenersInv

\* Data goes out under the metadata it was acquired under, for any number of signals,
\* listeners and posted calls, through rescans that take signals away in between.
THEOREM DataMatchesMetadataHolds ==
  ASSUME Orderly
  PROVE  Spec => DataMatchesMetadata
<1>1. ASSUME TypeOK, CallsInv, PublishData
      PROVE  metadata[Head(posted).signal] = Head(posted).descriptor
  <2>1. /\ 1 \in 1 .. Len(posted) /\ Head(posted) = posted[1] /\ posted[1] \in Call
        /\ posted[1].kind = "publish_data" /\ posted[1].signal # NoSignal
    BY <1>1 DEF PublishData, Runs, TypeOK
  <2>2. InForce(posted, metadata[posted[1].signal], posted[1].signal, 1, posted[1].descriptor)
    BY <1>1, <2>1 DEF CallsInv, CallsOK, Call
  <2> QED BY <2>1, <2>2 DEF InForce
<1>2. TypeOK /\ CallsInv /\ [Next]_vars
        => [PublishData => metadata[Head(posted).signal] = Head(posted).descriptor]_vars
  BY <1>1
<1>3. TreeInv => TypeOK
  BY DEF TreeInv
<1> QED BY <1>2, <1>3, CallsInit, CallsInvNext, TreeInvInit, TreeInvNext, PTL
        DEF Spec, DataMatchesMetadata

\* When nothing waits for the I/O thread, no subscriber is behind a descriptor.
THEOREM MetadataCatchesUpHolds ==
  ASSUME Orderly
  PROVE  Spec => []MetadataCatchesUp
<1>1. ASSUME TypeOK, CallsInv, ListenersInv
      PROVE  MetadataCatchesUp
  <2> SUFFICES ASSUME posted = <<>>, NEW s \in listening, Started(s)
               PROVE  metadata[s] >= descriptor[s]
    BY DEF MetadataCatchesUp
  <2>1. InForce(posted, metadata[s], s, Len(posted) + 1, last[s]) /\ Len(posted) = 0
    BY <1>1 DEF CallsInv, CallsOK
  <2>2. metadata[s] = last[s]
    BY <2>1 DEF InForce
  <2> QED BY <1>1, <2>2 DEF ListenersInv
<1>2. TreeInv => TypeOK
  BY DEF TreeInv
<1> QED BY <1>1, <1>2, CallsInit, CallsInvNext, ListenersInvNext, TreeInvInit, TreeInvNext, PTL
        DEF Spec
=============================================================================
