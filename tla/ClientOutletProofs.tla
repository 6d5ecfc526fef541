------------------------ MODULE ClientOutletProofs ------------------------
(***************************************************************************)
(* Theorems about ClientOutlet.tla, for any identifiers, tables, number of *)
(* remote signals and blocks.                                              *)
(***************************************************************************)
EXTENDS ClientOutlet, FiniteSetTheorems, TLAPS

-----------------------------------------------------------------------------
(* The invariant.                                                          *)

\* An openDAQ signal is that of one remote signal, made of its identifier, and its
\* domain signal is the one the packets take.
SignalsInv ==
  /\ \A r \in Remotes :
       /\ signal[r] = NoId => domain[r] = NoId
       /\ signal[r] # NoId =>
            /\ idOf[r] # NoId /\ signal[r] = SafeId[idOf[r]]
            /\ signal[r] \in DOMAIN parent /\ parent[signal[r]] = domain[r]
  /\ \A q, r \in Remotes : signal[q] # NoId /\ signal[q] = signal[r] => q = r
  /\ \A l \in DOMAIN parent :
       /\ \E r \in Remotes : signal[r] = l
       /\ parent[l] \in (DOMAIN parent \ {l}) \cup {NoId}

\* The entries are those of the signals offered, until the block is removed; no two
\* have the same identifier; and what is described in order has a signal.
EntriesInv ==
  /\ link = "Open" => handlers = live
  /\ \A q, r \in handlers : idOf[q] = idOf[r] => q = r
  /\ \A q, r \in live : idOf[q] = idOf[r] => q = r
  /\ live \cap described \subseteq handlers
  /\ ~failed => \A r \in described : signal[r] # NoId

\* Packets are of blocks so far and of signals that have an openDAQ signal.
PacketsInv ==
  /\ \A l \in Locals : \A k \in DOMAIN packets[l] :
       packets[l][k].at <= blocks.count /\ signal[packets[l][k].of] # NoId
  /\ \A r \in Remotes :
       /\ blocks.sent[r] \subseteq 1 .. blocks.count
       /\ r \notin described => blocks.sent[r] = {}

OutletInv ==
  /\ TypeOK /\ SignalsInv /\ EntriesInv /\ PacketsInv
  /\ PacketsPaired /\ BlocksArrive /\ FailsOnlyOnClash

LEMMA OutletInvInit == Init => OutletInv
<1> SUFFICES ASSUME Init PROVE OutletInv
  OBVIOUS
<1> USE OutletAssumption DEF Init
<1>1. TypeOK
  <2>1. packets \in [Locals -> Seq(Packet)]
    OBVIOUS
  <2>2. /\ DOMAIN parent = {} /\ parent \in [DOMAIN parent -> Locals \cup {NoId}]
        /\ blocks \in [count : 0 .. MaxBlocks, sent : [Remotes -> SUBSET (1 .. MaxBlocks)]]
    OBVIOUS
  <2> QED BY <2>1, <2>2 DEF TypeOK
<1>2. SignalsInv /\ EntriesInv /\ PacketsInv
  BY DEF SignalsInv, EntriesInv, PacketsInv, Locals
<1>3. PacketsPaired /\ BlocksArrive /\ FailsOnlyOnClash
  BY DEF PacketsPaired, BlocksArrive, FailsOnlyOnClash, Locals
<1> QED BY <1>1, <1>2, <1>3 DEF OutletInv

-----------------------------------------------------------------------------
(* The catalogue of the client.                                            *)

\* Nothing that openDAQ sees depends on what is offered.
LEMMA StillPaired ==
  ASSUME PacketsPaired, UNCHANGED <<signal, parent, packets>>
  PROVE  PacketsPaired'
<1>1. \A l, r : From(l, r)' = From(l, r)
  BY DEF From
<1> QED BY <1>1 DEF PacketsPaired

LEMMA PacketsKept ==
  ASSUME OutletInv, UNCHANGED <<signal, parent, failed, packets, described, blocks>>
  PROVE  PacketsInv' /\ PacketsPaired' /\ BlocksArrive'
<1>1. PacketsInv'
  BY DEF OutletInv, PacketsInv
<1>3. PacketsPaired'
  BY StillPaired DEF OutletInv
<1>4. \A l, r, n : PacketsOf(l, r, n)' = PacketsOf(l, r, n)
  BY DEF PacketsOf
<1>5. BlocksArrive'
  BY <1>4 DEF OutletInv, BlocksArrive
<1> QED BY <1>1, <1>3, <1>5

LEMMA OfferInv ==
  ASSUME OutletInv, ~failed, NEW r \in Remotes, NEW i \in Ids, Offer(r, i)
  PROVE  OutletInv'
<1>1. /\ idOf[r] = NoId /\ idOf' = [idOf EXCEPT ![r] = i] /\ live' = live \cup {r}
      /\ handlers' = (IF link = "Open" THEN handlers \cup {r} ELSE handlers)
      /\ UNCHANGED <<link, signal, domain, parent, failed, packets, described, blocks>>
      /\ \A q \in live : idOf[q] # i
  BY DEF Offer, OutletInv, TypeOK
<1>2. r \notin live \cup handlers \cup described /\ signal[r] = NoId
  BY <1>1 DEF OutletInv, TypeOK, SignalsInv
<1>3. TypeOK'
  BY <1>1, OutletAssumption DEF OutletInv, TypeOK
<1>4. SignalsInv'
  BY <1>1, <1>2 DEF OutletInv, TypeOK, SignalsInv
<1>5. EntriesInv'
  BY <1>1, <1>2 DEF OutletInv, TypeOK, EntriesInv
<1>6. FailsOnlyOnClash'
  BY <1>1 DEF FailsOnlyOnClash
<1> QED BY <1>1, <1>3, <1>4, <1>5, <1>6, PacketsKept DEF OutletInv

LEMMA CatalogueInv ==
  ASSUME OutletInv, ~failed,
         Remove \/ Disconnect \/ \E r \in Remotes : Withdraw(r)
  PROVE  OutletInv'
<1>1. /\ live' \subseteq live /\ handlers' \subseteq handlers
      /\ live' \cap handlers \subseteq handlers'
      /\ link' = "Open" => link = "Open" /\ handlers' = live'
      /\ link' \in {"Open", "Removed", "Closed"}
      /\ UNCHANGED <<idOf, signal, domain, parent, failed, packets, described, blocks>>
  BY DEF Remove, Disconnect, Withdraw, OutletInv, TypeOK, EntriesInv
<1>2. TypeOK' /\ SignalsInv' /\ EntriesInv' /\ FailsOnlyOnClash'
  BY <1>1 DEF OutletInv, TypeOK, SignalsInv, EntriesInv, FailsOnlyOnClash
<1> QED BY <1>1, <1>2, PacketsKept DEF OutletInv

-----------------------------------------------------------------------------
(* Metadata.                                                               *)

\* The domain signal exists and is not the signal itself.
LEMMA DomainSignal ==
  ASSUME OutletInv, NEW r \in Remotes, NEW t, SafeId[idOf[r]] \notin DOMAIN parent
  PROVE  DomainFor(r, t) \in (DOMAIN parent \ {SafeId[idOf[r]]}) \cup {NoId}
<1> SUFFICES ASSUME t # idOf[r], Named(t) # {}
             PROVE  DomainFor(r, t) \in (DOMAIN parent \ {SafeId[idOf[r]]}) \cup {NoId}
  BY DEF DomainFor
<1>1. PICK h \in Named(t) : DomainFor(r, t) = signal[h]
  BY DEF DomainFor
<1>2. h \in Remotes
  BY <1>1 DEF Named, OutletInv, TypeOK
<1> QED BY <1>1, <1>2 DEF OutletInv, SignalsInv

\* A signal that is described after its domain signal is made or there already.
LEMMA DescribedIsMade ==
  ASSUME OutletInv, ~failed, NEW r \in Remotes, Heard(r), NEW t \in Ids \cup {Unusable},
         InOrder(r, t), NothingMade(r, t)
  PROVE  signal[r] # NoId
<1> SUFFICES ASSUME signal[r] = NoId PROVE FALSE
  OBVIOUS
<1>1. idOf[r] # Unusable /\ \A q \in live : idOf[q] \in Ids
  BY OutletAssumption DEF Heard, OutletInv, TypeOK
<1>2. t # Unusable /\ t # idOf[r] /\ DomainFor(r, t) = NoId
  BY <1>1, OutletAssumption DEF NothingMade, InOrder
<1>3. PICK q \in live \cap described : idOf[q] = t
  BY <1>2 DEF InOrder
<1>4. q \in handlers /\ Named(t) = {q}
  BY <1>3 DEF OutletInv, EntriesInv, Named
<1>5. DomainFor(r, t) = signal[q]
  BY <1>2, <1>4 DEF DomainFor
<1> QED BY <1>2, <1>3, <1>5 DEF OutletInv, EntriesInv

LEMMA MetadataInv ==
  ASSUME OutletInv, ~failed, NEW r \in Remotes, NEW t \in Ids \cup {Unusable},
         Metadata(r, t)
  PROVE  OutletInv'
<1>1. /\ Heard(r) /\ r \in live \cap handlers
      /\ described' = (IF InOrder(r, t) THEN described \cup {r} ELSE described)
      /\ UNCHANGED <<link, idOf, live, handlers, packets, blocks>>
  BY DEF Metadata, Heard
<1>2. idOf[r] \in Ids /\ SafeId[idOf[r]] \in Locals
  BY <1>1 DEF OutletInv, TypeOK, Locals
<1>3. CASE NothingMade(r, t)
  <2>1. UNCHANGED <<signal, domain, parent, failed>>
    BY <1>3 DEF Metadata
  <2>2. ~failed => \A q \in described' : signal[q] # NoId
    BY <1>1, <1>3, DescribedIsMade DEF OutletInv, EntriesInv
  <2>3. TypeOK' /\ SignalsInv' /\ EntriesInv' /\ FailsOnlyOnClash'
    BY <1>1, <1>2, <2>1, <2>2, OutletAssumption
       DEF OutletInv, TypeOK, SignalsInv, EntriesInv, FailsOnlyOnClash
  <2>4. PacketsInv' /\ PacketsPaired'
    BY <1>1, <2>1, StillPaired DEF OutletInv, PacketsInv
  <2>5. BlocksArrive'
    <3>1. \A q, n : PacketsOf(signal[q], q, n)' = PacketsOf(signal[q], q, n)
      BY <1>1, <2>1 DEF PacketsOf
    <3>2. \A q \in described' : q \notin described => blocks.sent[q] = {}
      BY <1>1 DEF OutletInv, TypeOK, PacketsInv
    <3> QED BY <1>1, <2>1, <2>2, <3>1, <3>2 DEF OutletInv, BlocksArrive
  <2> QED BY <2>3, <2>4, <2>5 DEF OutletInv
<1>4. CASE ~NothingMade(r, t) /\ MakeFails(r)
  <2>1. /\ SafeId[idOf[r]] \in DOMAIN parent /\ failed' = TRUE
        /\ UNCHANGED <<signal, domain, parent>>
    BY <1>4 DEF MakeFails
  <2>2. signal[r] = NoId
    BY <1>4 DEF NothingMade
  <2>3. FailsOnlyOnClash'
    <3>1. PICK q \in Remotes : signal[q] = SafeId[idOf[r]]
      BY <2>1 DEF OutletInv, SignalsInv
    <3>2. q # r /\ idOf[q] # NoId /\ idOf[r] # NoId /\ SafeId[idOf[q]] = SafeId[idOf[r]]
      BY <1>2, <2>2, <3>1, OutletAssumption DEF OutletInv, SignalsInv
    <3> QED BY <1>1, <3>2 DEF FailsOnlyOnClash
  <2>4. TypeOK' /\ SignalsInv' /\ EntriesInv'
    BY <1>1, <1>2, <2>1, OutletAssumption DEF OutletInv, TypeOK, SignalsInv, EntriesInv
  <2>5. PacketsInv' /\ PacketsPaired'
    BY <1>1, <2>1, StillPaired DEF OutletInv, PacketsInv
  <2>6. BlocksArrive'
    BY <2>1 DEF BlocksArrive
  <2> QED BY <2>3, <2>4, <2>5, <2>6 DEF OutletInv
<1>5. CASE ~NothingMade(r, t) /\ MakeSignal(r, t)
  <2> DEFINE own == SafeId[idOf[r]]
             dom == DomainFor(r, t)
  <2>1. /\ own \notin DOMAIN parent /\ own \in Locals /\ own # NoId
        /\ signal[r] = NoId
        /\ signal' = [signal EXCEPT ![r] = own] /\ domain' = [domain EXCEPT ![r] = dom]
        /\ DOMAIN parent' = DOMAIN parent \cup {own}
        /\ parent'[own] = dom
        /\ \A l \in DOMAIN parent : parent'[l] = parent[l]
        /\ UNCHANGED failed
    BY <1>2, <1>5, OutletAssumption DEF MakeSignal, NothingMade
  <2>2. dom \in (DOMAIN parent \ {own}) \cup {NoId}
    BY <2>1, DomainSignal
  <2> HIDE DEF own, dom
  <2>3. TypeOK'
    <3>1. parent' \in [DOMAIN parent' -> Locals \cup {NoId}]
      BY <1>5, <2>1, <2>2 DEF MakeSignal, OutletInv, TypeOK, own, dom
    <3> QED BY <1>1, <1>2, <2>1, <2>2, <3>1, OutletAssumption DEF OutletInv, TypeOK
  <2>4. SignalsInv'
    BY <1>1, <1>2, <2>1, <2>2, OutletAssumption DEF OutletInv, TypeOK, SignalsInv, own
  <2>5. EntriesInv'
    BY <1>1, <2>1, OutletAssumption DEF OutletInv, TypeOK, EntriesInv
  <2>6. PacketsInv'
    BY <1>1, <2>1 DEF OutletInv, TypeOK, PacketsInv, Packet
  <2>7. PacketsPaired'
    <3>1. \A l \in Locals : From(l, r) = {} /\ \A q \in Remotes : From(l, q)' = From(l, q)
      BY <1>1, <2>1 DEF OutletInv, PacketsInv, From
    <3>2. \A q \in Remotes : q # r => signal'[q] = signal[q]
      BY <2>1 DEF OutletInv, TypeOK
    <3>3. \A q \in Remotes : signal[q] # NoId =>
             signal[q] \in DOMAIN parent /\ parent'[signal[q]] = parent[signal[q]]
      BY <2>1 DEF OutletInv, SignalsInv
    <3>4. signal'[r] = own /\ parent'[own] \in Locals \cup {NoId}
      BY <2>1, <2>2 DEF OutletInv, TypeOK
    <3>5. \A q \in Remotes : signal[q] # NoId => signal[q] \in Locals
                             /\ parent[signal[q]] \in Locals \cup {NoId}
      BY <3>3 DEF OutletInv, TypeOK
    <3> QED BY <1>1, <2>1, <3>1, <3>2, <3>3, <3>4, <3>5 DEF OutletInv, PacketsPaired
  <2>8. BlocksArrive'
    <3> SUFFICES ASSUME NEW q \in described', NEW n \in blocks.sent[q]
                 PROVE  signal'[q] # NoId /\ Cardinality(PacketsOf(signal'[q], q, n)) = 1
      BY <1>1 DEF BlocksArrive, PacketsOf
    <3>1. q \in described
      BY <1>1, <2>1 DEF OutletInv, TypeOK, PacketsInv
    <3>2. q # r /\ signal'[q] = signal[q]
      BY <2>1, <3>1 DEF OutletInv, TypeOK, EntriesInv
    <3> QED BY <3>1, <3>2 DEF OutletInv, BlocksArrive
  <2>9. FailsOnlyOnClash'
    BY <2>1 DEF FailsOnlyOnClash
  <2> QED BY <2>3, <2>4, <2>5, <2>6, <2>7, <2>8, <2>9 DEF OutletInv
<1> QED BY <1>3, <1>4, <1>5 DEF Metadata

-----------------------------------------------------------------------------
(* Data.                                                                   *)

\* What Append does to the elements of a sequence.
LEMMA Appended ==
  ASSUME NEW S, NEW s \in Seq(S), NEW e \in S
  PROVE  /\ Append(s, e) \in Seq(S)
         /\ DOMAIN Append(s, e) = DOMAIN s \cup {Len(s) + 1}
         /\ Len(s) + 1 \notin DOMAIN s
         /\ \A k \in DOMAIN s : Append(s, e)[k] = s[k] /\ k < Len(s) + 1
         /\ Append(s, e)[Len(s) + 1] = e
OBVIOUS

\* A block goes to the signal and to its domain signal, and nowhere else.
LEMMA WhatIsSent ==
  ASSUME OutletInv, NEW r \in Remotes, signal[r] # NoId, Data(r)
  PROVE  \E p \in Packet :
           /\ p.of = r /\ p.at = blocks.count + 1
           /\ \A l \in Locals :
                packets'[l] = IF l \in {signal[r], domain[r]} THEN Append(packets[l], p)
                              ELSE packets[l]
           /\ packets' \in [Locals -> Seq(Packet)]
<1> DEFINE n == blocks.count + 1
           p == [of |-> r, at |-> n, samples |-> IF domain[r] = NoId THEN 0 ELSE 1]
<1>1. n \in 1 .. MaxBlocks /\ packets' = Sent(r, n)
  BY OutletAssumption DEF Data, OutletInv, TypeOK
<1>2. p \in Packet /\ p.of = r /\ p.at = n
  BY <1>1 DEF Packet
<1>3. /\ signal[r] \in Locals /\ domain[r] \in Locals \cup {NoId}
      /\ domain[r] # signal[r] /\ packets \in [Locals -> Seq(Packet)]
  BY DEF OutletInv, TypeOK, SignalsInv
<1>4. CASE domain[r] = NoId
  <2>1. p = [of |-> r, at |-> n, samples |-> 0]
    BY <1>4
  <2>2. packets' = [packets EXCEPT ![signal[r]] = Append(@, p)]
    BY <1>1, <1>4, <2>1 DEF Sent
  <2> HIDE DEF p
  <2> QED BY <1>2, <1>3, <1>4, <2>2, OutletAssumption
<1>5. CASE domain[r] # NoId
  <2>1. p = [of |-> r, at |-> n, samples |-> 1]
    BY <1>5
  <2>2. packets' = [packets EXCEPT ![domain[r]] = Append(@, p),
                                   ![signal[r]] = Append(@, p)]
    BY <1>1, <1>5, <2>1 DEF Sent
  <2> HIDE DEF p
  <2>3. \A l \in Locals : packets'[l] = IF l \in {signal[r], domain[r]}
                                      THEN Append(packets[l], p) ELSE packets[l]
    BY <1>3, <1>5, <2>2
  <2>4. Append(packets[signal[r]], p) \in Seq(Packet) /\ Append(packets[domain[r]], p) \in Seq(Packet)
    BY <1>2, <1>3, <1>5, Appended
  <2>5. packets' \in [Locals -> Seq(Packet)]
    BY <1>3, <1>5, <2>2, <2>4
  <2> QED BY <1>2, <2>3, <2>5
<1> QED BY <1>4, <1>5

LEMMA DataInv ==
  ASSUME OutletInv, ~failed, NEW r \in Remotes, Data(r)
  PROVE  OutletInv'
<1> DEFINE n == blocks.count + 1
<1>1. /\ Heard(r) /\ n \in 1 .. MaxBlocks /\ packets' = Sent(r, n)
      /\ blocks' = [count |-> n,
                    sent |-> IF r \in described THEN [blocks.sent EXCEPT ![r] = @ \cup {n}]
                             ELSE blocks.sent]
      /\ UNCHANGED <<link, idOf, live, handlers, signal, domain, parent, failed, described>>
  BY OutletAssumption DEF Data, OutletInv, TypeOK, outletVars
<1>2. /\ blocks.count \in Nat /\ blocks'.count = n /\ blocks.count < n
      /\ blocks.sent \in [Remotes -> SUBSET (1 .. MaxBlocks)]
      /\ blocks' \in [count : 0 .. MaxBlocks, sent : [Remotes -> SUBSET (1 .. MaxBlocks)]]
  BY <1>1, OutletAssumption DEF OutletInv, TypeOK
<1>3. \A q \in Remotes : blocks'.sent[q] = IF q = r /\ r \in described
                                           THEN blocks.sent[q] \cup {n} ELSE blocks.sent[q]
  BY <1>1, <1>2
<1>4. SignalsInv' /\ EntriesInv' /\ FailsOnlyOnClash'
  BY <1>1 DEF OutletInv, SignalsInv, EntriesInv, FailsOnlyOnClash
<1>5. \A q \in Remotes :
        blocks'.sent[q] \subseteq 1 .. n /\ (q \notin described => blocks'.sent[q] = {})
  <2> SUFFICES ASSUME NEW q \in Remotes
               PROVE  /\ blocks'.sent[q] \subseteq 1 .. n
                      /\ q \notin described => blocks'.sent[q] = {}
    OBVIOUS
  <2>1. /\ blocks.sent[q] \subseteq 1 .. blocks.count
        /\ q \notin described => blocks.sent[q] = {}
    BY DEF OutletInv, PacketsInv
  <2>2. blocks.sent[q] \subseteq 1 .. n /\ n \in 1 .. n
    BY <1>2, <2>1
  <2> HIDE DEF n
  <2> QED BY <1>3, <2>1, <2>2
<1>6. CASE signal[r] = NoId
  <2>1. packets' = packets
    BY <1>1, <1>6 DEF Sent
  <2>2. r \notin described /\ \A q \in Remotes : blocks'.sent[q] = blocks.sent[q]
    BY <1>3, <1>6 DEF OutletInv, EntriesInv
  <2>3. TypeOK'
    BY <1>1, <1>2, <2>1 DEF OutletInv, TypeOK
  <2>4. \A l \in Locals : \A k \in DOMAIN packets[l] : packets[l][k].at \in Nat
    <3>1. packets \in [Locals -> Seq(Packet)]
      BY DEF OutletInv, TypeOK
    <3>2. \A l \in Locals : \A k \in DOMAIN packets[l] : packets[l][k] \in Packet
      BY <3>1
    <3>3. \A x \in Packet : x.at \in Nat
      BY DEF Packet
    <3> QED BY <3>2, <3>3
  <2>5. PacketsInv'
    BY <1>1, <1>2, <1>5, <2>1, <2>4 DEF OutletInv, PacketsInv
  <2>6. PacketsPaired'
    BY <1>1, <2>1, StillPaired DEF OutletInv
  <2>7. BlocksArrive'
    <3>1. \A q, m : PacketsOf(signal[q], q, m)' = PacketsOf(signal[q], q, m)
      BY <1>1, <2>1 DEF PacketsOf
    <3>2. described \subseteq Remotes
      BY DEF OutletInv, TypeOK
    <3> QED BY <1>1, <2>2, <3>1, <3>2 DEF OutletInv, BlocksArrive
  <2> QED BY <1>4, <2>3, <2>5, <2>6, <2>7 DEF OutletInv
<1>7. CASE signal[r] # NoId
  <2>1. PICK p \in Packet :
          /\ p.of = r /\ p.at = n
          /\ \A l \in Locals :
               packets'[l] = IF l \in {signal[r], domain[r]} THEN Append(packets[l], p)
                             ELSE packets[l]
          /\ packets' \in [Locals -> Seq(Packet)]
    BY <1>7, WhatIsSent
  <2>2. packets \in [Locals -> Seq(Packet)] /\ signal[r] \in Locals
    BY <1>7 DEF OutletInv, TypeOK
  <2>3. \A l \in Locals \ {signal[r], domain[r]} : packets'[l] = packets[l]
    BY <2>1
  <2>4. \A l \in Locals \cap {signal[r], domain[r]} :
          /\ DOMAIN packets'[l] = DOMAIN packets[l] \cup {Len(packets[l]) + 1}
          /\ Len(packets[l]) + 1 \notin DOMAIN packets[l]
          /\ \A k \in DOMAIN packets[l] : packets'[l][k] = packets[l][k] /\ k < Len(packets[l]) + 1
          /\ packets'[l][Len(packets[l]) + 1] = p
    BY <2>1, <2>2, Appended
  <2>5. \A l \in Locals : \A k \in DOMAIN packets[l] :
          /\ packets[l][k] \in Packet /\ packets[l][k].at \in Nat /\ packets[l][k].at < n
    <3>1. \A l \in Locals : \A k \in DOMAIN packets[l] : packets[l][k] \in Packet
      BY <2>2
    <3>2. \A x \in Packet : x.at \in Nat
      BY DEF Packet
    <3> QED BY <1>2, <3>1, <3>2 DEF OutletInv, PacketsInv
  <2>6. TypeOK'
    BY <1>1, <1>2, <2>1 DEF OutletInv, TypeOK
  <2> HIDE DEF n
  <2>7. PacketsInv'
    <3>1. \A l \in Locals : \A k \in DOMAIN packets'[l] :
             packets'[l][k].at <= n /\ signal[packets'[l][k].of] # NoId
      BY <1>2, <1>7, <2>1, <2>3, <2>4, <2>5 DEF OutletInv, PacketsInv
    <3> QED BY <1>1, <1>2, <1>5, <3>1 DEF PacketsInv
  <2>8. PacketsPaired'
    <3>1. \A l \in Locals : \A q \in Remotes :
             From(l, q)' = IF q = r /\ l \in {signal[r], domain[r]}
                           THEN From(l, q) \cup {p} ELSE From(l, q)
      BY <2>1, <2>3, <2>4 DEF From
    <3>2. \A l \in Locals : \A j, k \in DOMAIN packets'[l] :
             j < k => packets'[l][j].at < packets'[l][k].at
      <4> SUFFICES ASSUME NEW l \in Locals, NEW j \in DOMAIN packets'[l],
                          NEW k \in DOMAIN packets'[l], j < k
                   PROVE  packets'[l][j].at < packets'[l][k].at
        OBVIOUS
      <4>1. \A a, b \in DOMAIN packets[l] : a < b => packets[l][a].at < packets[l][b].at
        BY DEF OutletInv, PacketsPaired
      <4>2. CASE l \notin {signal[r], domain[r]}
        BY <2>3, <4>1, <4>2
      <4>3. CASE l \in {signal[r], domain[r]}
        <5> DEFINE last == Len(packets[l]) + 1
        <5>1. /\ DOMAIN packets'[l] = DOMAIN packets[l] \cup {last}
              /\ \A a \in DOMAIN packets[l] : packets'[l][a] = packets[l][a] /\ a < last
              /\ packets'[l][last] = p
          BY <2>4, <4>3
        <5>2. j \in Nat /\ last \in Nat /\ \A a \in DOMAIN packets[l] : a \in Nat
          BY <2>2, <5>1
        <5> HIDE DEF last
        <5>3. j \in DOMAIN packets[l]
          <6>1. CASE k = last
            BY <5>1, <5>2, <6>1
          <6>2. CASE k # last
            BY <5>1, <5>2, <6>2
          <6> QED BY <6>1, <6>2
        <5>4. packets'[l][j] = packets[l][j] /\ packets[l][j].at < n
          BY <2>5, <5>1, <5>3
        <5>5. CASE k = last
          BY <2>1, <5>1, <5>4, <5>5
        <5>6. CASE k # last
          BY <4>1, <5>1, <5>3, <5>4, <5>6
        <5> QED BY <5>5, <5>6
      <4> QED BY <4>2, <4>3
    <3>3. \A q \in Remotes : signal[q] # NoId /\ parent[signal[q]] # NoId =>
             From(parent[signal[q]], q)' = From(signal[q], q)'
      <4> SUFFICES ASSUME NEW q \in Remotes, signal[q] # NoId, parent[signal[q]] # NoId
                   PROVE  From(parent[signal[q]], q)' = From(signal[q], q)'
        OBVIOUS
      <4>1. signal[q] \in Locals /\ parent[signal[q]] \in Locals /\ parent[signal[q]] = domain[q]
        BY DEF OutletInv, TypeOK, SignalsInv
      <4>2. From(parent[signal[q]], q) = From(signal[q], q)
        BY DEF OutletInv, PacketsPaired
      <4>3. From(signal[q], q)' = IF q = r THEN From(signal[q], q) \cup {p} ELSE From(signal[q], q)
        BY <1>1, <3>1, <4>1
      <4>4. From(parent[signal[q]], q)' = IF q = r THEN From(parent[signal[q]], q) \cup {p}
                                          ELSE From(parent[signal[q]], q)
        BY <1>1, <3>1, <4>1
      <4> QED BY <4>2, <4>3, <4>4
    <3> QED BY <1>1, <3>2, <3>3 DEF PacketsPaired
  <2>9. BlocksArrive'
    <3> SUFFICES ASSUME NEW q \in described, NEW m \in blocks'.sent[q]
                 PROVE  signal[q] # NoId /\ Cardinality(PacketsOf(signal[q], q, m)') = 1
      BY <1>1 DEF BlocksArrive, PacketsOf
    <3>1. q \in Remotes /\ signal[q] # NoId /\ signal[q] \in Locals
      BY DEF OutletInv, TypeOK, EntriesInv
    <3>2. CASE q = r /\ m = n
      <4> DEFINE last == Len(packets[signal[r]]) + 1
      <4>1. PacketsOf(signal[q], q, m)' =
              {k \in DOMAIN packets'[signal[r]] : packets'[signal[r]][k].of = r
                                                 /\ packets'[signal[r]][k].at = n}
        BY <1>1, <3>2 DEF PacketsOf
      <4>2. /\ DOMAIN packets'[signal[r]] = DOMAIN packets[signal[r]] \cup {last}
            /\ packets'[signal[r]][last] = p
            /\ \A k \in DOMAIN packets[signal[r]] : packets'[signal[r]][k].at # n
        <5>1. \A k \in DOMAIN packets[signal[r]] :
                 packets'[signal[r]][k] = packets[signal[r]][k]
          BY <2>2, <2>4
        <5>2. \A k \in DOMAIN packets[signal[r]] : packets[signal[r]][k].at # n
          BY <1>2, <2>2, <2>5
        <5> QED BY <2>2, <2>4, <5>1, <5>2
      <4> HIDE DEF last
      <4>3. PacketsOf(signal[q], q, m)' = {last}
        BY <2>1, <4>1, <4>2
      <4>4. Cardinality({last}) = 1
        BY FS_Singleton
      <4> QED BY <3>1, <4>3, <4>4
    <3>3. CASE ~(q = r /\ m = n)
      <4>1. m \in blocks.sent[q] /\ m # n
        <5>1. m \in blocks.sent[q]
          BY <1>3, <3>1, <3>3
        <5>2. m \in 1 .. blocks.count
          BY <3>1, <5>1 DEF OutletInv, PacketsInv
        <5> QED BY <1>2, <5>1, <5>2
      <4>2. PacketsOf(signal[q], q, m)' = PacketsOf(signal[q], q, m)
        BY <1>1, <2>1, <2>3, <2>4, <3>1, <4>1 DEF PacketsOf
      <4> QED BY <3>1, <4>1, <4>2 DEF OutletInv, BlocksArrive
    <3> QED BY <3>2, <3>3
  <2> QED BY <1>4, <2>6, <2>7, <2>8, <2>9 DEF OutletInv
<1> QED BY <1>6, <1>7

-----------------------------------------------------------------------------
(* Theorems.                                                               *)

LEMMA OutletStep == OutletInv /\ [Next]_vars => OutletInv'
<1> SUFFICES ASSUME OutletInv, [Next]_vars PROVE OutletInv'
  OBVIOUS
<1>1. CASE UNCHANGED vars
  <2>1. UNCHANGED <<link, idOf, live, handlers, signal, domain, parent, failed,
                    packets, described, blocks>>
    BY <1>1 DEF vars, outletVars
  <2>2. TypeOK' /\ SignalsInv' /\ EntriesInv' /\ FailsOnlyOnClash'
    BY <2>1 DEF OutletInv, TypeOK, SignalsInv, EntriesInv, FailsOnlyOnClash
  <2> QED BY <2>1, <2>2, PacketsKept DEF OutletInv
<1>2. CASE Next
  <2>1. CASE Remove \/ Disconnect \/ \E r \in Remotes : Withdraw(r)
    BY <1>2, <2>1, CatalogueInv DEF Next
  <2>2. CASE \E r \in Remotes : \E i \in Ids : Offer(r, i)
    BY <1>2, <2>2, OfferInv DEF Next
  <2>3. CASE \E r \in Remotes : \E t \in Ids \cup {Unusable} : Metadata(r, t)
    BY <1>2, <2>3, MetadataInv DEF Next
  <2>4. CASE \E r \in Remotes : Data(r)
    BY <1>2, <2>4, DataInv DEF Next
  <2> QED BY <1>2, <2>1, <2>2, <2>3, <2>4 DEF Next
<1> QED BY <1>1, <1>2

\* The state is well formed whatever the client sends.
THEOREM OutletTypeOK == Spec => []TypeOK
<1>1. OutletInv => TypeOK
  BY DEF OutletInv
<1> QED BY <1>1, OutletInvInit, OutletStep, PTL DEF Spec

\* For any signals, tables and order of messages: a block of a signal that was
\* described after its domain signal is sent on exactly once (onDataReceived()).
THEOREM BlocksArriveHolds == Spec => []BlocksArrive
<1>1. OutletInv => BlocksArrive
  BY DEF OutletInv
<1> QED BY <1>1, OutletInvInit, OutletStep, PTL DEF Spec

\* The domain packet goes to the signal openDAQ takes as domain signal, and each
\* signal sends in the order of the blocks (onDataReceived()).
THEOREM PacketsPairedHolds == Spec => []PacketsPaired
<1>1. OutletInv => PacketsPaired
  BY DEF OutletInv
<1> QED BY <1>1, OutletInvInit, OutletStep, PTL DEF Spec

\* The I/O thread meets an exception only if two remote signals need the same local
\* identifier (onSignalReady()).
THEOREM FailsOnlyOnClashHolds == Spec => []FailsOnlyOnClash
<1>1. OutletInv => FailsOnlyOnClash
  BY DEF OutletInv
<1> QED BY <1>1, OutletInvInit, OutletStep, PTL DEF Spec

\* The domain signals openDAQ is given, as the catalogue has them.
LEMMA CatalogueStep ==
  OutletInv /\ [Next]_vars => [Catalogue!CatalogueNext]_(Catalogue!catalogueVars)
<1> SUFFICES ASSUME OutletInv, [Next]_vars
             PROVE  [Catalogue!CatalogueNext]_(Catalogue!catalogueVars)
  OBVIOUS
<1>1. CASE parent' = parent
  BY <1>1 DEF Catalogue!catalogueVars
<1>2. CASE parent' # parent
  <2>1. PICK r \in Remotes, t \in Ids \cup {Unusable} : Metadata(r, t) /\ MakeSignal(r, t)
    BY <1>2 DEF Next, vars, outletVars, Remove, Disconnect, Offer, Withdraw, Data, Metadata,
       MakeFails
  <2> DEFINE own == SafeId[idOf[r]]
             dom == DomainFor(r, t)
             par == [l \in Locals |-> IF l \in DOMAIN parent THEN parent[l] ELSE NoId]
  <2>2. /\ own \notin DOMAIN parent
        /\ DOMAIN parent' = DOMAIN parent \cup {own} /\ parent'[own] = dom
        /\ \A l \in DOMAIN parent : parent'[l] = parent[l]
    BY <2>1 DEF MakeSignal
  <2>3. own \in Locals /\ own # NoId
    BY <2>1, OutletAssumption DEF Metadata, Heard, OutletInv, TypeOK, Locals
  <2>4. dom \in (DOMAIN parent \ {own}) \cup {NoId}
    BY <2>2, DomainSignal
  <2> HIDE DEF own, dom
  <2>5. par' = [l \in Locals |-> IF l \in DOMAIN parent' THEN parent'[l] ELSE NoId]
    OBVIOUS
  <2>6. par'[own] = dom /\ dom \in DOMAIN parent' \cup {NoId} /\ dom # own
    BY <2>2, <2>3, <2>4, <2>5
  <2>7. \A l \in Locals \ {own} : par'[l] = par[l]
    BY <2>2, <2>5
  <2> HIDE DEF par
  <2>8. Catalogue!Grounded({own}, par')
    BY <2>6 DEF Catalogue!Grounded
  <2> DEFINE group == {own}
  <2>9. Catalogue!Register(group)
    BY <2>2, <2>6, <2>7, <2>8 DEF Catalogue!Register, par
  <2>10. group \in SUBSET Locals
    BY <2>3
  <2> HIDE DEF group
  <2>11. \E g \in SUBSET Locals : Catalogue!Register(g)
    BY <2>9, <2>10 DEF Catalogue!Register
  <2>12. Catalogue!CatalogueNext
    BY <2>11 DEF Catalogue!CatalogueNext
  <2> QED BY <2>12
<1> QED BY <1>1, <1>2

\* Every behaviour of the block is one of SignalCatalogue in which nothing is
\* withdrawn: a signal enters openDAQ once, after its domain signal, and keeps it
\* (onSignalReady()).
THEOREM OutletIsCatalogueHolds == Spec => OutletIsCatalogue
<1>1. Init => Catalogue!CatalogueInit
  BY DEF Init, Catalogue!CatalogueInit
<1> QED
  BY <1>1, OutletInvInit, OutletStep, CatalogueStep, PTL
     DEF Spec, OutletIsCatalogue, Catalogue!CatalogueSpec
=============================================================================
