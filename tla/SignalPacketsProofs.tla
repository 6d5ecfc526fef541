------------------------ MODULE SignalPacketsProofs ------------------------
(***************************************************************************)
(* Theorems about SignalPackets.tla, for any number of signals, any domain *)
(* signals, descriptors and number of blocks.  None is an arbitrary        *)
(* constant; the theorems assume that it is none of the values it is told  *)
(* apart from.                                                             *)
(***************************************************************************)
EXTENDS SignalPackets, WsStreamingProofs

\* None is not a number, not a rule, not a descriptor and not a packet.
NoneIsNothing ==
  /\ None \notin Nat /\ None \notin {"Linear", "Constant"}
  /\ \A s \in Signal : None \notin Descriptors[s]
  /\ \A m : ToDescriptor(m) # None
  /\ \A a, b, c, d, e :
       [descriptor |-> a, offset |-> b, tick |-> c, samples |-> d, domain |-> e] # None

\* A linear rule has a start and a delta, and only a linear rule; the rule of a
\* dimension has a size as well.
WellFormedRule(rule) ==
  /\ rule = [kind |-> rule.kind, start |-> rule.start, delta |-> rule.delta]
  /\ rule.kind \in {"Linear", "Constant", "Explicit"}
  /\ rule.kind # "Linear" => rule.start = None /\ rule.delta = None

WellFormedDimension(dim) ==
  /\ dim = [name |-> dim.name, about |-> dim.about, rule |-> dim.rule]
  /\ dim.rule # None =>
       dim.rule = [kind |-> dim.rule.kind, start |-> dim.rule.start,
                   delta |-> dim.rule.delta, size |-> dim.rule.size]

WellFormedField(field) ==
  /\ field = [name |-> field.name, about |-> field.about, type |-> field.type,
              dims |-> field.dims]
  /\ field.dims = [k \in DOMAIN field.dims |-> field.dims[k]]
  /\ \A k \in DOMAIN field.dims : WellFormedDimension(field.dims[k])

\* A descriptor as openDAQ has it.
WellFormed(d) ==
  /\ d = [about |-> d.about, type |-> d.type, rule |-> d.rule, fields |-> d.fields]
  /\ WellFormedRule(d.rule)
  /\ d.fields = [i \in DOMAIN d.fields |-> d.fields[i]]
  /\ \A i \in DOMAIN d.fields : WellFormedField(d.fields[i])

-----------------------------------------------------------------------------
(* The round trip of a descriptor.                                         *)

\* The two tables of types are inverse to each other.
LEMMA TypesInverse ==
  ASSUME NEW type \in DOMAIN WebSocketDataType
  PROVE  SampleType(WireType(type)) = type
<1>1. DOMAIN WebSocketDataType =
        {"Float32", "Float64", "Int8", "Int16", "Int32", "Int64", "UInt8", "UInt16",
         "UInt32", "UInt64", "Struct"}
  BY DEF WebSocketDataType
<1>2. WireType(type) = WebSocketDataType[type]
  BY DEF WireType
<1>3. DOMAIN OpenDaqSampleType =
        {"real32", "real64", "int8", "int16", "int32", "int64", "uint8", "uint16",
         "uint32", "uint64", "struct"}
  BY DEF OpenDaqSampleType
<1>4. WebSocketDataType[type] \in DOMAIN OpenDaqSampleType
  BY <1>1, <1>3 DEF WebSocketDataType
<1>5. OpenDaqSampleType[WebSocketDataType[type]] = type
  BY <1>1 DEF WebSocketDataType, OpenDaqSampleType
<1> QED BY <1>2, <1>4, <1>5 DEF SampleType

LEMMA RuleRoundTrip ==
  ASSUME NoneIsNothing, NEW rule, WellFormedRule(rule),
         rule.kind = "Linear" => Integral(rule.start) /\ Integral(rule.delta)
  PROVE  RuleDescriptor(RuleMetadata(rule)) = rule
<1>1. CASE rule.kind = "Linear"
  <2>1. /\ rule.start # None /\ AsInt64(rule.start) = rule.start
        /\ rule.delta # None /\ AsInt64(rule.delta) = rule.delta
    BY <1>1 DEF Integral
  <2>2. RuleMetadata(rule) = [kind |-> "Linear", start |-> rule.start, delta |-> rule.delta]
    BY <1>1, <2>1 DEF RuleMetadata, Or
  <2>3. RuleDescriptor(RuleMetadata(rule))
          = [kind |-> "Linear", start |-> rule.start, delta |-> rule.delta]
    BY <2>1, <2>2 DEF RuleDescriptor, Or
  <2> QED BY <1>1, <2>3 DEF WellFormedRule
<1>2. CASE rule.kind = "Constant"
  BY <1>2 DEF RuleMetadata, RuleDescriptor, WellFormedRule
<1>3. CASE rule.kind = "Explicit"
  <2>1. RuleMetadata(rule) = [kind |-> None, start |-> None, delta |-> None]
    BY <1>3 DEF RuleMetadata
  <2>2. RuleDescriptor(RuleMetadata(rule)) = [kind |-> "Explicit", start |-> None, delta |-> None]
    BY <2>1 DEF RuleDescriptor, NoneIsNothing
  <2> QED BY <1>3, <2>2 DEF WellFormedRule
<1> QED BY <1>1, <1>2, <1>3 DEF WellFormedRule

\* A linear rule of a dimension whose parameters are integers arrives.
LEMMA DimensionRuleArrives ==
  ASSUME NEW dim, WellFormedDimension(dim), dim.rule # None, dim.rule.kind = "Linear",
         Integral(dim.rule.start), Integral(dim.rule.delta), Integral(dim.rule.size)
  PROVE  DimensionRuleMetadata(dim.rule) = dim.rule
BY DEF DimensionRuleMetadata, WellFormedDimension, Integral

LEMMA FieldRoundTrip ==
  ASSUME NEW field, WellFormedField(field), field.type \in DOMAIN WebSocketDataType,
         field.about = {},
         \A k \in DOMAIN field.dims :
           LET dim == field.dims[k]
           IN  /\ dim.about = {} /\ dim.rule = field.dims[1].rule
               /\ dim.rule # None /\ dim.rule.kind = "Linear"
               /\ Integral(dim.rule.start) /\ Integral(dim.rule.delta)
               /\ Integral(dim.rule.size)
  PROVE  FieldDescriptor(FieldMetadata(field)) = field
<1> DEFINE m == FieldMetadata(field)
<1>1. m.name = field.name /\ m.type = WireType(field.type)
  BY DEF FieldMetadata
<1>2. /\ DOMAIN m.dims = DOMAIN field.dims
      /\ \A k \in DOMAIN field.dims :
           /\ m.dims[k].name = field.dims[k].name
           /\ m.dims[k].rule = DimensionRuleMetadata(field.dims[1].rule)
  BY DEF FieldMetadata
<1> HIDE DEF m
<1>3. ASSUME NEW k \in DOMAIN field.dims
      PROVE  [name |-> m.dims[k].name, about |-> {}, rule |-> m.dims[k].rule] = field.dims[k]
  <2>1. /\ WellFormedDimension(field.dims[k])
        /\ field.dims[k].about = {} /\ field.dims[k].rule = field.dims[1].rule
    BY DEF WellFormedField
  <2>2. DimensionRuleMetadata(field.dims[k].rule) = field.dims[k].rule
    BY <2>1, DimensionRuleArrives
  <2>3. m.dims[k].name = field.dims[k].name /\ m.dims[k].rule = field.dims[k].rule
    BY <1>2, <2>1, <2>2
  <2> QED BY <2>1, <2>3 DEF WellFormedDimension
<1>4. [k \in DOMAIN m.dims |->
         [name |-> m.dims[k].name, about |-> {}, rule |-> m.dims[k].rule]] = field.dims
  BY <1>2, <1>3 DEF WellFormedField
<1>5. FieldDescriptor(m)
        = [name |-> field.name, about |-> {}, type |-> field.type, dims |-> field.dims]
  BY <1>1, <1>4, TypesInverse DEF FieldDescriptor
<1> QED BY <1>5 DEF WellFormedField, m

\* metadataToDescriptor() undoes descriptorToMetadata() for every descriptor that
\* the wire can carry.
THEOREM DescriptorRoundTrip ==
  ASSUME NoneIsNothing, NEW d, WellFormed(d), Portable(d), NEW id, NEW domainId
  PROVE  ToDescriptor(ToMetadata(d, id, domainId)) = d
<1> DEFINE m == ToMetadata(d, id, domainId)
<1>1. /\ m.about = d.about /\ m.type = WireType(d.type) /\ m.rule = RuleMetadata(d.rule)
      /\ m.fields = [i \in DOMAIN d.fields |-> FieldMetadata(d.fields[i])]
  BY DEF ToMetadata, Portable
<1>2. SampleType(m.type) = d.type
  BY <1>1, TypesInverse DEF Portable
<1>3. RuleDescriptor(m.rule) = d.rule
  BY <1>1, RuleRoundTrip DEF WellFormed, Portable
<1>4. \A i \in DOMAIN d.fields : FieldDescriptor(FieldMetadata(d.fields[i])) = d.fields[i]
  BY FieldRoundTrip DEF WellFormed, Portable
<1> HIDE DEF m
<1>5. [i \in DOMAIN m.fields |-> FieldDescriptor(m.fields[i])] = d.fields
  BY <1>1, <1>4 DEF WellFormed
<1>6. ToDescriptor(m) = [about |-> d.about, type |-> d.type, rule |-> d.rule, fields |-> d.fields]
  BY <1>1, <1>2, <1>3, <1>5 DEF ToDescriptor, Portable
<1> QED BY <1>6 DEF WellFormed, m

-----------------------------------------------------------------------------
(* The handlers.                                                           *)

\* A step of the data path is a step of the handlers, or leaves them alone.
LEMMA PacketStepIsStep == [PacketNext]_allVars => [Next]_vars
<1> SUFFICES ASSUME [PacketNext]_allVars PROVE [Next]_vars
  OBVIOUS
<1>1. ASSUME NEW s \in Signal, MetadataChanged(s) PROVE [Next]_vars
  <2>1. TableOfSignal[s] \in Signal \cup {NoDomain}
    BY PacketAssumption
  <2> QED BY <1>1, <2>1 DEF MetadataChanged, Next, RemoteEvent
<1>2. ASSUME NEW s \in Signal, MetadataUnusable(s) PROVE [Next]_vars
  BY <1>2 DEF MetadataUnusable, Next, RemoteEvent
<1>3. ASSUME NEW s \in Signal, TakeOver(s) PROVE [Next]_vars
  BY <1>3 DEF TakeOver, Next, ServeRequest
<1>4. CASE OtherHandler
  BY <1>4 DEF OtherHandler, Advertised, Confirmed, Ended, Next, RemoteEvent, ServeRequest
<1>5. CASE \/ Tick \/ UNCHANGED allVars
            \/ \E s \in Signal : \E size \in BlockSizes[s] : DataReceived(s, size)
  <2>1. UNCHANGED vars
    BY <1>5 DEF Tick, DataReceived, allVars
  <2> QED BY <2>1
<1> QED BY <1>1, <1>2, <1>3, <1>4, <1>5 DEF PacketNext

\* The data path adds nothing to what the handlers do: whatever is proved of
\* WsStreaming.tla holds while data flows.
THEOREM PacketsKeepHandlers == PacketSpec => Spec
<1>1. PacketInit => Init
  BY DEF PacketInit
<1> QED BY <1>1, PacketStepIsStep, PTL DEF PacketSpec, Spec

\* What metadata does to the entries: signals are published only if described, and
\* none is if s is published already.
LEMMA MetadataChangedEntries ==
  ASSUME TypeInv, NEW s \in Signal, MetadataChanged(s)
  PROVE  /\ described' = described \cup {s}
         /\ domain' = [domain EXCEPT ![s] = TableOfSignal[s]]
         /\ published \subseteq published' /\ published' \ published \subseteq described'
         /\ s \in published => published' = published
         /\ \A t \in Signal :
              parent'[t] = IF t \in published' \ published THEN ParentOf(domain'[t], published')
                           ELSE parent[t]
<1> DEFINE d == TableOfSignal[s]
           desc == described \cup {s}
           dom == [domain EXCEPT ![s] = d]
           new == NewWith(s, desc, dom, {})
<1>1. Metadata(s, d) /\ d \in Signal \cup {NoDomain}
  BY PacketAssumption DEF MetadataChanged
<1>2. MetadataOf(s, desc, dom, {})
  BY <1>1 DEF MetadataOf, Metadata, TypeInv, TypeOK, NoSignal
<1> HIDE DEF desc, dom
<1>3. /\ new \subseteq desc /\ new \cap published = {}
      /\ described' = desc /\ domain' = dom /\ published' = published \cup new
      /\ parent' = [t \in Signal |-> IF t \in new THEN ParentOf(dom[t], published \cup new)
                                                  ELSE parent[t]]
  BY <1>2, MetadataEffects
<1>4. s \in published => new = {}
  BY ReachedFromNone DEF NewWith
<1> HIDE DEF new
<1>5. published' \ published = new
  BY <1>3
<1> QED BY <1>3, <1>4, <1>5 DEF desc, dom

-----------------------------------------------------------------------------
(* The invariant.                                                          *)

ShapeInv ==
  /\ DOMAIN origin = Signal /\ DOMAIN descriptor = Signal
  /\ DOMAIN last = Signal /\ DOMAIN told = Signal
  /\ now \in Nat /\ made \in [Signal -> Nat] /\ sent \in [Signal -> Nat]
  /\ \A s \in Signal : told[s] = [value |-> told[s].value, domain |-> told[s].domain]

\* A descriptor is what conversion made of that on the device; an entry that has
\* one names the domain signal the metadata named; and a published one has one
\* unless its metadata was unusable.
DescriptorsInv ==
  \A s \in Signal :
    /\ IF origin[s] = None THEN descriptor[s] = None
       ELSE origin[s] \in Descriptors[s] /\ descriptor[s] = Received(s, origin[s])
    /\ s \in described => origin[s] # None /\ domain[s] = TableOfSignal[s]
    /\ domain[s] \in {NoDomain, TableOfSignal[s]}
    /\ s \in published \ bad => s \in described

\* The last packet has the present descriptor; with an offset it is a domain packet
\* of a linear signal; and once a domain packet was made for this tick, it is that.
LastInv ==
  \A s \in Signal :
    /\ last[s] # None =>
         /\ descriptor[s] # None /\ last[s].descriptor = descriptor[s]
         /\ last[s].offset # None => Linear(descriptor[s])
                                     /\ last[s].tick = last[s].offset
         /\ last[s].domain # None /\ Linear(last[s].domain.descriptor) =>
              last[s].domain.tick = last[s].tick /\ last[s].domain.offset = last[s].tick
    /\ made[s] # 0 => made[s] = 1 /\ last[s] # None /\ last[s].offset = now

\* openDAQ knows the descriptors of what is published.
ToldInv ==
  \A s \in published :
    /\ descriptor[s] # None => told[s].value = descriptor[s]
    /\ s \notin bad /\ parent[s] = domain[s] /\ domain[s] \in Signal
         /\ descriptor[domain[s]] # None
         => told[s].domain = descriptor[domain[s]]

PacketInv ==
  /\ TypeInv /\ LinksInv /\ ShapeInv /\ DescriptorsInv /\ LastInv /\ ToldInv
  /\ FailsOnlyOnBadMetadata

LEMMA PacketInvInit == PacketInit => PacketInv
<1> SUFFICES ASSUME PacketInit PROVE PacketInv
  OBVIOUS
<1>1. Init /\ TypeInv /\ LinksInv
  BY TypeInvInit, LinksInit DEF PacketInit
<1>2. ShapeInv
  BY DEF PacketInit, ShapeInv
<1>3. DescriptorsInv /\ LastInv /\ ToldInv /\ FailsOnlyOnBadMetadata
  BY <1>1 DEF PacketInit, Init, DescriptorsInv, LastInv, ToldInv, FailsOnlyOnBadMetadata
<1> QED BY <1>1, <1>2, <1>3 DEF PacketInv

\* No signal is its own domain signal.
LEMMA TableIsAnother ==
  ASSUME NEW s \in Signal
  PROVE  TableOfSignal[s] \in (Signal \ {s}) \cup {NoDomain} /\ NoDomain \notin Signal
BY PacketAssumption, DeviceAssumption, DomainAssumption DEF NoSignal

\* A rule stays linear, or not, on its way.
LEMMA LinearAsOnDevice ==
  ASSUME NoneIsNothing, DescriptorsInv, NEW s \in Signal
  PROVE  Linear(descriptor[s]) <=> Linear(origin[s])
<1>1. CASE origin[s] = None
  BY <1>1 DEF DescriptorsInv, Linear
<1>2. CASE origin[s] # None
  <2> DEFINE d == origin[s]
             table == IF TableOfSignal[s] = NoDomain THEN None ELSE TableOfSignal[s]
             m == ToMetadata(d, s, table)
  <2>1. descriptor[s] = ToDescriptor(m) /\ ToDescriptor(m) # None
    BY <1>2 DEF DescriptorsInv, Received, NoneIsNothing
  <2>2. ToDescriptor(m).rule = RuleDescriptor(RuleMetadata(d.rule))
    BY DEF ToDescriptor, ToMetadata
  <2> HIDE DEF m, d
  <2>3. RuleDescriptor(RuleMetadata(d.rule)).kind = "Linear" <=> d.rule.kind = "Linear"
    <3>1. CASE d.rule.kind = "Linear"
      BY <3>1 DEF RuleMetadata, RuleDescriptor
    <3>2. CASE d.rule.kind = "Constant"
      BY <3>2 DEF RuleMetadata, RuleDescriptor
    <3>3. CASE d.rule.kind \notin {"Linear", "Constant"}
      <4>1. RuleMetadata(d.rule) = [kind |-> None, start |-> None, delta |-> None]
        BY <3>3 DEF RuleMetadata
      <4>2. RuleDescriptor(RuleMetadata(d.rule))
              = [kind |-> "Explicit", start |-> None, delta |-> None]
        BY <4>1 DEF RuleDescriptor, NoneIsNothing
      <4> QED BY <3>3, <4>2
    <3> QED BY <3>1, <3>2, <3>3
  <2> QED BY <1>2, <2>1, <2>2, <2>3 DEF Linear, d
<1> QED BY <1>1, <1>2

-----------------------------------------------------------------------------
(* Metadata.                                                               *)

\* Events tell openDAQ of one of the two descriptors of a signal.
LEMMA EmittedShape ==
  ASSUME ShapeInv, NEW s \in Signal, NEW t \in Signal
  PROVE  Emitted(s)[t] = [value |-> Emitted(s)[t].value, domain |-> Emitted(s)[t].domain]
<1>1. told[t] = [value |-> told[t].value, domain |-> told[t].domain]
  BY DEF ShapeInv
<1>2. /\ [told[t] EXCEPT !.value = descriptor'[s]]
           = [value |-> descriptor'[s], domain |-> told[t].domain]
      /\ [told[t] EXCEPT !.domain = descriptor'[s]]
           = [value |-> told[t].value, domain |-> descriptor'[s]]
  BY <1>1
<1>3. CASE t = s
  <2>1. Emitted(s)[t] = [told[t] EXCEPT !.value = descriptor'[s]]
    BY <1>3 DEF Emitted, Dependents
  <2> QED BY <1>2, <2>1
<1>4. CASE t # s /\ t \in Dependents(s)
  <2>1. Emitted(s)[t] = [told[t] EXCEPT !.domain = descriptor'[s]]
    BY <1>4 DEF Emitted
  <2> QED BY <1>2, <2>1
<1>5. CASE t # s /\ t \notin Dependents(s)
  <2>1. Emitted(s)[t] = told[t]
    BY <1>5 DEF Emitted
  <2> QED BY <1>1, <2>1
<1> QED BY <1>3, <1>4, <1>5

LEMMA MetadataChangedInv ==
  ASSUME NoneIsNothing, PacketInv, TypeInv', LinksInv', NEW s \in Signal,
         MetadataChanged(s), ~failed
  PROVE  PacketInv'
<1>1. /\ described' = described \cup {s}
      /\ domain' = [domain EXCEPT ![s] = TableOfSignal[s]]
      /\ published \subseteq published' /\ published' \ published \subseteq described'
      /\ s \in published => published' = published
      /\ \A t \in Signal :
           parent'[t] = IF t \in published' \ published THEN ParentOf(domain'[t], published')
                        ELSE parent[t]
  BY MetadataChangedEntries DEF PacketInv
<1>2. PICK d \in Descriptors[s] :
        /\ origin' = [origin EXCEPT ![s] = d]
        /\ descriptor' = [descriptor EXCEPT ![s] = Received(s, d)]
  BY DEF MetadataChanged
<1>3. /\ last' = [last EXCEPT ![s] = None] /\ made' = [made EXCEPT ![s] = 0]
      /\ told' = (IF s \in published THEN Emitted(s) ELSE Introduced)
      /\ UNCHANGED <<failed, now, sent, bad>>
  BY DEF MetadataChanged, LastWithout, deviceVars
<1>4. d # None /\ Received(s, d) # None
  BY DEF NoneIsNothing, Received
<1>5. /\ \A t \in Signal \ {s} : origin'[t] = origin[t] /\ descriptor'[t] = descriptor[t]
                                 /\ last'[t] = last[t] /\ made'[t] = made[t]
                                 /\ domain'[t] = domain[t]
      /\ origin'[s] = d /\ descriptor'[s] = Received(s, d) /\ last'[s] = None /\ made'[s] = 0
      /\ domain'[s] = TableOfSignal[s]
  BY <1>1, <1>2, <1>3 DEF PacketInv, ShapeInv, TypeInv, TypeOK
<1>6. /\ published' \subseteq Signal /\ described' \subseteq Signal
      /\ \A t \in Signal : parent[t] \in published \cup {NoDomain, GonePublished}
      /\ NoDomain \notin Signal /\ GonePublished \notin Signal
  BY DomainAssumption DEF PacketInv, TypeInv, TypeOK, LinksInv, NoSignal
<1>7. ShapeInv'
  <2>1. \A t \in Signal : told'[t] = [value |-> told'[t].value, domain |-> told'[t].domain]
    <3>1. ASSUME NEW t \in Signal
          PROVE  Introduced[t] = [value |-> Introduced[t].value, domain |-> Introduced[t].domain]
      <4>1. told[t] = [value |-> told[t].value, domain |-> told[t].domain]
        BY DEF PacketInv, ShapeInv
      <4>2. CASE t \in published' \ published
        BY <4>2 DEF Introduced
      <4>3. CASE t \notin published' \ published
        BY <4>1, <4>3 DEF Introduced
      <4> QED BY <4>2, <4>3
    <3>2. \A t \in Signal :
             Emitted(s)[t] = [value |-> Emitted(s)[t].value, domain |-> Emitted(s)[t].domain]
      BY EmittedShape DEF PacketInv
    <3> QED BY <1>3, <3>1, <3>2
  <2>2. DOMAIN told' = Signal
    BY <1>3 DEF Emitted, Introduced
  <2> QED BY <1>2, <1>3, <2>1, <2>2 DEF PacketInv, ShapeInv
<1>8. DescriptorsInv'
  BY <1>1, <1>3, <1>4, <1>5, <1>6 DEF PacketInv, DescriptorsInv
<1>9. LastInv'
  BY <1>3, <1>5 DEF PacketInv, LastInv
<1>10. ToldInv'
  <2> SUFFICES ASSUME NEW x \in published'
               PROVE  /\ descriptor'[x] # None => told'[x].value = descriptor'[x]
                      /\ x \notin bad /\ parent'[x] = domain'[x] /\ domain'[x] \in Signal
                           /\ descriptor'[domain'[x]] # None
                           => told'[x].domain = descriptor'[domain'[x]]
    BY <1>3 DEF ToldInv
  <2>1. x \in Signal
    BY <1>6
  <2>2. CASE s \in published
    <3>1. published' = published /\ parent'[x] = parent[x]
      BY <1>1, <2>1, <2>2
    <3>2. told'[x] = CASE x = s -> [told[x] EXCEPT !.value = descriptor'[s]]
                       [] x \in Dependents(s) -> [told[x] EXCEPT !.domain = descriptor'[s]]
                       [] OTHER -> told[x]
      BY <1>3, <2>1, <2>2 DEF Emitted
    <3>3. x \in Dependents(s) <=> x # s /\ domain'[x] = s
      BY <3>1 DEF Dependents
    <3>4. told[x] = [value |-> told[x].value, domain |-> told[x].domain]
      BY <2>1 DEF PacketInv, ShapeInv
    <3>5. CASE x = s
      <4>1. told'[s].value = descriptor'[s] /\ told'[s].domain = told[s].domain
        BY <3>2, <3>3, <3>4, <3>5
      <4>2. domain'[s] # s /\ domain'[s] \in Signal \cup {NoDomain}
        BY <1>5, TableIsAnother
      <4>3. s \notin bad => domain'[s] = domain[s]
        BY <1>5, <2>2, <2>1 DEF PacketInv, DescriptorsInv
      <4> QED BY <1>5, <2>2, <3>1, <3>5, <4>1, <4>2, <4>3 DEF PacketInv, ToldInv
    <3>6. CASE x # s /\ domain'[x] = s
      <4>1. told'[x].domain = descriptor'[s] /\ told'[x].value = told[x].value
        BY <3>2, <3>3, <3>4, <3>6
      <4> QED BY <1>5, <2>1, <3>1, <3>6, <4>1 DEF PacketInv, ToldInv
    <3>7. CASE x # s /\ domain'[x] # s
      <4>1. told'[x] = told[x]
        BY <3>2, <3>3, <3>7
      <4> QED BY <1>5, <2>1, <3>1, <3>7, <4>1 DEF PacketInv, ToldInv
    <3> QED BY <3>5, <3>6, <3>7
  <2>3. CASE s \notin published
    <3>1. told'[x] = IF x \in published' \ published
                     THEN [value |-> descriptor'[x],
                           domain |-> IF parent'[x] \in Signal THEN descriptor'[parent'[x]]
                                      ELSE None]
                     ELSE told[x]
      BY <1>3, <2>1, <2>3 DEF Introduced
    <3>2. CASE x \in published' \ published
      BY <3>1, <3>2
    <3>3. CASE x \in published
      <4>1. x # s /\ parent'[x] = parent[x] /\ told'[x] = told[x]
        BY <1>1, <2>1, <2>3, <3>1, <3>3
      <4>2. parent[x] # s
        BY <1>6, <2>1, <2>3
      <4> QED BY <1>5, <2>1, <3>3, <4>1, <4>2 DEF PacketInv, ToldInv
    <3> QED BY <3>2, <3>3
  <2> QED BY <2>2, <2>3
<1>11. FailsOnlyOnBadMetadata'
  BY <1>3 DEF FailsOnlyOnBadMetadata
<1> QED BY <1>7, <1>8, <1>9, <1>10, <1>11 DEF PacketInv

LEMMA MetadataUnusableInv ==
  ASSUME NoneIsNothing, PacketInv, TypeInv', LinksInv', NEW s \in Signal,
         MetadataUnusable(s), ~failed
  PROVE  PacketInv'
<1>1. /\ described' = described \ {s} /\ domain' = [domain EXCEPT ![s] = NoDomain]
      /\ origin' = [origin EXCEPT ![s] = None] /\ descriptor' = [descriptor EXCEPT ![s] = None]
      /\ last' = [last EXCEPT ![s] = None] /\ made' = [made EXCEPT ![s] = 0]
      /\ bad' = {s} /\ bad = {}
      /\ UNCHANGED <<published, parent, told, failed, now, sent>>
  BY DEF MetadataUnusable, MetadataBad, LastWithout, deviceVars
<1>2. /\ \A t \in Signal \ {s} : origin'[t] = origin[t] /\ descriptor'[t] = descriptor[t]
                                 /\ last'[t] = last[t] /\ made'[t] = made[t]
                                 /\ domain'[t] = domain[t]
      /\ origin'[s] = None /\ descriptor'[s] = None /\ last'[s] = None /\ made'[s] = 0
      /\ domain'[s] = NoDomain
  BY <1>1 DEF PacketInv, ShapeInv, TypeInv, TypeOK
<1>3. published \subseteq Signal
  BY DEF PacketInv, TypeInv, TypeOK
<1>4. ShapeInv'
  BY <1>1 DEF PacketInv, ShapeInv
<1>5. DescriptorsInv'
  BY <1>1, <1>2 DEF PacketInv, DescriptorsInv
<1>6. LastInv'
  BY <1>1, <1>2 DEF PacketInv, LastInv
<1>7. ToldInv'
  BY <1>1, <1>2, <1>3 DEF PacketInv, ToldInv
<1>8. FailsOnlyOnBadMetadata'
  BY <1>1 DEF FailsOnlyOnBadMetadata
<1> QED BY <1>4, <1>5, <1>6, <1>7, <1>8 DEF PacketInv

-----------------------------------------------------------------------------
(* The other handlers.                                                     *)

LEMMA TakeOverInv ==
  ASSUME PacketInv, TypeInv', LinksInv', NEW s \in Signal, TakeOver(s), ~failed
  PROVE  PacketInv'
<1>1. /\ UNCHANGED <<described, domain, published, parent>>
      /\ UNCHANGED <<origin, descriptor, last, failed, now, sent, made, bad>>
      /\ told' = (IF s \in described THEN Emitted(s) ELSE told)
  BY DEF TakeOver, SubscribeTakesOver, Serving, deviceVars, historyVars
<1>2. ShapeInv'
  <2>1. \A t \in Signal : told'[t] = [value |-> told'[t].value, domain |-> told'[t].domain]
    BY <1>1, EmittedShape DEF PacketInv, ShapeInv
  <2>2. DOMAIN told' = Signal
    BY <1>1 DEF PacketInv, ShapeInv, Emitted
  <2> QED BY <1>1, <2>1, <2>2 DEF PacketInv, ShapeInv
<1>3. DescriptorsInv' /\ LastInv' /\ FailsOnlyOnBadMetadata'
  BY <1>1 DEF PacketInv, DescriptorsInv, LastInv, FailsOnlyOnBadMetadata
<1>4. ToldInv'
  <2>1. CASE s \notin described
    BY <1>1, <2>1 DEF PacketInv, ToldInv
  <2>2. CASE s \in described
    <3> SUFFICES ASSUME NEW x \in published
                 PROVE  /\ descriptor[x] # None => told'[x].value = descriptor[x]
                        /\ x \notin bad /\ parent[x] = domain[x] /\ domain[x] \in Signal
                             /\ descriptor[domain[x]] # None
                             => told'[x].domain = descriptor[domain[x]]
      BY <1>1 DEF ToldInv
    <3>1. x \in Signal /\ told[x] = [value |-> told[x].value, domain |-> told[x].domain]
      BY DEF PacketInv, TypeInv, TypeOK, ShapeInv
    <3>2. told'[x] = CASE x = s -> [told[x] EXCEPT !.value = descriptor[s]]
                       [] x \in Dependents(s) -> [told[x] EXCEPT !.domain = descriptor[s]]
                       [] OTHER -> told[x]
      BY <1>1, <2>2, <3>1 DEF Emitted
    <3>3. x \in Dependents(s) <=> x # s /\ domain[x] = s
      BY <1>1 DEF Dependents
    <3>4. CASE x = s
      <4>1. told'[x].value = descriptor[x] /\ told'[x].domain = told[x].domain
        BY <3>1, <3>2, <3>3, <3>4
      <4> QED BY <4>1 DEF PacketInv, ToldInv
    <3>5. CASE x # s /\ domain[x] = s
      <4>1. told'[x].domain = descriptor[s] /\ told'[x].value = told[x].value
        BY <3>1, <3>2, <3>3, <3>5
      <4> QED BY <3>5, <4>1 DEF PacketInv, ToldInv
    <3>6. CASE x # s /\ domain[x] # s
      <4>1. told'[x] = told[x]
        BY <3>2, <3>3, <3>6
      <4> QED BY <4>1 DEF PacketInv, ToldInv
    <3> QED BY <3>4, <3>5, <3>6
  <2> QED BY <2>1, <2>2
<1> QED BY <1>2, <1>3, <1>4 DEF PacketInv

LEMMA OtherHandlerInv ==
  ASSUME PacketInv, TypeInv', LinksInv', OtherHandler, ~failed
  PROVE  PacketInv'
<1>1. UNCHANGED <<described, domain, published, parent>>
  BY DEF OtherHandler, Advertised, AvailableFetch, Confirmed, RemoteSubscribed, Ended,
     RemoteUnsubscribed, SubscribeRefused, SubscribeSent, UnsubscribeServed, Serving,
     Application, AskSubscribe, AskUnsubscribe, entryVars
<1>2. /\ UNCHANGED <<origin, descriptor, last, failed, now, sent, made, bad>>
      /\ told' = Introduced
  BY DEF OtherHandler, deviceVars, historyVars
<1>3. DOMAIN told' = Signal /\ \A t \in Signal : told'[t] = told[t]
  BY <1>1, <1>2 DEF Introduced
<1>4. ShapeInv'
  BY <1>2, <1>3 DEF PacketInv, ShapeInv
<1>5. DescriptorsInv' /\ LastInv' /\ FailsOnlyOnBadMetadata'
  BY <1>1, <1>2 DEF PacketInv, DescriptorsInv, LastInv, FailsOnlyOnBadMetadata
<1>6. ToldInv'
  <2>1. published \subseteq Signal
    BY DEF PacketInv, TypeInv, TypeOK
  <2> QED BY <1>1, <1>2, <1>3, <2>1 DEF PacketInv, ToldInv
<1> QED BY <1>4, <1>5, <1>6 DEF PacketInv

-----------------------------------------------------------------------------
(* Data.                                                                   *)

\* The domain packet of a block has the descriptor of the domain signal, and if that
\* is linear it was made for this tick.
LEMMA DomainPacketTick ==
  ASSUME NoneIsNothing, PacketInv, NEW s \in Signal, NEW size, DomainPacket(s, size) # None
  PROVE  /\ domain[s] \in Signal /\ descriptor[domain[s]] # None
         /\ DomainPacket(s, size).descriptor = descriptor[domain[s]]
         /\ Linear(DomainPacket(s, size).descriptor) =>
              DomainPacket(s, size).tick = now /\ DomainPacket(s, size).offset = now
<1> DEFINE d == domain[s]
<1>1. d \in Signal /\ descriptor[d] # None
  BY DEF DomainPacket, HasDomain
<1>2. CASE NeedsDomainPacket(d)
  <2>1. DomainPacket(s, size) = [descriptor |-> descriptor[d], offset |-> now, tick |-> now,
                                 samples |-> size, domain |-> None]
    BY <1>2 DEF DomainPacket, HasDomain, Packet
  <2> QED BY <1>1, <2>1
<1>3. CASE ~NeedsDomainPacket(d)
  <2>1. DomainPacket(s, size) = last[d] /\ last[d] # None
    BY <1>3 DEF DomainPacket, HasDomain
  <2>2. last[d].descriptor = descriptor[d]
    BY <1>1, <2>1 DEF PacketInv, LastInv
  <2>3. Linear(descriptor[d]) => last[d].offset = now /\ last[d].offset # None
    BY <1>3 DEF NeedsDomainPacket
  <2>4. Linear(descriptor[d]) => last[d].tick = now
    BY <1>1, <2>1, <2>3 DEF PacketInv, LastInv
  <2> QED BY <1>1, <2>1, <2>2, <2>3, <2>4
<1> QED BY <1>2, <1>3

\* What a block of a subscribed signal leaves behind.
LEMMA DataEffects ==
  ASSUME NoneIsNothing, PacketInv, NEW s \in Signal, NEW size,
         DataReceived(s, size), Forwarded(s)
  PROVE  LET d == domain[s]
             new == HasDomain(s) /\ NeedsDomainPacket(d)
         IN  /\ s # d
             /\ descriptor[s] # None =>
                  last'[s] = Packet(descriptor[s], None, size, DomainPacket(s, size))
             /\ descriptor[s] = None => last'[s] = last[s]
             /\ new => /\ d \in Signal /\ Linear(descriptor[d])
                       /\ last'[d] = Packet(descriptor[d], now, size, None)
                       /\ made' = [made EXCEPT ![d] = @ + 1]
             /\ ~new => made' = made
             /\ \A x \in Signal \ {s} : ~(new /\ x = d) => last'[x] = last[x]
             /\ DOMAIN last' = Signal
             /\ failed' = (descriptor[s] = None)
<1> DEFINE d == domain[s]
           new == HasDomain(s) /\ NeedsDomainPacket(d)
<1>1. s # d
  BY TableIsAnother DEF PacketInv, DescriptorsInv
<1>2. /\ last' = [x \in Signal |->
            CASE x = s /\ descriptor[s] # None ->
                   Packet(descriptor[s], None, size, DomainPacket(s, size))
              [] x = d /\ new -> DomainPacket(s, size)
              [] OTHER -> last[x]]
      /\ made' = IF new THEN [made EXCEPT ![d] = @ + 1] ELSE made
      /\ failed' = (descriptor[s] = None)
  BY DEF DataReceived
<1>3. new => d \in Signal /\ Linear(descriptor[d])
             /\ DomainPacket(s, size) = Packet(descriptor[d], now, size, None)
  BY DEF HasDomain, NeedsDomainPacket, DomainPacket
<1> HIDE DEF new, d
<1>4. /\ descriptor[s] # None => last'[s] = Packet(descriptor[s], None, size, DomainPacket(s, size))
      /\ descriptor[s] = None => last'[s] = last[s]
  BY <1>1, <1>2
<1>5. new => last'[d] = DomainPacket(s, size)
  BY <1>1, <1>2, <1>3
<1>6. \A x \in Signal \ {s} : ~(new /\ x = d) => last'[x] = last[x]
  BY <1>2
<1>7. DOMAIN last' = Signal
  BY <1>2
<1> QED BY <1>1, <1>2, <1>3, <1>4, <1>5, <1>6, <1>7 DEF new, d

LEMMA DataReceivedInv ==
  ASSUME NoneIsNothing, PacketInv, TypeInv', LinksInv', NEW s \in Signal, NEW size,
         DataReceived(s, size), ~failed
  PROVE  PacketInv'
<1>1. /\ UNCHANGED <<described, domain, published, parent>>
      /\ UNCHANGED <<origin, descriptor, told, now, bad>>
      /\ sent' = [sent EXCEPT ![s] = now] /\ ~Linear(origin[s])
  BY DEF DataReceived, vars, entryVars
<1>2. DescriptorsInv' /\ ToldInv'
  BY <1>1 DEF PacketInv, DescriptorsInv, ToldInv
<1>3. sent' \in [Signal -> Nat]
  BY <1>1 DEF PacketInv, ShapeInv
<1>4. CASE ~Forwarded(s)
  <2>1. UNCHANGED <<last, made, failed>>
    BY <1>4 DEF DataReceived
  <2>2. ShapeInv' /\ LastInv' /\ FailsOnlyOnBadMetadata'
    BY <1>1, <1>3, <2>1 DEF PacketInv, ShapeInv, LastInv, FailsOnlyOnBadMetadata
  <2> QED BY <1>2, <2>2 DEF PacketInv
<1>5. CASE Forwarded(s)
  <2> DEFINE d == domain[s]
             new == HasDomain(s) /\ NeedsDomainPacket(d)
  <2>1. /\ s # d
        /\ descriptor[s] # None => last'[s] = Packet(descriptor[s], None, size, DomainPacket(s, size))
        /\ descriptor[s] = None => last'[s] = last[s]
        /\ new => /\ d \in Signal /\ Linear(descriptor[d])
                  /\ last'[d] = Packet(descriptor[d], now, size, None)
                  /\ made' = [made EXCEPT ![d] = @ + 1]
        /\ ~new => made' = made
        /\ \A x \in Signal \ {s} : ~(new /\ x = d) => last'[x] = last[x]
        /\ DOMAIN last' = Signal
        /\ failed' = (descriptor[s] = None)
    BY <1>5, DataEffects
  <2>2. /\ made \in [Signal -> Nat] /\ now \in Nat /\ None \notin Nat
        /\ \A x \in Signal : made[x] # 0 => made[x] = 1 /\ last[x] # None /\ last[x].offset = now
    BY DEF PacketInv, ShapeInv, LastInv, NoneIsNothing
  <2>3. new => made[d] = 0
    BY <2>1, <2>2 DEF NeedsDomainPacket
  <2>4. descriptor[s] # None => made[s] = 0
    <3>1. ~Linear(descriptor[s])
      BY <1>1, LinearAsOnDevice DEF PacketInv
    <3> QED BY <2>2, <3>1 DEF PacketInv, LastInv
  <2>5. /\ made' \in [Signal -> Nat]
        /\ new => made'[d] = 1
        /\ \A x \in Signal : ~(new /\ x = d) => made'[x] = made[x]
    BY <2>1, <2>2, <2>3
  <2>6. ShapeInv'
    BY <1>1, <1>3, <2>1, <2>5 DEF PacketInv, ShapeInv
  <2>7. \A a, b, c : /\ Packet(a, b, size, c) # None /\ Packet(a, b, size, c).descriptor = a
                     /\ Packet(a, b, size, c).offset = b /\ Packet(a, b, size, c).tick = now
                     /\ Packet(a, b, size, c).domain = c
    BY DEF Packet, NoneIsNothing
  <2>8. LastInv'
    <3> SUFFICES ASSUME NEW x \in Signal
                 PROVE  /\ last'[x] # None =>
                             /\ descriptor[x] # None /\ last'[x].descriptor = descriptor[x]
                             /\ last'[x].offset # None => Linear(descriptor[x])
                                                         /\ last'[x].tick = last'[x].offset
                             /\ last'[x].domain # None /\ Linear(last'[x].domain.descriptor) =>
                                  /\ last'[x].domain.tick = last'[x].tick
                                  /\ last'[x].domain.offset = last'[x].tick
                        /\ made'[x] # 0 => made'[x] = 1 /\ last'[x] # None /\ last'[x].offset = now
      BY <1>1 DEF LastInv, Linear
    <3>1. CASE x = s /\ descriptor[s] # None
      <4>1. last'[x] = Packet(descriptor[s], None, size, DomainPacket(s, size)) /\ made'[x] = 0
        BY <2>1, <2>4, <2>5, <3>1
      <4>2. DomainPacket(s, size) # None /\ Linear(DomainPacket(s, size).descriptor) =>
              DomainPacket(s, size).tick = now /\ DomainPacket(s, size).offset = now
        BY DomainPacketTick
      <4> QED BY <2>7, <3>1, <4>1, <4>2
    <3>2. CASE new /\ x = d
      <4>1. last'[x] = Packet(descriptor[x], now, size, None) /\ made'[x] = 1
        BY <2>1, <2>5, <3>2
      <4>2. descriptor[x] # None /\ Linear(descriptor[x])
        BY <2>1, <3>2 DEF Linear
      <4> QED BY <2>7, <4>1, <4>2
    <3>3. CASE ~(x = s /\ descriptor[s] # None) /\ ~(new /\ x = d)
      <4>1. last'[x] = last[x] /\ made'[x] = made[x]
        BY <2>1, <2>5, <3>3
      <4> QED BY <4>1 DEF PacketInv, LastInv
    <3> QED BY <3>1, <3>2, <3>3
  <2>9. FailsOnlyOnBadMetadata'
    <3> SUFFICES ASSUME descriptor[s] = None PROVE s \in bad
      BY <1>1, <2>1 DEF FailsOnlyOnBadMetadata
    <3>1. s \in published
      BY <1>5 DEF Forwarded, PacketInv, TypeInv, TypeOK
    <3>2. s \notin described
      BY DEF PacketInv, DescriptorsInv, Received, NoneIsNothing
    <3> QED BY <3>1, <3>2 DEF PacketInv, DescriptorsInv
  <2> QED BY <1>2, <2>6, <2>8, <2>9 DEF PacketInv
<1> QED BY <1>4, <1>5

LEMMA TickInv ==
  ASSUME NoneIsNothing, PacketInv, TypeInv', LinksInv', Tick, ~failed
  PROVE  PacketInv'
<1>1. /\ UNCHANGED <<described, domain, published, parent>>
      /\ UNCHANGED <<origin, descriptor, last, told, failed, sent, bad>>
      /\ now' = now + 1 /\ made' = [s \in Signal |-> 0]
  BY DEF Tick, vars, entryVars, packetVars
<1>2. ShapeInv'
  BY <1>1 DEF PacketInv, ShapeInv
<1>3. DescriptorsInv' /\ ToldInv' /\ FailsOnlyOnBadMetadata'
  BY <1>1 DEF PacketInv, DescriptorsInv, ToldInv, FailsOnlyOnBadMetadata
<1>4. LastInv'
  BY <1>1 DEF PacketInv, LastInv
<1> QED BY <1>2, <1>3, <1>4 DEF PacketInv

-----------------------------------------------------------------------------
(* Theorems.                                                               *)

LEMMA PacketInvStep ==
  ASSUME NoneIsNothing
  PROVE  PacketInv /\ [PacketNext]_allVars => PacketInv'
<1> SUFFICES ASSUME PacketInv, [PacketNext]_allVars PROVE PacketInv'
  OBVIOUS
<1>1. [Next]_vars
  BY PacketStepIsStep
<1>2. TypeInv' /\ LinksInv'
  BY <1>1, TypeInvNext, LinksStep DEF PacketInv
<1>3. CASE UNCHANGED allVars
  <2>1. /\ UNCHANGED <<described, domain, published, parent>>
        /\ UNCHANGED <<origin, descriptor, last, told, failed, now, sent, made, bad>>
    BY <1>3 DEF allVars, vars, entryVars, packetVars, deviceVars, historyVars
  <2>2. ShapeInv' /\ DescriptorsInv' /\ LastInv' /\ ToldInv' /\ FailsOnlyOnBadMetadata'
    BY <2>1
       DEF PacketInv, ShapeInv, DescriptorsInv, LastInv, ToldInv, FailsOnlyOnBadMetadata
  <2> QED BY <1>2, <2>2 DEF PacketInv
<1>4. CASE PacketNext
  <2>1. CASE Tick
    BY <1>2, <1>4, <2>1, TickInv DEF PacketNext
  <2>2. CASE OtherHandler
    BY <1>2, <1>4, <2>2, OtherHandlerInv DEF PacketNext
  <2>3. CASE \E s \in Signal : MetadataChanged(s)
    BY <1>2, <1>4, <2>3, MetadataChangedInv DEF PacketNext
  <2>4. CASE \E s \in Signal : MetadataUnusable(s)
    BY <1>2, <1>4, <2>4, MetadataUnusableInv DEF PacketNext
  <2>5. CASE \E s \in Signal : TakeOver(s)
    BY <1>2, <1>4, <2>5, TakeOverInv DEF PacketNext
  <2>6. CASE \E s \in Signal : \E size \in BlockSizes[s] : DataReceived(s, size)
    BY <1>2, <1>4, <2>6, DataReceivedInv DEF PacketNext
  <2> QED BY <1>4, <2>1, <2>2, <2>3, <2>4, <2>5, <2>6 DEF PacketNext
<1> QED BY <1>3, <1>4

\* Whatever descriptors the signals have and however often they change, those the
\* wire can carry are the same on both sides (metadataToDescriptor(),
\* descriptorToMetadata()).
THEOREM DescriptorArrivesHolds ==
  ASSUME NoneIsNothing, \A s \in Signal : \A d \in Descriptors[s] : WellFormed(d)
  PROVE  PacketSpec => []DescriptorArrives
<1>1. PacketInv => DescriptorArrives
  BY DescriptorRoundTrip DEF PacketInv, DescriptorsInv, DescriptorArrives, Received
<1> QED BY <1>1, PacketInvInit, PacketInvStep, PTL DEF PacketSpec

\* Data ends the program only after unusable metadata of a published signal
\* (onRemoteSignalDataReceived()).
THEOREM FailsOnlyOnBadMetadataHolds ==
  ASSUME NoneIsNothing
  PROVE  PacketSpec => []FailsOnlyOnBadMetadata
<1>1. PacketInv => FailsOnlyOnBadMetadata
  BY DEF PacketInv
<1> QED BY <1>1, PacketInvInit, PacketInvStep, PTL DEF PacketSpec

\* Signals that share a domain signal share its packets; where its rule is linear,
\* each block goes with the packet made for its own tick, whatever the lengths of
\* the blocks (onRemoteSignalDataReceived()).
THEOREM DomainPacketOfTickHolds ==
  ASSUME NoneIsNothing
  PROVE  PacketSpec => []DomainPacketOfTick
<1>1. PacketInv => DomainPacketOfTick
  <2> SUFFICES ASSUME PacketInv PROVE DomainPacketOfTick
    OBVIOUS
  <2>1. \A d \in Signal : made[d] <= 1
    BY DEF PacketInv, ShapeInv, LastInv
  <2> QED BY <2>1 DEF PacketInv, LastInv, DomainPacketOfTick
<1> QED BY <1>1, PacketInvInit, PacketInvStep, PTL DEF PacketSpec

\* A packet that is sent has the descriptor openDAQ was told of last, and so has
\* its domain packet (emitDescriptorChangedEvents(), publishSignalEntry()).
THEOREM PacketsAsAnnouncedHolds ==
  ASSUME NoneIsNothing
  PROVE  PacketSpec => PacketsAsAnnounced
<1> DEFINE Announced(s) ==
             sent'[s] # sent[s] /\ last'[s] # last[s] =>
               /\ last'[s].descriptor = told[s].value
               /\ last'[s].domain # None /\ parent[s] = domain[s] /\ s \notin bad
                    => last'[s].domain.descriptor = told[s].domain
<1>1. ASSUME PacketInv, [PacketNext]_allVars, NEW s \in Signal PROVE Announced(s)
  <2> SUFFICES ASSUME sent'[s] # sent[s], last'[s] # last[s]
               PROVE  /\ last'[s].descriptor = told[s].value
                      /\ last'[s].domain # None /\ parent[s] = domain[s] /\ s \notin bad
                           => last'[s].domain.descriptor = told[s].domain
    OBVIOUS
  <2>1. PICK size \in BlockSizes[s] : DataReceived(s, size)
    <3>1. PICK t \in Signal : \E size \in BlockSizes[t] : DataReceived(t, size)
      BY <1>1 DEF PacketNext, allVars, packetVars, deviceVars, MetadataChanged,
         MetadataUnusable, TakeOver, OtherHandler, Tick
    <3>2. sent' = [sent EXCEPT ![t] = now]
      BY <3>1 DEF DataReceived
    <3> QED BY <1>1, <3>1, <3>2 DEF PacketInv, ShapeInv
  <2>2. Forwarded(s)
    BY <2>1 DEF DataReceived
  <2>3. descriptor[s] # None /\ last'[s] = Packet(descriptor[s], None, size, DomainPacket(s, size))
    BY <1>1, <2>1, <2>2, DataEffects
  <2>4. last'[s].descriptor = descriptor[s] /\ last'[s].domain = DomainPacket(s, size)
    BY <2>3 DEF Packet
  <2>5. s \in published
    BY <1>1, <2>2 DEF Forwarded, PacketInv, TypeInv, TypeOK
  <2>6. told[s].value = descriptor[s]
    BY <1>1, <2>3, <2>5 DEF PacketInv, ToldInv
  <2>7. ASSUME DomainPacket(s, size) # None, parent[s] = domain[s], s \notin bad
        PROVE  DomainPacket(s, size).descriptor = told[s].domain
    <3>1. /\ domain[s] \in Signal /\ descriptor[domain[s]] # None
          /\ DomainPacket(s, size).descriptor = descriptor[domain[s]]
      BY <1>1, <2>7, DomainPacketTick
    <3> QED BY <1>1, <2>5, <2>7, <3>1 DEF PacketInv, ToldInv
  <2> QED BY <2>4, <2>6, <2>7
<1>2. PacketInv /\ [PacketNext]_allVars => [\A s \in Signal : Announced(s)]_allVars
  BY <1>1
<1>3. PacketSpec => [][\A s \in Signal : Announced(s)]_allVars
  BY <1>2, PacketInvInit, PacketInvStep, PTL DEF PacketSpec
<1> QED BY <1>3 DEF PacketsAsAnnounced
=============================================================================
