------------------------- MODULE MetadataConversion -------------------------
(***************************************************************************)
(* How an openDAQ data descriptor crosses the wire: descriptorToMetadata() *)
(* on the sending side (descriptor_to_metadata.cpp), metadataToDescriptor()*)
(* on the receiving side (metadata_to_descriptor.cpp).  The parameters of a*)
(* rule are numbers or None; fields of a structure and dimensions of a     *)
(* field are sequences.                                                    *)
(***************************************************************************)
EXTENDS Integers, Sequences

CONSTANT None   \* an attribute that is not assigned

\* getWebSocketDataType(): a type that is not here has no name on the wire.
WebSocketDataType ==
  [Float32 |-> "real32", Float64 |-> "real64",
   Int8 |-> "int8", Int16 |-> "int16", Int32 |-> "int32", Int64 |-> "int64",
   UInt8 |-> "uint8", UInt16 |-> "uint16", UInt32 |-> "uint32", UInt64 |-> "uint64",
   Struct |-> "struct"]

WireType(type) ==
  IF type \in DOMAIN WebSocketDataType THEN WebSocketDataType[type] ELSE None

\* getOpenDaqSampleType()
OpenDaqSampleType ==
  [real32 |-> "Float32", real64 |-> "Float64",
   int8 |-> "Int8", int16 |-> "Int16", int32 |-> "Int32", int64 |-> "Int64",
   uint8 |-> "UInt8", uint16 |-> "UInt16", uint32 |-> "UInt32", uint64 |-> "UInt64",
   struct |-> "Struct"]

SampleType(wire) ==
  IF wire \in DOMAIN OpenDaqSampleType THEN OpenDaqSampleType[wire] ELSE "Undefined"

Or(value, default) == IF value = None THEN default ELSE value

\* What a descriptor says about its values is a set of pairs, an attribute with
\* its value: scaling, dimensions and the parameters of an explicit rule as well.
\* These attributes are carried if they are assigned.
Carried == {"name", "origin", "resolution", "range", "unit"}

\* A number by its whole part, which has its sign, and the rest.
Whole(n) == [whole |-> n, part |-> 0]

\* The conversion of a parameter to std::int64_t drops the rest.
AsInt64(number) == Whole(number.whole)

-----------------------------------------------------------------------------
(* The sending side.                                                       *)

\* Only a linear rule of a dimension is sent, as integers.
DimensionRuleMetadata(rule) ==
  IF rule # None /\ rule.kind = "Linear"
  THEN [kind |-> "Linear", start |-> AsInt64(rule.start), delta |-> AsInt64(rule.delta),
        size |-> AsInt64(rule.size)]
  ELSE None

\* Of a field, its name, type and dimensions are sent; of a dimension, its name.
\* Every dimension of a field gets the rule of its first one.
FieldMetadata(field) ==
  [name |-> field.name, type |-> WireType(field.type),
   dims |-> [i \in DOMAIN field.dims |->
               [name |-> field.dims[i].name,
                rule |-> DimensionRuleMetadata(field.dims[1].rule)]]]

\* A linear rule starts at 0 in steps of 1 unless its parameters say otherwise, of
\* which the integer part is sent.  Rules of other kinds but constant ones are not
\* mentioned.
RuleMetadata(rule) ==
  CASE rule.kind = "Linear" ->
         [kind |-> "Linear", start |-> AsInt64(Or(rule.start, Whole(0))),
                             delta |-> AsInt64(Or(rule.delta, Whole(1)))]
    [] rule.kind = "Constant" -> [kind |-> "Constant", start |-> None, delta |-> None]
    [] OTHER -> [kind |-> None, start |-> None, delta |-> None]

\* The table is the domain signal, or the signal itself if there is none.
TableOf(id, domainId) == IF domainId = None THEN id ELSE domainId

ToMetadata(d, id, domainId) ==
  [about |-> {pair \in d.about : pair[1] \in Carried},
   type |-> WireType(d.type), rule |-> RuleMetadata(d.rule),
   fields |-> [i \in DOMAIN d.fields |-> FieldMetadata(d.fields[i])],
   table |-> TableOf(id, domainId)]

-----------------------------------------------------------------------------
(* The receiving side.                                                     *)

\* What a descriptor builder makes of a field: nothing is said of its values, its
\* rule is explicit, and its dimensions have neither labels nor a unit.
FieldDescriptor(field) ==
  [name |-> field.name, about |-> {}, type |-> SampleType(field.type),
   dims |-> [i \in DOMAIN field.dims |->
               [name |-> field.dims[i].name, about |-> {}, rule |-> field.dims[i].rule]]]

\* Mistake: the rule of a domain signal is taken to be explicit.
RuleDescriptorExplicit(rule) == [kind |-> "Explicit", start |-> None, delta |-> None]

\* No rule is an explicit one; what a linear rule lacks is 0 here.
RuleDescriptor(rule) ==
  CASE rule.kind = "Linear" ->
         [kind |-> "Linear", start |-> Or(rule.start, Whole(0)),
                             delta |-> Or(rule.delta, Whole(0))]
    [] rule.kind = "Constant" -> [kind |-> "Constant", start |-> None, delta |-> None]
    [] OTHER -> [kind |-> "Explicit", start |-> None, delta |-> None]

ToDescriptor(m) ==
  [about |-> m.about, type |-> SampleType(m.type), rule |-> RuleDescriptor(m.rule),
   fields |-> IF SampleType(m.type) = "Struct"
              THEN [i \in DOMAIN m.fields |-> FieldDescriptor(m.fields[i])] ELSE <<>>]

-----------------------------------------------------------------------------
(* What survives.                                                          *)

\* A parameter that arrives as it is.
Integral(number) == number # None /\ number = AsInt64(number)

\* The descriptors that the wire can carry: their types have names, structures
\* alone have fields, nothing is implied and nothing has a fraction.  Nothing is
\* said of a field but its name, type and dimensions, and of a dimension but its
\* name and a linear rule, the same for all dimensions of the field.
Portable(d) ==
  /\ d.type \in DOMAIN WebSocketDataType
  /\ \A pair \in d.about : pair[1] \in Carried
  /\ d.type # "Struct" => d.fields = <<>>
  /\ d.rule.kind \in {"Linear", "Constant", "Explicit"}
  /\ d.rule.kind = "Linear" => Integral(d.rule.start) /\ Integral(d.rule.delta)
  /\ \A i \in DOMAIN d.fields :
       LET field == d.fields[i]
       IN  /\ field.type \in DOMAIN WebSocketDataType
           /\ field.about = {}
           /\ \A k \in DOMAIN field.dims :
                LET dim == field.dims[k]
                IN  /\ dim.about = {} /\ dim.rule = field.dims[1].rule
                    /\ dim.rule # None /\ dim.rule.kind = "Linear"
                    /\ Integral(dim.rule.start) /\ Integral(dim.rule.delta)
                    /\ Integral(dim.rule.size)

=============================================================================
