--------------------------- MODULE MCSignalPackets --------------------------
(* SignalPackets for TLC: two value signals (2, 3) on one time signal (1).   *)
EXTENDS SignalPackets

Links == {<<2, 1>>, <<3, 1>>}
TableOfEach == [s \in Signal |-> IF s = 1 THEN NoDomain ELSE 1]

Named(name, type, rule, fields) ==
  [about |-> {<<"name", name>>}, type |-> type, rule |-> rule, fields |-> fields]
Explicit == [kind |-> "Explicit", start |-> None, delta |-> None]
Steps(start, delta) == [kind |-> "Linear", start |-> start, delta |-> delta]
Constant == [kind |-> "Constant", start |-> None, delta |-> None]

Axis(rule) == [name |-> "axis", about |-> {}, rule |-> rule]
Grid(first, size) ==
  [kind |-> "Linear", start |-> Whole(first), delta |-> Whole(1), size |-> Whole(size)]

\* A structure with a field of every type, the first an array.
Fields(rule) ==
  LET types == <<"Float32", "Int8", "Int16", "Int32", "UInt8", "UInt16", "UInt32", "Int64", "UInt64">>
  IN  [i \in 1 .. 9 |->
         [name |-> i, about |-> {}, type |-> types[i],
          dims |-> IF i = 1 THEN <<Axis(rule), Axis(rule)>> ELSE <<>>]]

\* The scaling of a value signal is something the wire does not carry.
DescriptorsOfEach ==
  [s \in Signal |->
     CASE s = 1 -> {Named("time", "Int64", Steps(Whole(0), Whole(10)), <<>>),
                    Named("time", "UInt64", Explicit, <<>>)}
       [] s = 2 -> {[Named("value", "Float64", Constant, <<>>)
                       EXCEPT !.about = @ \cup {<<"scaling", "linear">>}]}
       [] s = 3 -> {Named("record", "Struct", Explicit, Fields(Grid(0, 2)))}]

\* Blocks of the two value signals differ in length.
SizesOfEach == [s \in Signal |-> IF s = 3 THEN {2} ELSE {1}]
=============================================================================
