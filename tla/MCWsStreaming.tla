--------------------------- MODULE MCWsStreaming ---------------------------
(* WsStreaming for TLC.  The configurations give the constants their values; *)
(* the three domain values that are no signals are model values.            *)
EXTENDS WsStreaming

\* Signals that may name each other: a cycle the code does not exclude.
Mutual == {<<1, 2>>, <<2, 1>>}
\* A domain signal that has a domain signal.
Chain == {<<1, 2>>, <<2, 3>>}
=============================================================================
