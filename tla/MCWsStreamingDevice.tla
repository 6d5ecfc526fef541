------------------------ MODULE MCWsStreamingDevice ------------------------
(* WsStreamingDevice for TLC: three signals.                                 *)
EXTENDS WsStreamingDevice

CONSTANTS s1, s2, s3

ThreeSignals == {s1, s2, s3}

\* createLocalId() keeps all identifiers apart.
DistinctIds == [s \in Signals |-> s]
=============================================================================
