--------------------------- MODULE MCServerOutlet ---------------------------
(* ServerOutlet for TLC.                                                     *)
EXTENDS ServerOutlet

CONSTANTS s1, s2

\* Two servers whose channels differ.
PlainAndSecure == [s \in Servers |-> IF s = s1 THEN {"LT"} ELSE {"LTS"}]
=============================================================================
