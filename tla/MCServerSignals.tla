-------------------------- MODULE MCServerSignals --------------------------
(* ServerSignals for TLC; the values that are no signals are model values.   *)
EXTENDS ServerSignals
=============================================================================
