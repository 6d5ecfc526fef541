--------------------------- MODULE MCClientOutlet ---------------------------
(* ClientOutlet for TLC.                                                     *)
EXTENDS ClientOutlet, TLC

CONSTANTS time, value, other

\* A time signal and two value signals, the second of which may also come as a
\* signal of its own or on the first.
Names == (time :> "t") @@ (value :> "v") @@ (other :> "o")
TablesOf == (time :> {time}) @@ (value :> {time}) @@ (other :> {time, value, other})
=============================================================================
