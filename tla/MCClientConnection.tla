------------------------- MODULE MCClientConnection -------------------------
(* ClientConnection for TLC.                                                 *)
EXTENDS ClientConnection, TLC

CONSTANTS t1, t2, other, mutual, unverified

\* The default server, one with both channels and mutual TLS on other ports, one
\* with a plain channel on a port of the system's choice and TLS without client
\* certificates on its default port, and four that are refused, the first as its
\* channels ask for one port.
Servers ==
  {NoProperties,
   [EnableControl |-> FALSE, EnableTls |-> TRUE, Port |-> 20, TlsPort |-> 21,
    Secrets |-> "server", Ca |-> "ca"],
   [EnableTls |-> TRUE, EnableMtls |-> FALSE, Port |-> 0, Secrets |-> "server"],
   [EnableTls |-> TRUE, EnableMtls |-> FALSE, Port |-> 21, TlsPort |-> 21,
    Secrets |-> "server"],
   [EnableTls |-> TRUE],
   [EnableStreaming |-> FALSE],
   [EnableStreaming |-> FALSE, EnableControl |-> FALSE]}

\* The application's objects: one with a port of more than 16 bits (20), one that
\* sets mutual TLS up, and one that turns verification off.
GivenOf ==
  other :> [Port |-> 65556] @@ mutual :> [Secrets |-> "client", Ca |-> "ca", Port |-> WsPort]
  @@ unverified :> [Verify |-> FALSE, EnableMtls |-> FALSE, Secrets |-> "", Ca |-> ""]

Str(prefix, port) == [prefix |-> prefix, port |-> port]
Ask(kind, url, config) == [kind |-> kind, url |-> url, config |-> config]
AsksOf ==
  {Ask("streaming", Str("lt", NoPort), unverified), Ask("device", Str("lts", 0), unverified),
   Ask("device", Str("ws", 65536), other), Ask("device", Str("lts", NoPort), mutual),
   Ask("streaming", Str("lt", 15), NoConfig), Ask("device", Str("wss", 21), mutual)}

\* What the system picks: 20 for the plain channel, 51 for the other.
PickedPorts == [secure \in BOOLEAN |-> IF secure THEN 51 ELSE 20]

ModuleOptions == [ControlPort |-> 30]
=============================================================================
