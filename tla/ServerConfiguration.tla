------------------------ MODULE ServerConfiguration ------------------------
(***************************************************************************)
(* How a server of ws_streaming_server.cpp is configured: which listeners  *)
(* its constructor opens, or that it throws, and what the server says of   *)
(* itself in its discovery records, in the capabilities of its device and  *)
(* in the list of connected clients.                                       *)
(*                                                                         *)
(* A configuration is a function from the names of its properties to their *)
(* values.  A certificate and its key are one property here, "Secrets";    *)
(* files are "" (not configured), "bad" (cannot be loaded) or by name.     *)
(***************************************************************************)
EXTENDS Integers

CONSTANTS
  WsPort, WssPort, ControlPort,   \* the default ports of constants.h
  AnyPort                         \* what the system picks for the listener of a
                                  \* channel, secure or not, that is given port 0

Ports == 0 .. 65535   \* minPortValue .. maxPortValue

ASSUME PortAssumption ==
  /\ {WsPort, WssPort, ControlPort} \subseteq Ports \ {0}
  /\ WsPort # WssPort /\ ControlPort \notin {WsPort, WssPort}
  /\ AnyPort \in [BOOLEAN -> Ports \ {0}] /\ AnyPort[TRUE] # AnyPort[FALSE]

\* A configuration that gets what it lacks from the defaults.
Over(config, defaults) ==
  [name \in DOMAIN config \cup DOMAIN defaults |->
     IF name \in DOMAIN config THEN config[name] ELSE defaults[name]]

\* createDefaultConfig()
DefaultServer ==
  [EnableStreaming |-> TRUE, EnableControl |-> TRUE, EnableTls |-> FALSE,
   Port |-> WsPort, ControlPort |-> ControlPort, TlsPort |-> WssPort,
   EnableMtls |-> TRUE, Secrets |-> "", Ca |-> ""]

\* createDefaultConfig(context): the options of the module go before the defaults.
WithOptions(options) ==
  [name \in DOMAIN DefaultServer |-> Over(options, DefaultServer)[name]]

\* What onCreateServer passes to the constructor: the values of the caller, then
\* those; other names are left out.
Populated(given, options) ==
  [name \in DOMAIN DefaultServer |-> Over(given, WithOptions(options))[name]]

\* The streaming listeners, at the ports they get.
Bound(secure, port) == IF port = 0 THEN AnyPort[secure] ELSE port
Listeners(s) ==
  (IF s.EnableStreaming THEN {[secure |-> FALSE, port |-> Bound(FALSE, s.Port)]} ELSE {})
  \cup (IF s.EnableTls THEN {[secure |-> TRUE, port |-> Bound(TRUE, s.TlsPort)]} ELSE {})

\* The system does not open a port twice.
Clash(s) ==
  \/ \E l, k \in Listeners(s) : l # k /\ l.port = k.port
  \/ s.EnableControl /\ \E l \in Listeners(s) : l.port = s.ControlPort

\* The constructor throws: InvalidParameterException, or what opening a listener throws.
Refused(s) ==
  \/ ~s.EnableStreaming /\ ~s.EnableTls
  \/ s.EnableControl /\ ~s.EnableStreaming
  \/ s.EnableTls /\ \/ s.EnableMtls /\ s.Ca = ""
                    \/ s.Secrets \in {"", "bad"}
                    \/ s.EnableMtls /\ s.Ca = "bad"
  \/ Clash(s)

\* getDiscoveryConfigs(): one record of mDNS per channel.
DiscoveryConfigs(s) ==
  (IF s.EnableStreaming THEN {[service |-> "lt", port |-> s.Port]} ELSE {})
  \cup (IF s.EnableTls THEN {[service |-> "lts", port |-> s.TlsPort]} ELSE {})

\* addCapability(): the capabilities of the root device, which have no address.
Capabilities(s) ==
  (IF s.EnableStreaming THEN {[protocol |-> "LT", port |-> s.Port]} ELSE {})
  \cup (IF s.EnableTls THEN {[protocol |-> "LTS", port |-> s.TlsPort]} ELSE {})

\* onClientConnected(): the protocol of the ConnectedClientInfo, told by the
\* local port of the connection.
ClientProtocol_NotPlain(s, localPort) == \* whatever is not the plain port
  IF localPort = s.Port THEN "LT" ELSE "LTS"
ClientProtocol(s, localPort) ==
  IF s.EnableTls /\ localPort = s.TlsPort THEN "LTS" ELSE "LT"
=============================================================================
