----------------------- MODULE ClientConnectionProofs -----------------------
(***************************************************************************)
(* Proofs about ClientConnection: for any threads, strings, configuration  *)
(* objects, server configurations and numbers of calls and of starts, the  *)
(* safety properties of the run ClientConnection_connect hold.             *)
(*                                                                         *)
(* What has to be carried from the moment a call begins to the moment it   *)
(* ends is                                                                 *)
(*   ObjectsInv: the constructor only ever adds defaults to an object, so  *)
(*     what the application set, and the secrets that follow from it, stay;*)
(*   CapabilityInv: a capability found names a channel of the server that  *)
(*     announced it, as long as no other server has been started;          *)
(*   CallsInv: the port that a call reports is the one that it dials and   *)
(*     the one it was told, whatever other threads add to the object, and  *)
(*     what it has met are listeners of a server that may have stopped;    *)
(*   LockInv: the devices have the local identifiers below the index, and  *)
(*     only the thread with the mutex is about to add one; and             *)
(*   RaceInv: of two calls that are adding one property to one object, one *)
(*     creates a streaming, as the mutex keeps devices apart.              *)
(***************************************************************************)
EXTENDS ClientConnection, TLAPS

ServerSettings == {Populated(given, Options) : given \in ServerConfigs} \cup {DefaultServer}

ServerInv ==
  /\ server \in [up : BOOLEAN, starts : Nat, config : ServerSettings]
  /\ server.up => ~Refused(server.config)

\* The channel of a server that a URL leads to.
Announced(url, config) ==
  IF IsSecure(url)
  THEN config.EnableTls /\ url.port = config.TlsPort
  ELSE config.EnableStreaming /\ url.port = config.Port

\* host and build: the server and tls, of this state or the next.
CapabilityOK(capability, host, build) ==
  /\ capability.url.port \in Ports /\ capability.start \in Nat
  /\ capability.start <= host.starts
  /\ capability.exact => capability.url.prefix \in {"lt", "lts"}
  /\ IsSecure(capability.url) => build
  /\ capability.exact /\ capability.start = host.starts /\ host.up =>
       Announced(capability.url, host.config)

CapabilityInv == CapabilityOK(found, server, tls)

\* An object is what the application gave and, where it gave nothing, defaults.
Filled(config, given) ==
  /\ DOMAIN given \subseteq DOMAIN config
  /\ \A name \in DOMAIN given : config[name] = given[name]
  /\ \A name \in DOMAIN config \ DOMAIN given :
       IF name = "Port" THEN config[name] \in {WsPort, WssPort}
       ELSE /\ name \in DOMAIN DefaultConfig(TRUE)
            /\ config[name] = DefaultConfig(TRUE)[name]

ObjectsInv ==
  /\ DOMAIN configs = Configs
  /\ \A c \in Configs : Filled(configs[c], Given[c])

GivenOf(c) == IF c = NoConfig THEN NoProperties ELSE Given[c]

\* The port of the string, of the object, or of the channel.
PortTold(url, config, secure) ==
  IF url.port # NoPort /\ Port16(url.port) # 0 THEN Port16(url.port)
  ELSE IF "Port" \in DOMAIN config /\ Port16(config.Port) # 0 THEN Port16(config.Port)
  ELSE DefaultPort(secure)

\* A call for the other channel has filled the object.
FilledByOther(c, secure, objects) ==
  /\ c \in Configs /\ "Port" \notin DOMAIN Given[c]
  /\ "Port" \in DOMAIN objects[c] /\ objects[c].Port # DefaultPort(secure)

\* The settings of TLS that the constructor and the attempt look at.
TlsSettings == {"Verify", "EnableMtls", "Secrets", "Ca"}
SameSettings(f, g) == \A name \in TlsSettings : f[name] = g[name]

ListenersOn(config, port) == {l \in Listeners(config) : l.port = port}

\* The call has met the listener of a server, which may have stopped since.
Shaking(call, host) ==
  /\ IsSecure(call.url) =>
       SameSettings(call.config, Effective(GivenOf(call.ask.config), TRUE))
  /\ call.host.starts \in Nat /\ call.host.starts <= host.starts
  /\ call.ask.capability.start <= call.host.starts
  /\ ~Refused(call.host.config)
  /\ host.up /\ host.starts = call.host.starts => host.config = call.host.config
  /\ call.met # {}
  /\ call.met = ListenersOn(call.host.config, Dialed(call.url))

CallFields ==
  {"pc", "kind", "url", "port", "config", "index", "adding", "raced", "met", "host", "ask"}

CallOK(call, host, objects, build) ==
  LET secure == IsSecure(call.url)
      ask == call.ask
  IN /\ DOMAIN call = CallFields
     /\ call.pc \in {"waiting", "ready", "filling", "adding", "shaking"} /\ call.kind \in Kinds
     /\ ask.url.port \in Nat \cup {NoPort} /\ ask.config \in Configs \cup {NoConfig}
     /\ call.pc # "shaking" => call.config = ask.config /\ call.met = {}
     /\ call.pc = "adding" =>
          call.config \in Configs /\ call.adding \in DOMAIN DefaultConfig(secure)
     /\ secure = IsSecure(ask.url)
     /\ CapabilityOK(ask.capability, host, build)
     /\ ask.capability.exact => ask.capability.url = ask.url
     /\ call.port = Dialed(call.url)
     /\ \/ call.port = PortTold(ask.url, GivenOf(ask.config), secure)
        \/ /\ ask.url.port = NoPort \/ Port16(ask.url.port) = 0
           /\ FilledByOther(ask.config, secure, objects)
     /\ call.pc = "shaking" => Shaking(call, host)

CallsInv ==
  /\ DOMAIN calls = Threads
  /\ \A t \in Threads : calls[t] = Idle \/ CallOK(calls[t], server, configs, tls)

\* The thread with the mutex is creating a device, with an index of its own.
Holding(call) ==
  call.pc \in {"ready", "filling", "adding", "shaking"} /\ call.kind = "device"

LockInv ==
  /\ deviceIndex \in Nat /\ devices \in Seq(Nat)
  /\ \A t \in Threads : Holding(calls[t]) =>
       /\ sync = t /\ calls[t].index \in Nat
       /\ \A i \in DOMAIN devices : devices[i] < calls[t].index
       /\ deviceIndex = IF calls[t].pc = "ready" THEN calls[t].index ELSE calls[t].index + 1
  /\ \A i \in DOMAIN devices : devices[i] < deviceIndex
  /\ LocalIdsUnique

\* What a call is about to add is there: another call has added it meanwhile.
RaceInv ==
  \A t \in Threads :
    calls[t].pc = "adding" /\ calls[t].adding \in DOMAIN configs[calls[t].config] =>
      "streaming" \in calls[t].raced \cup {calls[t].kind}

ConnectionInv ==
  /\ tls \in BOOLEAN /\ ServerInv /\ CapabilityInv /\ ObjectsInv
  /\ CallsInv /\ LockInv /\ RaceInv

-----------------------------------------------------------------------------
(* Lemmas about the operators.                                             *)

LEMMA PortsAreNumbers == Ports \subseteq Nat /\ Ports \subseteq Int
BY DEF Ports

LEMMA PortsFit == \A p \in Ports : Port16(p) = p
<1> TAKE p \in Ports
<1>1. p \in Nat /\ p <= 65535
  BY DEF Ports
<1> QED BY <1>1 DEF Port16

LEMMA DefaultPortFits ==
  \A secure \in BOOLEAN :
    DefaultPort(secure) \in Ports \ {0} /\ DefaultPort(secure) \in Int
<1>1. {WsPort, WssPort} \subseteq Ports \ {0}
  BY PortAssumption
<1>2. Ports \subseteq Int
  BY DEF Ports
<1> QED BY <1>1, <1>2 DEF DefaultPort

\* The formed string leads to the port that is reported, on the channel asked for,
\* and that port is the one told.
LEMMA FormedAsTold ==
  ASSUME NEW url, url.port \in Nat \cup {NoPort}, NEW config,
         "Port" \in DOMAIN config => config.Port \in Int
  PROVE  /\ Formed(url, config).port = Dialed(Formed(url, config).url)
         /\ IsSecure(Formed(url, config).url) = IsSecure(url)
         /\ Formed(url, config).port = PortTold(url, config, IsSecure(url))
<1> DEFINE new == NewStyle(url)
           secure == IsSecure(url)
           port == IF url.port = NoPort THEN 0 ELSE Port16(url.port)
           fromConfig == port = 0 /\ "Port" \in DOMAIN config
           chosen == IF fromConfig THEN Port16(config.Port) ELSE port
           used == IF chosen = 0 THEN DefaultPort(secure) ELSE chosen
           prints == PrintsPort(new, fromConfig, chosen)
           formed == [prefix |-> new.prefix, port |-> IF prints THEN used ELSE NoPort]
<1>1. /\ new.port = url.port /\ IsSecure(new) = secure
  BY DEF NewStyle, IsSecure
<1>2. Formed(url, config) = [url |-> formed, port |-> used]
  BY <1>1 DEF Formed
<1>3. formed.port = (IF prints THEN used ELSE NoPort) /\ IsSecure(formed) = secure
  BY <1>1 DEF IsSecure
<1> HIDE DEF new, formed, prints
<1>4. used \in Int /\ used # NoPort
  <2>1. DefaultPort(secure) \in Int
    <3>1. secure \in BOOLEAN
      BY DEF IsSecure
    <3> QED BY <3>1, DefaultPortFits
  <2>2. \A i \in Int : Port16(i) \in Int
    BY DEF Port16
  <2>3. chosen \in Int
    BY <2>2
  <2> QED BY <2>1, <2>3, ConnectionAssumption
<1>5. ~prints => used = DefaultPort(secure)
  BY <1>1 DEF prints, PrintsPort
<1>6. Dialed(formed) = used
  BY <1>3, <1>4, <1>5 DEF Dialed
<1>7. used = PortTold(url, config, secure)
  BY DEF PortTold
<1> QED BY <1>2, <1>3, <1>6, <1>7

DefaultOf(name, secure) == [n \in {name} |-> DefaultConfig(secure)[n]]

\* Adding a default to an object leaves what is in it.
LEMMA FilledStays ==
  ASSUME NEW config, NEW given, Filled(config, given), NEW secure \in BOOLEAN,
         NEW name \in DOMAIN DefaultConfig(secure)
  PROVE  Filled(Over(config, DefaultOf(name, secure)), given)
<1> DEFINE filled == Over(config, DefaultOf(name, secure))
<1>1. /\ DOMAIN filled = DOMAIN config \cup {name}
      /\ \A n \in DOMAIN filled :
           filled[n] = IF n \in DOMAIN config THEN config[n] ELSE DefaultConfig(secure)[n]
  BY DEF Over, DefaultOf
<1>2. /\ DefaultConfig(secure).Port \in {WsPort, WssPort}
      /\ \A n \in DOMAIN DefaultConfig(secure) : n # "Port" =>
           /\ n \in DOMAIN DefaultConfig(TRUE)
           /\ DefaultConfig(secure)[n] = DefaultConfig(TRUE)[n]
  BY DEF DefaultConfig
<1> HIDE DEF filled
<1> QED BY <1>1, <1>2 DEF Filled, filled

LEMMA SettingsStay ==
  ASSUME NEW config, NEW given, Filled(config, given)
  PROVE  SameSettings(Effective(config, TRUE), Effective(given, TRUE))
BY DEF SameSettings, TlsSettings, Filled, Effective, Over, DefaultConfig

LEMMA ObjectsFilled ==
  ASSUME ObjectsInv, NEW c \in Configs \cup {NoConfig}
  PROVE  /\ Filled(ConfigOf(c), GivenOf(c))
         /\ "Port" \in DOMAIN ConfigOf(c) => ConfigOf(c).Port \in Int
<1>1. Filled(ConfigOf(c), GivenOf(c))
  BY ConnectionAssumption DEF ObjectsInv, ConfigOf, GivenOf, NoProperties, Filled
<1>2. "Port" \in DOMAIN GivenOf(c) => GivenOf(c).Port \in Int
  BY ConnectionAssumption DEF GivenOf, NoProperties
<1>3. WsPort \in Int /\ WssPort \in Int
  BY DefaultPortFits DEF DefaultPort
<1> QED BY <1>1, <1>2, <1>3 DEF Filled

LEMMA SettingsFit == \A s \in ServerSettings : s.Port \in Ports /\ s.TlsPort \in Ports
<1>1. DefaultServer.Port \in Ports /\ DefaultServer.TlsPort \in Ports
  BY PortAssumption DEF DefaultServer
<1> QED BY <1>1, ServerAssumption DEF ServerSettings

\* The listeners are those of the channels that are enabled.
LEMMA ListenerIs ==
  ASSUME NEW config, NEW l \in Listeners(config)
  PROVE  \/ /\ config.EnableStreaming /\ l.secure = FALSE
            /\ l.port = Bound(FALSE, config.Port)
         \/ /\ config.EnableTls /\ l.secure = TRUE
            /\ l.port = Bound(TRUE, config.TlsPort)
<1> DEFINE plain == [secure |-> FALSE, port |-> Bound(FALSE, config.Port)]
           secure == [secure |-> TRUE, port |-> Bound(TRUE, config.TlsPort)]
<1>1. \/ config.EnableStreaming /\ l = plain
      \/ config.EnableTls /\ l = secure
  BY DEF Listeners
<1>2. /\ plain.secure = FALSE /\ plain.port = Bound(FALSE, config.Port)
      /\ secure.secure = TRUE /\ secure.port = Bound(TRUE, config.TlsPort)
  OBVIOUS
<1> HIDE DEF plain, secure
<1> QED BY <1>1, <1>2

LEMMA ListenerOf ==
  ASSUME NEW config
  PROVE  /\ config.EnableStreaming =>
              \E l \in Listeners(config) : l.secure = FALSE /\ l.port = Bound(FALSE, config.Port)
         /\ config.EnableTls =>
              \E l \in Listeners(config) : l.secure = TRUE /\ l.port = Bound(TRUE, config.TlsPort)
<1> DEFINE plain == [secure |-> FALSE, port |-> Bound(FALSE, config.Port)]
           secure == [secure |-> TRUE, port |-> Bound(TRUE, config.TlsPort)]
<1>1. /\ config.EnableStreaming => plain \in Listeners(config)
      /\ config.EnableTls => secure \in Listeners(config)
  BY DEF Listeners
<1>2. /\ plain.secure = FALSE /\ plain.port = Bound(FALSE, config.Port)
      /\ secure.secure = TRUE /\ secure.port = Bound(TRUE, config.TlsPort)
  OBVIOUS
<1> HIDE DEF plain, secure
<1> QED BY <1>1, <1>2

LEMMA OneListener ==
  ASSUME NEW config, ~Refused(config), NEW l \in Listeners(config), NEW k \in Listeners(config),
         l.port = k.port
  PROVE  l = k
BY DEF Refused, Clash

\* A listener is told from the others by its port.
LEMMA ListenerProtocol ==
  ASSUME NEW config, ~Refused(config), NEW l \in Listeners(config), config.TlsPort # 0
  PROVE  (ClientProtocol(config, l.port) = "LTS") = l.secure
<1>1. CASE config.EnableTls /\ l.secure = TRUE /\ l.port = Bound(TRUE, config.TlsPort)
  BY <1>1 DEF ClientProtocol, Bound
<1>2. CASE l.secure = FALSE
  <2>1. ASSUME config.EnableTls, l.port = config.TlsPort
        PROVE  FALSE
    <3>1. PICK k \in Listeners(config) : k.secure = TRUE /\ k.port = l.port
      BY <2>1, ListenerOf DEF Bound
    <3> QED BY <1>2, <3>1, OneListener
  <2>2. ~(config.EnableTls /\ l.port = config.TlsPort)
    BY <2>1
  <2> QED BY <1>2, <2>2 DEF ClientProtocol
<1> QED BY <1>1, <1>2, ListenerIs

\* The server stays as it was, stops, or has been started anew.
HostAfter(host, after) ==
  \/ /\ after.starts = host.starts
     /\ after.up => host.up /\ after.config = host.config
  \/ after.starts = host.starts + 1

LEMMA CapabilityStays ==
  ASSUME NEW capability, NEW host, NEW after, NEW build, CapabilityOK(capability, host, build),
         host.starts \in Nat,
         HostAfter(host, after)
  PROVE  CapabilityOK(capability, after, build)
<1>1. capability.start \in Nat
  BY DEF CapabilityOK
<1> QED BY <1>1 DEF CapabilityOK, HostAfter

\* Nothing of a call in progress depends on more of the objects than on the ports
\* that they have, which they keep.
LEMMA CallStays ==
  ASSUME NEW call, NEW host, NEW after, NEW objects, NEW filled, NEW build,
         CallOK(call, host, objects, build), host.starts \in Nat, HostAfter(host, after),
         \A c \in Configs : "Port" \in DOMAIN objects[c] =>
           "Port" \in DOMAIN filled[c] /\ filled[c].Port = objects[c].Port
  PROVE  CallOK(call, after, filled, build)
<1>1. CapabilityOK(call.ask.capability, after, build)
  BY CapabilityStays DEF CallOK
<1>2. FilledByOther(call.ask.config, IsSecure(call.url), objects)
        => FilledByOther(call.ask.config, IsSecure(call.url), filled)
  BY DEF FilledByOther
<1>3. ASSUME Shaking(call, host)
      PROVE  Shaking(call, after)
  <2>1. call.host.starts \in Nat /\ call.host.starts <= after.starts
    BY <1>3 DEF Shaking, HostAfter
  <2>2. after.up /\ after.starts = call.host.starts => after.config = call.host.config
    BY <1>3 DEF Shaking, HostAfter
  <2> QED BY <1>3, <2>1, <2>2 DEF Shaking
<1> QED BY <1>1, <1>2, <1>3 DEF CallOK

\* Nor does it depend on what other calls have added.
LEMMA CallSame ==
  ASSUME NEW call, NEW new, NEW host, NEW objects, NEW build,
         CallOK(call, host, objects, build), DOMAIN new = DOMAIN call,
         \A field \in DOMAIN call \ {"raced", "index"} : new[field] = call[field]
  PROVE  CallOK(new, host, objects, build)
<1>1. \A field \in CallFields \ {"raced", "index"} : new[field] = call[field]
  BY DEF CallOK
<1> DEFINE same == /\ new.pc = call.pc /\ new.kind = call.kind /\ new.url = call.url
                   /\ new.port = call.port /\ new.config = call.config
                   /\ new.adding = call.adding /\ new.met = call.met
                   /\ new.host = call.host /\ new.ask = call.ask
<1>2. same
  BY <1>1 DEF CallFields
<1>3. Shaking(call, host) => Shaking(new, host)
  BY <1>2 DEF Shaking
<1> QED BY <1>2, <1>3 DEF CallOK

-----------------------------------------------------------------------------
(* The connection attempt.                                                 *)

\* What the answer says of the one listener that was met.
LEMMA HandshakeMeets ==
  ASSUME NEW call, NEW host, Shaking(call, host), NEW code \in Codes(call), NEW l \in call.met
  PROVE  /\ code \in {"ok", "ssl", "closed", "protocol"}
         /\ code = "ok" => l.secure = IsSecure(call.url)
         /\ code = "ssl" => IsSecure(call.url)
         /\ code \in {"closed", "protocol"} /\ ~IsSecure(call.url) =>
              l.secure # IsSecure(call.url) \/ Gone(call.host)
         /\ code = "protocol" => ~IsSecure(call.url) \/ Gone(call.host)
<1> DEFINE secure == IsSecure(call.url)
<1>1. /\ \A k \in call.met : k = l
      /\ l.secure \in BOOLEAN /\ secure \in BOOLEAN
  <2>1. \A k \in call.met : k \in Listeners(call.host.config) /\ k.port = Dialed(call.url)
    BY DEF Shaking, ListenersOn
  <2>2. \A k \in call.met : k = l
    BY <2>1, OneListener DEF Shaking
  <2>3. l.secure \in BOOLEAN
    BY <2>1, ListenerIs
  <2> QED BY <2>2, <2>3 DEF IsSecure
<1>2. CASE code \in Handshake(secure, call.config, l, call.host.config)
  BY <1>1, <1>2 DEF Handshake
<1>3. CASE Gone(call.host) /\ code \in {"closed", "protocol"}
  BY <1>3
<1>4. \/ Gone(call.host) /\ code \in {"closed", "protocol"}
      \/ \E k \in call.met : code \in Handshake(secure, call.config, k, call.host.config)
  BY DEF Codes
<1> QED BY <1>1, <1>2, <1>3, <1>4

LEMMA HandshakeSucceeds ==
  ASSUME NEW call, NEW host, Shaking(call, host), NEW l \in call.met, ~Gone(call.host),
         l.secure = IsSecure(call.url),
         IsSecure(call.url) =>
           /\ call.config.Verify => call.config.Ca = "ca"
           /\ call.host.config.EnableMtls =>
                call.config.Verify /\ call.config.EnableMtls /\ call.config.Secrets = "client"
  PROVE  Codes(call) = {"ok"}
<1>1. \A k \in call.met : k = l
  BY OneListener DEF Shaking, ListenersOn
<1>2. IsSecure(call.url) \in BOOLEAN
  BY DEF IsSecure
<1>3. Handshake(IsSecure(call.url), call.config, l, call.host.config) = {"ok"}
  BY <1>2 DEF Handshake
<1>4. call.met = {l}
  BY <1>1
<1> QED BY <1>3, <1>4 DEF Codes

\* The server that announced a capability has a listener where the call dials.
LEMMA AnnouncedListens ==
  ASSUME ServerInv, NEW call, CallOK(call, server, configs, tls),
         call.ask.capability.exact, call.ask.capability.url.port # 0,
         server.up, server.starts = call.ask.capability.start
  PROVE  \E l \in Listeners(server.config) :
           l.secure = IsSecure(call.url) /\ l.port = Dialed(call.url)
<1> DEFINE ask == call.ask
           secure == IsSecure(call.url)
<1>1. /\ Announced(ask.url, server.config) /\ ask.url.port \in Ports /\ ask.url.port # 0
      /\ secure = IsSecure(ask.url) /\ secure \in BOOLEAN
  BY DEF CallOK, CapabilityOK, IsSecure
<1>2. Dialed(call.url) = ask.url.port
  <2>1. Port16(ask.url.port) = ask.url.port /\ ask.url.port # NoPort
    BY <1>1, PortsFit, PortsAreNumbers, ConnectionAssumption
  <2> QED BY <1>1, <2>1 DEF CallOK, PortTold
<1>3. CASE secure
  BY <1>1, <1>2, <1>3, ListenerOf DEF Announced, Bound
<1>4. CASE ~secure
  <2>1. server.config.EnableStreaming /\ ask.url.port = server.config.Port
    BY <1>1, <1>4 DEF Announced
  <2>2. PICK l \in Listeners(server.config) : l.secure = FALSE /\ l.port = ask.url.port
    BY <1>1, <2>1, ListenerOf DEF Bound
  <2>3. secure = FALSE
    BY <1>1, <1>4
  <2> QED BY <1>2, <2>2, <2>3
<1> QED BY <1>3, <1>4

-----------------------------------------------------------------------------
(* Steps.                                                                  *)

Called(t, kind, given, c, capability) ==
  /\ t \in Threads /\ kind \in Kinds /\ c \in Configs \cup {NoConfig}
  /\ given.port \in Nat \cup {NoPort}
  /\ CapabilityOK(capability, server, tls)
  /\ capability.exact => capability.url = given
  /\ Begin(t, kind, given, c, capability)

LEMMA UrlIs ==
  ASSUME NEW secure \in BOOLEAN, NEW port \in Ports
  PROVE  /\ Url(secure, port).prefix = IF secure THEN "lts" ELSE "lt"
         /\ Url(secure, port).port = port
         /\ IsSecure(Url(secure, port)) = secure
<1>1. CASE secure = TRUE
  BY <1>1 DEF Url, IsSecure
<1>2. CASE secure = FALSE
  BY <1>2 DEF Url, IsSecure
<1> QED BY <1>1, <1>2

LEMMA NoSourceOK ==
  /\ ServerInv => CapabilityOK(NoSource, server, tls)
  /\ ServerInv' => CapabilityOK(NoSource, server', tls')
<1>1. NoSource.url.prefix = "nd" /\ NoSource.url.port = 0 /\ NoSource.exact = FALSE
      /\ NoSource.start = 0
  BY DEF NoSource
<1>2. 0 \in Ports
  BY DEF Ports
<1> QED BY <1>1, <1>2 DEF ServerInv, CapabilityOK, IsSecure

LEMMA CallBegins ==
  ASSUME ConnectionInv, Call
  PROVE  \E t, kind, given, c, capability : Called(t, kind, given, c, capability)
<1> USE ConnectionAssumption
<1>1. ASSUME NEW t \in Threads, NEW a \in Asks, Begin(t, a.kind, a.url, a.config, NoSource)
      PROVE  Called(t, a.kind, a.url, a.config, NoSource)
  <2>1. /\ a.kind \in Kinds /\ a.config \in Configs \cup {NoConfig}
        /\ a.url.port \in Nat \cup {NoPort}
    BY <1>1
  <2>2. ~NoSource.exact
    BY DEF NoSource
  <2> QED BY <1>1, <2>1, <2>2, NoSourceOK DEF Called, ConnectionInv
<1>2. ASSUME NEW t \in Threads, NEW kind \in Kinds, NEW c \in TlsConfigs,
             Begin(t, kind, found.url, c, found)
      PROVE  Called(t, kind, found.url, c, found)
  <2>1. CapabilityOK(found, server, tls)
    BY DEF ConnectionInv, CapabilityInv
  <2>2. found.url.port \in Nat \cup {NoPort}
    BY <2>1, PortsAreNumbers DEF CapabilityOK
  <2> QED BY <1>2, <2>1, <2>2 DEF Called
<1> QED BY <1>1, <1>2 DEF Call

HostStep == tls' = tls /\ HostAfter(server, server')

LEMMA HostNext == ServerInv /\ [Next]_vars => ServerInv' /\ HostStep
<1> SUFFICES ASSUME ServerInv, [Next]_vars
             PROVE  ServerInv' /\ HostStep
  OBVIOUS
<1>1. ASSUME NEW given \in ServerConfigs, StartServer(given)
      PROVE  ServerInv' /\ HostStep
  <2> DEFINE config == Populated(given, Options)
  <2>1. config \in ServerSettings
    BY DEF ServerSettings
  <2>2. CASE Refused(config)
    BY <1>1, <2>2 DEF StartServer, ServerInv, HostStep, HostAfter
  <2>3. CASE ~Refused(config)
    <3>1. server' = [up |-> TRUE, starts |-> server.starts + 1, config |-> config] /\ tls' = tls
      BY <1>1, <2>3 DEF StartServer
    <3> HIDE DEF config
    <3> QED BY <2>1, <2>3, <3>1 DEF ServerInv, HostStep, HostAfter
  <2> QED BY <2>2, <2>3
<1>2. CASE StopServer
  <2>1. /\ server' \in [up : BOOLEAN, starts : Nat, config : ServerSettings] /\ ~server'.up
        /\ server'.starts = server.starts /\ tls' = tls
    BY <1>2 DEF StopServer, ServerInv, ServerSettings
  <2> QED BY <2>1 DEF ServerInv, HostStep, HostAfter
<1>3. CASE UNCHANGED <<tls, server>>
  BY <1>3 DEF ServerInv, HostStep, HostAfter
<1>4. CASE Discover
  BY <1>3, <1>4 DEF Discover
<1>5. ASSUME NEW source, NEW target, NEW missing, Complete(source, target, missing)
      PROVE  ServerInv' /\ HostStep
  BY <1>3, <1>5 DEF Complete
<1>6. CASE Call
  BY <1>3, <1>6 DEF Call, Begin
<1>7. ASSUME NEW t \in Threads, Lock(t) \/ Goes(t)
      PROVE  ServerInv' /\ HostStep
  BY <1>3, <1>7 DEF Lock, Goes, Construct, FindMissing, AddMissing, Dial, Answer
<1>8. CASE UNCHANGED vars
  BY <1>3, <1>8 DEF vars
<1> QED BY <1>1, <1>2, <1>4, <1>5, <1>6, <1>7, <1>8 DEF Next

LEMMA CapabilityNext ==
  ASSUME ConnectionInv, [Next]_vars
  PROVE  CapabilityInv'
<1>0. ServerInv /\ ServerInv' /\ HostStep
  BY HostNext DEF ConnectionInv
<1>1. CASE found' = found
  <2>1. CapabilityOK(found, server', tls')
    BY <1>0, CapabilityStays DEF ConnectionInv, CapabilityInv, HostStep, ServerInv
  <2> QED BY <1>1, <2>1 DEF CapabilityInv
<1>2. CASE Discover
  <2>1. PICK d \in DiscoveryConfigs(server.config) :
          /\ Supported(d.service)
          /\ found' = [url |-> Url(d.service = "lts", d.port), exact |-> TRUE,
                       start |-> server.starts]
    BY <1>2 DEF Discover
  <2>2. \/ d.service = "lt" /\ d.port = server.config.Port /\ server.config.EnableStreaming
        \/ d.service = "lts" /\ d.port = server.config.TlsPort /\ server.config.EnableTls
    BY DEF DiscoveryConfigs
  <2>3. d.port \in Ports
    BY <1>0, <2>2, SettingsFit DEF ServerInv
  <2>4. UNCHANGED <<tls, server>>
    BY <1>2 DEF Discover
  <2> DEFINE url == Url(d.service = "lts", d.port)
  <2>5. /\ url.port \in Ports /\ url.prefix \in {"lt", "lts"}
        /\ IsSecure(url) = (d.service = "lts") /\ url.port = d.port
    BY <2>3, UrlIs
  <2>6. Announced(url, server.config)
    BY <2>2, <2>5 DEF Announced
  <2>7. IsSecure(url) => tls
    BY <2>1, <2>5 DEF Supported
  <2> HIDE DEF url
  <2>8. found'.url = url /\ found'.start = server.starts /\ server.starts \in Nat
    BY <1>0, <2>1 DEF url, ServerInv
  <2>9. CapabilityOK(found', server, tls)
    <3>1. server.starts <= server.starts
      BY <2>8
    <3> QED BY <2>5, <2>6, <2>7, <2>8, <3>1 DEF CapabilityOK
  <2> QED BY <2>4, <2>9 DEF CapabilityInv
<1>3. ASSUME NEW source \in {found, NoSource}, NEW target \in Capabilities(server.config),
             NEW missing \in BOOLEAN, Complete(source, target, missing)
      PROVE  CapabilityInv'
  <2> DEFINE capability == IF missing THEN [target EXCEPT !.port = NoPort] ELSE target
             url == CompletedUrl(source, capability)
             secure == target.protocol = "LTS"
             copied == source.url.prefix = url.prefix
  <2>1. /\ UNCHANGED <<tls, server>> /\ (secure => tls)
        /\ found' = [url |-> url, exact |-> IF copied THEN source.exact ELSE ~missing,
                     start |-> IF copied THEN source.start ELSE server.starts]
    BY <1>3 DEF Complete
  <2>2. CapabilityOK(source, server, tls)
    BY <1>0, NoSourceOK DEF ConnectionInv, CapabilityInv
  <2>3. \/ target = [protocol |-> "LT", port |-> server.config.Port]
           /\ server.config.EnableStreaming
        \/ target = [protocol |-> "LTS", port |-> server.config.TlsPort]
           /\ server.config.EnableTls
    BY DEF Capabilities
  <2>4. /\ target.port \in Ports /\ NoPort \notin Ports
        /\ target.port = IF secure THEN server.config.TlsPort ELSE server.config.Port
        /\ IF secure THEN server.config.EnableTls ELSE server.config.EnableStreaming
    <3>1. server.config.Port \in Ports /\ server.config.TlsPort \in Ports
      BY <1>0, SettingsFit DEF ServerInv
    <3>2. NoPort \notin Ports
      BY PortsAreNumbers, ConnectionAssumption
    <3> QED BY <2>3, <3>1, <3>2
  <2>5. /\ capability.protocol = target.protocol
        /\ capability.port = IF missing THEN NoPort ELSE target.port
    BY <2>3
  <2> DEFINE port == IF missing THEN DefaultPort(secure) ELSE target.port
  <2>6. url = IF source.url.prefix = Url(secure, port).prefix
              THEN source.url ELSE Url(secure, port)
    BY <2>4, <2>5 DEF CompletedUrl
  <2>7. port \in Ports
    BY <2>4, DefaultPortFits
  <2>8. /\ Url(secure, port).prefix = IF secure THEN "lts" ELSE "lt"
        /\ Url(secure, port).port = port
        /\ Url(secure, port).port \in Ports
    BY <2>7, UrlIs
  <2>9. CASE copied
    <3>1. url = source.url
      BY <2>6, <2>9
    <3> QED BY <2>1, <2>2, <2>9, <3>1 DEF CapabilityOK, CapabilityInv
  <2>10. CASE ~copied
    <3>1. url = Url(secure, port)
      BY <2>6, <2>10
    <3> HIDE DEF url, port, secure, copied
    <3>2. /\ found' = [url |-> url, exact |-> ~missing, start |-> server.starts]
          /\ IsSecure(url) = secure
      BY <2>1, <2>7, <2>10, <3>1, UrlIs DEF secure
    <3>3. ~missing => port = target.port
      BY DEF port
    <3>4. ~missing => Announced(url, server.config)
      BY <2>4, <2>8, <3>1, <3>2, <3>3 DEF Announced
    <3>5. url.port \in Ports /\ url.prefix \in {"lt", "lts"}
      BY <2>8, <3>1
    <3>6. /\ found'.url = url /\ found'.exact = ~missing /\ found'.start = server.starts
          /\ server.starts \in Nat /\ server.starts <= server.starts
      BY <1>0, <3>2 DEF ServerInv
    <3>7. IsSecure(url) => tls
      BY <2>1, <3>2
    <3>8. CapabilityOK(found', server, tls)
      BY <3>4, <3>5, <3>6, <3>7 DEF CapabilityOK
    <3> QED BY <2>1, <3>8 DEF CapabilityInv
  <2> QED BY <2>9, <2>10
<1>4. CASE found' = NoSource
  BY <1>0, <1>4, NoSourceOK DEF HostStep, CapabilityInv
<1> QED BY <1>1, <1>2, <1>3, <1>4 DEF Next, StartServer, StopServer, Call, Begin, Lock, Goes,
          Construct, FindMissing, AddMissing, Dial, Answer, vars

PortsKept ==
  \A c \in Configs : "Port" \in DOMAIN configs[c] =>
    "Port" \in DOMAIN configs'[c] /\ configs'[c].Port = configs[c].Port

LEMMA ObjectsNext ==
  ASSUME ConnectionInv, [Next]_vars
  PROVE  ObjectsInv' /\ PortsKept
<1>0. ObjectsInv
  BY DEF ConnectionInv
<1>1. CASE configs' = configs
  BY <1>0, <1>1 DEF ObjectsInv, PortsKept
<1>2. ASSUME NEW t \in Threads, AddMissing(t), calls[t].adding \notin DOMAIN configs[calls[t].config]
      PROVE  ObjectsInv' /\ PortsKept
  <2> DEFINE c == calls[t].config
             secure == IsSecure(calls[t].url)
             name == calls[t].adding
             config == Over(configs[c], DefaultOf(name, secure))
  <2>1. calls[t].pc = "adding" /\ configs' = [configs EXCEPT ![c] = config]
    BY <1>2 DEF AddMissing, DefaultOf
  <2>2. c \in Configs /\ name \in DOMAIN DefaultConfig(secure) /\ secure \in BOOLEAN
    <3>1. CallOK(calls[t], server, configs, tls)
      BY <2>1 DEF ConnectionInv, CallsInv, Idle
    <3> QED BY <2>1, <3>1 DEF CallOK, IsSecure
  <2>3. Filled(config, Given[c])
    BY <1>0, <2>2, FilledStays DEF ObjectsInv
  <2>4. "Port" \in DOMAIN configs[c] => "Port" \in DOMAIN config /\ config.Port = configs[c].Port
    BY DEF Over
  <2> HIDE DEF config, c, name, secure
  <2>5. DOMAIN configs' = Configs /\ configs'[c] = config
        /\ \A d \in Configs : d # c => configs'[d] = configs[d]
    BY <1>0, <2>1, <2>2 DEF ObjectsInv
  <2>6. ObjectsInv'
    BY <1>0, <2>3, <2>5 DEF ObjectsInv
  <2>7. PortsKept
    BY <2>4, <2>5 DEF PortsKept
  <2> QED BY <2>6, <2>7
<1>3. ASSUME NEW t \in Threads, Goes(t)
      PROVE  ObjectsInv' /\ PortsKept
  BY <1>1, <1>2, <1>3 DEF Goes, Construct, FindMissing, AddMissing, Dial, Answer
<1> QED BY <1>1, <1>3 DEF Next, StartServer, StopServer, Discover, Complete, Elsewhere, clientVars,
          Call, Begin, Lock, vars

\* What the object says of the port when the call begins.
LEMMA ToldByObject ==
  ASSUME ObjectsInv, NEW c \in Configs \cup {NoConfig}, NEW secure \in BOOLEAN, NEW url
  PROVE  \/ PortTold(url, ConfigOf(c), secure) = PortTold(url, GivenOf(c), secure)
         \/ /\ url.port = NoPort \/ Port16(url.port) = 0
            /\ FilledByOther(c, secure, configs)
<1>1. Filled(ConfigOf(c), GivenOf(c))
  BY ObjectsFilled
<1>2. CASE "Port" \in DOMAIN GivenOf(c) \/ "Port" \notin DOMAIN ConfigOf(c)
  BY <1>1, <1>2 DEF Filled, PortTold
<1>3. CASE "Port" \notin DOMAIN GivenOf(c) /\ "Port" \in DOMAIN ConfigOf(c)
  <2>1. ConfigOf(c).Port \in {WsPort, WssPort}
    BY <1>1, <1>3 DEF Filled
  <2>2. Port16(ConfigOf(c).Port) = ConfigOf(c).Port /\ ConfigOf(c).Port # 0
    BY <2>1, PortsFit, PortAssumption
  <2>3. c \in Configs /\ ConfigOf(c) = configs[c] /\ GivenOf(c) = Given[c]
    BY <1>3 DEF ConfigOf, GivenOf, NoProperties
  <2> QED BY <1>3, <2>2, <2>3 DEF PortTold, FilledByOther
<1> QED BY <1>2, <1>3

LEMMA ToldByDefaults ==
  ASSUME NEW secure \in BOOLEAN, NEW url
  PROVE  PortTold(url, DefaultConfig(secure), secure) = PortTold(url, NoProperties, secure)
<1>1. /\ "Port" \in DOMAIN DefaultConfig(secure) /\ DefaultConfig(secure).Port = DefaultPort(secure)
      /\ "Port" \notin DOMAIN NoProperties
  BY DEF DefaultConfig, DefaultPort, NoProperties
<1>2. Port16(DefaultPort(secure)) = DefaultPort(secure)
  BY DefaultPortFits, PortsFit
<1> QED BY <1>1, <1>2 DEF PortTold

\* The other calls go on as they were, but for what they are told was added.
OthersKeep(t) ==
  \A u \in Threads : u # t =>
    \/ calls'[u] = calls[u]
    \/ calls[u].pc = "adding" /\ \E raced : calls'[u] = [calls[u] EXCEPT !.raced = raced]

\* A call in progress that others do not disturb.
LEMMA OthersAre ==
  ASSUME CallsInv, NEW t, OthersKeep(t), NEW u \in Threads, u # t
  PROVE  \/ calls[u] = Idle /\ calls'[u] = Idle
         \/ /\ CallOK(calls[u], server, configs, tls)
            /\ calls'[u].pc = calls[u].pc /\ calls'[u].kind = calls[u].kind
            /\ calls'[u].index = calls[u].index /\ calls'[u].config = calls[u].config
            /\ calls'[u].adding = calls[u].adding
<1>1. CASE calls'[u] = calls[u]
  BY <1>1 DEF CallsInv
<1>2. CASE calls[u].pc = "adding" /\ \E raced : calls'[u] = [calls[u] EXCEPT !.raced = raced]
  <2>1. CallOK(calls[u], server, configs, tls)
    BY <1>2 DEF CallsInv, Idle
  <2> QED BY <1>2, <2>1 DEF CallOK, CallFields
<1> QED BY <1>1, <1>2 DEF OthersKeep

\* After a step of t, and only of t.
LEMMA CallsStep ==
  ASSUME CallsInv, ServerInv, HostStep, PortsKept, NEW t, OthersKeep(t),
         DOMAIN calls' = Threads,
         t \in Threads => calls'[t] = Idle \/ CallOK(calls'[t], server', configs', tls')
  PROVE  CallsInv'
<1>1. ASSUME NEW u \in Threads, u # t, CallOK(calls[u], server, configs, tls)
      PROVE  CallOK(calls'[u], server', configs', tls')
  <2>1. CallOK(calls[u], server', configs', tls')
    BY <1>1, CallStays DEF ServerInv, HostStep, PortsKept
  <2>2. /\ DOMAIN calls'[u] = DOMAIN calls[u]
        /\ \A field \in DOMAIN calls[u] \ {"raced", "index"} : calls'[u][field] = calls[u][field]
    BY <1>1 DEF OthersKeep, CallOK, CallFields
  <2> QED BY <2>1, <2>2, CallSame
<1> QED BY <1>1, OthersAre DEF CallsInv

LEMMA CallsStay ==
  ASSUME CallsInv, ServerInv, HostStep, PortsKept, calls' = calls
  PROVE  CallsInv'
<1>1. ASSUME NEW u \in Threads, CallOK(calls[u], server, configs, tls)
      PROVE  CallOK(calls[u], server', configs', tls')
  BY <1>1, CallStays DEF ServerInv, HostStep, PortsKept
<1> QED BY <1>1 DEF CallsInv

\* What a call that begins holds: the port that it will dial.
NewCall(kind, given, c, capability) ==
  LET streaming == IF c = NoConfig THEN DefaultConfig(IsSecure(NewStyle(given))) ELSE configs[c]
      formed == Formed(given, IF kind = "device" THEN ConfigOf(c) ELSE streaming)
  IN [pc |-> IF kind = "device" THEN "waiting" ELSE "ready",
      kind |-> kind, url |-> formed.url, port |-> formed.port,
      config |-> c, index |-> 0, adding |-> "", raced |-> {},
      met |-> {}, host |-> NoHost,
      ask |-> [url |-> given, config |-> c, capability |-> capability]]

LEMMA BeginCalls ==
  ASSUME ConnectionInv, NEW t, NEW kind, NEW given, NEW c, NEW capability,
         Called(t, kind, given, c, capability)
  PROVE  /\ CallOK(NewCall(kind, given, c, capability), server, configs, tls)
         /\ NewCall(kind, given, c, capability).pc \in {"waiting", "ready"}
         /\ NewCall(kind, given, c, capability).pc = "ready" => kind = "streaming"
         /\ NewCall(kind, given, c, capability).kind = kind
<1> DEFINE secure == IsSecure(given)
           config == IF kind = "streaming" /\ c = NoConfig THEN DefaultConfig(secure)
                     ELSE ConfigOf(c)
           formed == Formed(given, config)
           call == NewCall(kind, given, c, capability)
<1>0. /\ kind \in Kinds /\ c \in Configs \cup {NoConfig}
      /\ given.port \in Nat \cup {NoPort} /\ CapabilityOK(capability, server, tls)
      /\ capability.exact => capability.url = given
      /\ ObjectsInv /\ secure \in BOOLEAN
  BY DEF Called, ConnectionInv, IsSecure
<1>1. IsSecure(NewStyle(given)) = secure
  BY DEF NewStyle, IsSecure
<1>2. /\ kind = "device" => config = ConfigOf(c)
      /\ kind # "device" => config = IF c = NoConfig THEN DefaultConfig(secure) ELSE configs[c]
  BY <1>0 DEF Kinds, ConfigOf
<1>3. /\ DOMAIN call = CallFields
      /\ call.pc = (IF kind = "device" THEN "waiting" ELSE "ready") /\ call.kind = kind
      /\ call.url = formed.url /\ call.port = formed.port /\ call.config = c
      /\ call.met = {}
      /\ call.ask.url = given /\ call.ask.config = c /\ call.ask.capability = capability
  BY <1>1, <1>2 DEF NewCall, CallFields
<1>4. "Port" \in DOMAIN config => config.Port \in Int
  BY <1>0, ObjectsFilled, DefaultPortFits DEF DefaultConfig, DefaultPort
<1>5. /\ formed.port = Dialed(formed.url) /\ IsSecure(formed.url) = secure
      /\ formed.port = PortTold(given, config, secure)
  BY <1>0, <1>4, FormedAsTold
<1>6. \/ formed.port = PortTold(given, GivenOf(c), secure)
      \/ /\ given.port = NoPort \/ Port16(given.port) = 0
         /\ FilledByOther(c, secure, configs)
  <2>1. CASE kind = "streaming" /\ c = NoConfig
    BY <1>0, <1>5, <2>1, ToldByDefaults DEF GivenOf
  <2>2. CASE ~(kind = "streaming" /\ c = NoConfig)
    BY <1>0, <1>5, <2>2, ToldByObject
  <2> QED BY <2>1, <2>2
<1> HIDE DEF call, formed, config, secure
<1>7. CallOK(call, server, configs, tls)
  BY <1>0, <1>3, <1>5, <1>6 DEF CallOK, secure
<1> QED BY <1>0, <1>3, <1>7 DEF Kinds, call

LEMMA BeginStep ==
  ASSUME ConnectionInv, NEW t, NEW kind, NEW given, NEW c, NEW capability,
         Called(t, kind, given, c, capability)
  PROVE  /\ UNCHANGED <<tls, server, configs, sync, deviceIndex, devices>>
         /\ IF Accepts(given)
            THEN calls' = [calls EXCEPT ![t] = NewCall(kind, given, c, capability)]
                 /\ last' = Idle
            ELSE End(t, NewCall(kind, given, c, capability), "InvalidParameter")
BY DEF Called, Begin, NewCall

LEMMA SettingsOf ==
  ASSUME ConnectionInv, NEW call, CallOK(call, server, configs, tls), call.pc = "filling",
         IsSecure(call.url)
  PROVE  SameSettings(Effective(ConfigOf(call.config), TRUE),
                      Effective(GivenOf(call.ask.config), TRUE))
<1>1. call.config \in Configs \cup {NoConfig} /\ call.config = call.ask.config
  BY DEF CallOK
<1> QED BY <1>1, ObjectsFilled, SettingsStay DEF ConnectionInv

\* What a call does on its own: it goes on, or ends and releases the mutex.
LEMMA GoesStep ==
  ASSUME ConnectionInv, NEW t \in Threads, Goes(t)
  PROVE  /\ CallOK(calls[t], server, configs, tls)
         /\ calls[t].pc \in {"ready", "filling", "adding", "shaking"}
         /\ DOMAIN calls' = Threads /\ OthersKeep(t) /\ UNCHANGED <<tls, server>>
         /\ \/ calls'[t] = Idle /\ Unlock(t)
            \/ /\ sync' = sync /\ CallOK(calls'[t], server, configs, tls)
               /\ calls'[t].pc \in {"filling", "adding", "shaking"}
               /\ calls'[t].kind = calls[t].kind /\ calls'[t].index = calls[t].index
<1> DEFINE old == calls[t]
           secure == IsSecure(old.url)
<1>0. DOMAIN calls = Threads /\ Idle.pc = "idle"
  BY DEF ConnectionInv, CallsInv, Idle
<1>1. CallOK(old, server, configs, tls)
      /\ old.pc \in {"ready", "filling", "adding", "shaking"}
  BY <1>0 DEF Goes, Construct, FindMissing, AddMissing, Dial, Answer, ConnectionInv, CallsInv
<1>2. UNCHANGED <<tls, server>>
  BY DEF Goes, Construct, FindMissing, AddMissing, Dial, Answer
<1>3. ASSUME calls' = [calls EXCEPT ![t] = Idle], Unlock(t)
      PROVE  DOMAIN calls' = Threads /\ OthersKeep(t) /\ calls'[t] = Idle /\ Unlock(t)
  BY <1>0, <1>3 DEF OthersKeep
<1>4. ASSUME NEW call, calls' = [calls EXCEPT ![t] = call], sync' = sync,
             CallOK(call, server, configs, tls), call.pc \in {"filling", "adding", "shaking"},
             call.kind = old.kind, call.index = old.index
      PROVE  /\ DOMAIN calls' = Threads /\ OthersKeep(t) /\ sync' = sync
             /\ CallOK(calls'[t], server, configs, tls)
             /\ calls'[t].pc \in {"filling", "adding", "shaking"}
             /\ calls'[t].kind = calls[t].kind /\ calls'[t].index = calls[t].index
  BY <1>0, <1>4 DEF OthersKeep
<1>5. CASE Construct(t)
  <2>1. old.pc = "ready"
    BY <1>5 DEF Construct
  <2>2. CASE secure /\ ~tls
    <3>1. calls' = [calls EXCEPT ![t] = Idle] /\ Unlock(t)
      BY <1>5, <2>2 DEF Construct, End
    <3> QED BY <1>1, <1>2, <1>3, <3>1
  <2>3. CASE ~(secure /\ ~tls)
    <3> DEFINE call == [old EXCEPT !.pc = "filling"]
    <3>1. calls' = [calls EXCEPT ![t] = call] /\ sync' = sync
      BY <1>5, <2>3 DEF Construct
    <3>2. /\ DOMAIN call = CallFields
          /\ call.pc = "filling"
          /\ \A field \in CallFields \ {"pc"} : call[field] = old[field]
      BY <1>1 DEF CallOK, CallFields
    <3> HIDE DEF call
    <3>3. CallOK(call, server, configs, tls) /\ call.kind = old.kind /\ call.index = old.index
      BY <1>1, <2>1, <3>2 DEF CallOK, CallFields
    <3> QED BY <1>1, <1>2, <1>4, <3>1, <3>2, <3>3
  <2> QED BY <2>2, <2>3
<1>6. CASE FindMissing(t)
  <2>1. PICK i \in DOMAIN DefaultNames(secure) :
          /\ old.pc = "filling" /\ old.config # NoConfig /\ sync' = sync
          /\ calls' = [calls EXCEPT ![t].pc = "adding", ![t].adding = DefaultNames(secure)[i]]
    BY <1>6 DEF FindMissing
  <2> DEFINE name == DefaultNames(secure)[i]
             call == [old EXCEPT !.pc = "adding", !.adding = name]
  <2>2. name \in DOMAIN DefaultConfig(secure)
    BY DEF DefaultNames, DefaultConfig
  <2>3. calls' = [calls EXCEPT ![t] = call]
    BY <1>0, <2>1
  <2>4. /\ DOMAIN call = CallFields /\ call.pc = "adding" /\ call.adding = name
        /\ \A field \in CallFields \ {"pc", "adding"} : call[field] = old[field]
    BY <1>1 DEF CallOK, CallFields
  <2> HIDE DEF call, name
  <2>5. CallOK(call, server, configs, tls) /\ call.kind = old.kind /\ call.index = old.index
    BY <1>1, <2>1, <2>2, <2>4 DEF CallOK, CallFields
  <2> QED BY <1>1, <1>2, <1>4, <2>1, <2>3, <2>4, <2>5
<1>7. CASE AddMissing(t)
  <2>1. CASE old.adding \in DOMAIN configs[old.config]
    <3>1. calls' = [calls EXCEPT ![t] = Idle] /\ Unlock(t)
      BY <1>7, <2>1 DEF AddMissing, End
    <3> QED BY <1>1, <1>2, <1>3, <3>1
  <2>2. CASE old.adding \notin DOMAIN configs[old.config]
    <3> DEFINE call == [old EXCEPT !.pc = "filling"]
               told(u) == [calls[u] EXCEPT !.raced = @ \cup {old.kind}]
    <3>1. /\ sync' = sync /\ old.pc = "adding"
          /\ calls' = [u \in Threads |->
               CASE u = t -> call
                 [] u # t /\ calls[u].pc = "adding" /\ calls[u].config = old.config
                      /\ calls[u].adding = old.adding -> told(u)
                 [] OTHER -> calls[u]]
      BY <1>7, <2>2 DEF AddMissing
    <3>2. DOMAIN calls' = Threads /\ calls'[t] = call
      BY <3>1
    <3>3. OthersKeep(t)
      BY <3>1 DEF OthersKeep
    <3>4. /\ DOMAIN call = CallFields /\ call.pc = "filling"
          /\ \A field \in CallFields \ {"pc"} : call[field] = old[field]
      BY <1>1 DEF CallOK, CallFields
    <3>5. CallOK(call, server, configs, tls) /\ call.kind = old.kind /\ call.index = old.index
      <4> HIDE DEF call
      <4> QED BY <1>1, <3>1, <3>4 DEF CallOK, CallFields
    <3> HIDE DEF call
    <3> QED BY <1>1, <1>2, <3>1, <3>2, <3>3, <3>4, <3>5
  <2> QED BY <2>1, <2>2
<1>8. CASE Dial(t)
  <2> DEFINE config == Effective(ConfigOf(old.config), secure)
             met == ListenersAt(Dialed(old.url))
             call == [old EXCEPT !.pc = "shaking", !.config = config, !.adding = "",
                                 !.met = met, !.host = server]
  <2>1. old.pc = "filling"
    BY <1>8 DEF Dial
  <2>2. CASE (secure /\ BadSecrets(config)) \/ met = {}
    <3>1. calls' = [calls EXCEPT ![t] = Idle] /\ Unlock(t)
      BY <1>8, <2>2 DEF Dial, End
    <3> QED BY <1>1, <1>2, <1>3, <3>1
  <2>3. CASE ~((secure /\ BadSecrets(config)) \/ met = {})
    <3>1. /\ sync' = sync
          /\ calls' = [calls EXCEPT ![t].pc = "shaking", ![t].config = config,
                                    ![t].adding = "", ![t].met = met, ![t].host = server]
      BY <1>8, <2>3 DEF Dial
    <3>2. calls' = [calls EXCEPT ![t] = call]
      BY <1>0, <3>1
    <3>3. /\ DOMAIN call = CallFields /\ call.pc = "shaking" /\ call.config = config
          /\ call.met = met /\ call.host = server
          /\ \A field \in CallFields \ {"pc", "config", "adding", "met", "host"} :
               call[field] = old[field]
      BY <1>1 DEF CallOK, CallFields
    <3>4. secure => SameSettings(config, Effective(GivenOf(old.ask.config), TRUE))
      BY <1>1, <2>1, SettingsOf DEF IsSecure
    <3>5. /\ server.up /\ ~Refused(server.config) /\ server.starts \in Nat
          /\ met = ListenersOn(server.config, Dialed(old.url))
      BY <2>3 DEF ConnectionInv, ServerInv, ListenersAt, ListenersOn
    <3>6. old.ask.capability.start <= server.starts
      BY <1>1 DEF CallOK, CapabilityOK
    <3> HIDE DEF call, config, met
    <3>7. /\ call.kind = old.kind /\ call.index = old.index /\ call.url = old.url
          /\ call.ask = old.ask /\ call.port = old.port
      BY <3>3 DEF CallFields
    <3>8. Shaking(call, server)
      <4>1. /\ call.config = config /\ call.met = met /\ call.host = server
            /\ call.url = old.url /\ call.ask = old.ask /\ met # {}
        BY <2>3, <3>3, <3>7
      <4>2. IsSecure(call.url) =>
              SameSettings(call.config, Effective(GivenOf(call.ask.config), TRUE))
        BY <3>4, <4>1
      <4>3. server.starts <= server.starts
        BY <3>5
      <4> QED BY <3>5, <3>6, <4>1, <4>2, <4>3 DEF Shaking
    <3>9. CallOK(call, server, configs, tls)
      BY <1>1, <3>3, <3>7, <3>8 DEF CallOK
    <3> QED BY <1>1, <1>2, <1>4, <3>1, <3>2, <3>3, <3>7, <3>9
  <2> QED BY <2>2, <2>3
<1>9. CASE Answer(t)
  <2>1. calls' = [calls EXCEPT ![t] = Idle] /\ Unlock(t)
    BY <1>9 DEF Answer, End
  <2> QED BY <1>1, <1>2, <1>3, <2>1
<1> QED BY <1>5, <1>6, <1>7, <1>8, <1>9 DEF Goes

LEMMA CallsNext ==
  ASSUME ConnectionInv, [Next]_vars
  PROVE  CallsInv'
<1>0. CallsInv /\ ServerInv /\ HostStep /\ PortsKept
  BY HostNext, ObjectsNext DEF ConnectionInv
<1>1. CASE calls' = calls
  BY <1>0, <1>1, CallsStay
<1>2. CASE Call
  <2>1. PICK t, kind, given, c, capability : Called(t, kind, given, c, capability)
    BY <1>2, CallBegins
  <2> DEFINE call == NewCall(kind, given, c, capability)
  <2>2. /\ t \in Threads /\ server' = server /\ configs' = configs /\ tls' = tls
        /\ calls' = [calls EXCEPT ![t] = call] \/ calls' = [calls EXCEPT ![t] = Idle]
    BY <2>1, BeginStep DEF Called, End
  <2>3. CallOK(call, server, configs, tls)
    BY <2>1, BeginCalls
  <2> HIDE DEF call
  <2>4. DOMAIN calls' = Threads /\ OthersKeep(t)
        /\ (calls'[t] = Idle \/ CallOK(calls'[t], server', configs', tls'))
    BY <1>0, <2>2, <2>3 DEF OthersKeep, CallsInv
  <2> QED BY <1>0, <2>4, CallsStep
<1>3. ASSUME NEW t \in Threads, Lock(t)
      PROVE  CallsInv'
  <2> DEFINE call == [calls[t] EXCEPT !.pc = "ready", !.index = deviceIndex]
  <2>1. /\ CallOK(calls[t], server, configs, tls) /\ calls[t].pc = "waiting"
        /\ server' = server /\ configs' = configs /\ tls' = tls
        /\ calls' = [calls EXCEPT ![t].pc = "ready", ![t].index = deviceIndex]
    BY <1>0, <1>3 DEF Lock, CallsInv, Idle
  <2>2. calls' = [calls EXCEPT ![t] = call]
    BY <2>1, <1>0 DEF CallsInv
  <2>3. /\ DOMAIN call = CallFields /\ call.pc = "ready"
        /\ \A field \in CallFields \ {"pc", "index"} : call[field] = calls[t][field]
    BY <2>1 DEF CallOK, CallFields
  <2> HIDE DEF call
  <2>4. CallOK(call, server, configs, tls)
    BY <2>1, <2>3 DEF CallOK, CallFields
  <2>5. DOMAIN calls' = Threads /\ OthersKeep(t) /\ CallOK(calls'[t], server', configs', tls')
    BY <1>0, <2>1, <2>2, <2>4 DEF OthersKeep, CallsInv
  <2> QED BY <1>0, <2>5, CallsStep
<1>4. ASSUME NEW t \in Threads, Goes(t)
      PROVE  CallsInv'
  <2>1. /\ DOMAIN calls' = Threads /\ OthersKeep(t) /\ UNCHANGED <<tls, server>>
        /\ calls'[t] = Idle \/ CallOK(calls'[t], server, configs, tls)
    BY <1>4, GoesStep
  <2>2. CallOK(calls'[t], server, configs, tls) => CallOK(calls'[t], server', configs', tls')
    BY <1>0, <2>1, CallStays DEF ServerInv, HostStep, PortsKept
  <2> QED BY <1>0, <2>1, <2>2, CallsStep
<1> QED BY <1>1, <1>2, <1>3, <1>4 DEF Next, StartServer, StopServer, Discover, Complete,
          Elsewhere, clientVars, vars

\* A step of one thread that does not take the mutex from another.
LEMMA LockNext ==
  ASSUME ConnectionInv, [Next]_vars
  PROVE  LockInv'
<1>0. LockInv /\ CallsInv /\ DOMAIN calls = Threads
  BY DEF ConnectionInv, CallsInv
<1>1. CASE UNCHANGED <<calls, sync, deviceIndex, devices>>
  BY <1>0, <1>1 DEF LockInv, Holding, LocalIdsUnique
<1>2. CASE Call
  <2>1. PICK t, kind, given, c, capability : Called(t, kind, given, c, capability)
    BY <1>2, CallBegins
  <2> DEFINE call == NewCall(kind, given, c, capability)
  <2>2. /\ t \in Threads /\ UNCHANGED <<sync, deviceIndex, devices>>
        /\ calls' = [calls EXCEPT ![t] = call] \/ calls' = [calls EXCEPT ![t] = Idle]
    BY <2>1, BeginStep DEF Called, End
  <2>3. ~Holding(call) /\ ~Holding(Idle)
    BY <2>1, BeginCalls DEF Holding, Idle
  <2> HIDE DEF call
  <2>4. \A u \in Threads : Holding(calls'[u]) => Holding(calls[u]) /\ calls'[u] = calls[u]
    BY <1>0, <2>2, <2>3
  <2> QED BY <1>0, <2>2, <2>4 DEF LockInv, LocalIdsUnique
<1>3. ASSUME NEW t \in Threads, Lock(t)
      PROVE  LockInv'
  <2>1. /\ sync = Nobody /\ sync' = t /\ UNCHANGED <<deviceIndex, devices>>
        /\ calls' = [calls EXCEPT ![t].pc = "ready", ![t].index = deviceIndex]
        /\ calls[t].pc = "waiting" /\ CallOK(calls[t], server, configs, tls)
    BY <1>3 DEF Lock, Free, ConnectionInv, CallsInv, Idle
  <2>2. calls'[t].pc = "ready" /\ calls'[t].index = deviceIndex
        /\ \A u \in Threads : u # t => calls'[u] = calls[u]
    BY <1>0, <2>1 DEF CallOK, CallFields
  <2>3. \A u \in Threads : ~Holding(calls[u])
    BY <1>0, <2>1, ConnectionAssumption DEF LockInv
  <2>4. \A u \in Threads : Holding(calls'[u]) => u = t
    BY <2>2, <2>3
  <2> QED BY <1>0, <2>1, <2>2, <2>4 DEF LockInv, LocalIdsUnique
<1>4. ASSUME NEW t \in Threads, Goes(t)
      PROVE  LockInv'
  <2>1. /\ OthersKeep(t) /\ DOMAIN calls' = Threads
        /\ calls[t].pc \in {"ready", "filling", "adding", "shaking"}
        /\ \/ calls'[t] = Idle /\ Unlock(t)
           \/ /\ sync' = sync /\ calls'[t].pc \in {"filling", "adding", "shaking"}
              /\ calls'[t].kind = calls[t].kind /\ calls'[t].index = calls[t].index
    BY <1>4, GoesStep
  <2>2. ~Holding(Idle)
    BY DEF Holding, Idle
  <2>3. ASSUME NEW u \in Threads, u # t, Holding(calls'[u])
        PROVE  /\ sync = u /\ sync' = u /\ Holding(calls[u]) /\ ~Holding(calls[t])
               /\ calls'[u].pc = calls[u].pc /\ calls'[u].index = calls[u].index
    <3>1. /\ Holding(calls[u])
          /\ calls'[u].pc = calls[u].pc /\ calls'[u].index = calls[u].index
      BY <1>0, <2>1, <2>2, <2>3, OthersAre DEF Holding
    <3>2. sync = u /\ ~Holding(calls[t])
      BY <1>0, <2>3, <3>1 DEF LockInv
    <3> QED BY <2>1, <2>3, <3>1, <3>2 DEF Unlock
  <2>4. CASE calls[t].kind # "device"
    <3>1. ~Holding(calls'[t])
      BY <2>1, <2>2, <2>4 DEF Holding
    <3>2. deviceIndex' = deviceIndex /\ devices' = devices
      BY <1>4, <2>4 DEF Goes, Construct, NextIndex, FindMissing, AddMissing, Dial, Answer
    <3> QED BY <1>0, <2>3, <3>1, <3>2 DEF LockInv, LocalIdsUnique
  <2>5. CASE calls[t].kind = "device"
    <3> DEFINE index == calls[t].index
    <3>1. Holding(calls[t])
      BY <2>1, <2>5 DEF Holding
    <3>2. \A u \in Threads : Holding(calls'[u]) => u = t
      BY <2>3, <3>1
    <3>3. /\ index \in Nat /\ sync = t
          /\ \A i \in DOMAIN devices : devices[i] < index
          /\ deviceIndex = IF calls[t].pc = "ready" THEN index ELSE index + 1
      BY <1>0, <3>1 DEF LockInv
    <3>4. deviceIndex' = index + 1
      BY <1>4, <2>5, <3>3 DEF Goes, Construct, NextIndex, FindMissing, AddMissing, Dial, Answer
    <3>5. \A i \in DOMAIN devices : devices[i] \in Nat /\ devices[i] < index + 1
      BY <1>0, <3>3 DEF LockInv
    <3>6. CASE devices' = devices
      BY <1>0, <2>1, <2>2, <3>2, <3>3, <3>4, <3>5, <3>6 DEF LockInv, LocalIdsUnique
    <3>7. CASE Answer(t) /\ devices' = Append(devices, index)
      <4>1. /\ devices' \in Seq(Nat) /\ DOMAIN devices' = 1 .. Len(devices) + 1
            /\ DOMAIN devices = 1 .. Len(devices) /\ Len(devices) \in Nat
            /\ devices'[Len(devices) + 1] = index
            /\ \A i \in DOMAIN devices : devices'[i] = devices[i] /\ devices[i] \in Nat
        BY <1>0, <3>3, <3>7 DEF LockInv
      <4>2. \A i \in DOMAIN devices' : devices'[i] < deviceIndex'
        BY <3>3, <3>4, <4>1
      <4>3. LocalIdsUnique'
        <5> SUFFICES ASSUME NEW i \in DOMAIN devices', NEW j \in DOMAIN devices', i # j
                     PROVE  devices'[i] # devices'[j]
          BY DEF LocalIdsUnique
        <5>1. CASE i \in DOMAIN devices /\ j \in DOMAIN devices
          BY <1>0, <4>1, <5>1 DEF LockInv, LocalIdsUnique
        <5>2. CASE i \in DOMAIN devices /\ j = Len(devices) + 1
          BY <3>3, <4>1, <5>2
        <5>3. CASE j \in DOMAIN devices /\ i = Len(devices) + 1
          BY <3>3, <4>1, <5>3
        <5> QED BY <4>1, <5>1, <5>2, <5>3
      <4>4. calls'[t] = Idle
        <5>1. calls' = [calls EXCEPT ![t] = Idle]
          BY <3>7 DEF Answer, End
        <5> QED BY <1>0, <5>1
      <4>5. \A u \in Threads : ~Holding(calls'[u])
        BY <2>2, <3>2, <4>4
      <4> QED BY <3>3, <3>4, <4>1, <4>2, <4>3, <4>5 DEF LockInv
    <3>8. devices' = devices \/ (Answer(t) /\ devices' = Append(devices, index))
      BY <1>4 DEF Goes, Construct, FindMissing, AddMissing, Dial, Answer
    <3> QED BY <3>6, <3>7, <3>8
  <2> QED BY <2>4, <2>5
<1> QED BY <1>1, <1>2, <1>3, <1>4 DEF Next, StartServer, StopServer, Discover, Complete,
          Elsewhere, clientVars, vars

\* Two calls that add the same property to an object are not both device calls, and
\* the one that comes second is told of the first.
LEMMA RaceNext ==
  ASSUME ConnectionInv, [Next]_vars
  PROVE  RaceInv'
<1>0. RaceInv /\ CallsInv /\ LockInv
  BY DEF ConnectionInv
<1>1. ASSUME NEW t \in Threads, AddMissing(t), calls[t].adding \notin DOMAIN configs[calls[t].config]
      PROVE  RaceInv'
  <2> SUFFICES ASSUME NEW u \in Threads, calls'[u].pc = "adding",
                      calls'[u].adding \in DOMAIN configs'[calls'[u].config]
               PROVE  "streaming" \in calls'[u].raced \cup {calls'[u].kind}
    BY DEF RaceInv
  <2> DEFINE old == calls[t]
             c == old.config
             same == calls[u].config = c /\ calls[u].adding = old.adding
             told == [calls[u] EXCEPT !.raced = @ \cup {old.kind}]
             added == DefaultOf(old.adding, IsSecure(old.url))
  <2>1. /\ old.pc = "adding" /\ CallOK(old, server, configs, tls) /\ c \in Configs
    BY <1>0, <1>1 DEF AddMissing, CallsInv, CallOK, Idle
  <2>2. /\ configs' = [configs EXCEPT ![c] = Over(@, added)]
        /\ calls' = [v \in Threads |->
             CASE v = t -> [old EXCEPT !.pc = "filling"]
               [] v # t /\ calls[v].pc = "adding" /\ calls[v].config = c
                    /\ calls[v].adding = old.adding ->
                    [calls[v] EXCEPT !.raced = @ \cup {old.kind}]
               [] OTHER -> calls[v]]
    BY <1>1 DEF AddMissing, DefaultOf
  <2>3. u # t
    BY <2>1, <2>2 DEF CallOK, CallFields
  <2>4. /\ calls'[u] = IF calls[u].pc = "adding" /\ same THEN told ELSE calls[u]
    BY <2>2, <2>3
  <2>5. CallOK(calls[u], server, configs, tls) /\ calls[u].pc = "adding"
        /\ calls'[u].adding = calls[u].adding /\ calls'[u].config = calls[u].config
        /\ calls'[u].kind = calls[u].kind /\ calls[u].config \in Configs
    <3>1. OthersKeep(t)
      BY <2>2 DEF OthersKeep
    <3>2. calls'[u] # Idle
      BY DEF Idle
    <3> QED BY <1>0, <2>3, <3>1, <3>2, OthersAre DEF CallOK
  <2>6. CASE same
    <3>1. calls'[u].raced = calls[u].raced \cup {old.kind}
      BY <2>4, <2>5, <2>6 DEF CallOK, CallFields
    <3>2. ~(Holding(old) /\ Holding(calls[u]))
      BY <1>0, <2>3 DEF LockInv
    <3>3. old.kind = "streaming" \/ calls[u].kind = "streaming"
      BY <2>1, <2>5, <3>2 DEF Holding, CallOK, Kinds
    <3> QED BY <2>5, <3>1, <3>3
  <2>7. CASE ~same
    <3>1. calls'[u] = calls[u]
      BY <2>4, <2>7
    <3>2. \A d \in Configs : \A name \in DOMAIN configs'[d] :
            name \in DOMAIN configs[d] \/ (d = c /\ name = old.adding)
      BY <2>1, <2>2 DEF Over, DefaultOf, ConnectionInv, ObjectsInv
    <3>3. calls[u].adding \in DOMAIN configs[calls[u].config]
      BY <2>5, <2>7, <3>2
    <3> QED BY <1>0, <2>5, <3>1, <3>3 DEF RaceInv
  <2> QED BY <2>6, <2>7
<1>2. ASSUME configs' = configs,
             \A u \in Threads : calls'[u].pc = "adding" =>
               \/ calls'[u] = calls[u]
               \/ calls'[u].adding \notin DOMAIN configs[calls'[u].config]
      PROVE  RaceInv'
  BY <1>0, <1>2 DEF RaceInv
<1>3. ASSUME NEW t \in Threads, NEW call, configs' = configs, calls' = [calls EXCEPT ![t] = call],
             call.pc = "adding" => call.adding \notin DOMAIN configs[call.config]
      PROVE  RaceInv'
  <2>1. calls'[t] = call /\ \A u \in Threads : u # t => calls'[u] = calls[u]
    BY <1>0, <1>3 DEF CallsInv
  <2> QED BY <1>2, <1>3, <2>1
<1>4. CASE configs' = configs /\ calls' = calls
  BY <1>2, <1>4
<1>5. ASSUME NEW t \in Threads, configs' = configs, calls' = [calls EXCEPT ![t] = Idle]
      PROVE  RaceInv'
  BY <1>3, <1>5 DEF Idle
<1>6. CASE Call
  <2>1. PICK t, kind, given, c, capability : Called(t, kind, given, c, capability)
    BY <1>6, CallBegins
  <2>2. NewCall(kind, given, c, capability).pc # "adding"
    BY <2>1, BeginCalls
  <2>3. t \in Threads /\ configs' = configs
    BY <2>1, BeginStep DEF Called
  <2>4. \/ calls' = [calls EXCEPT ![t] = NewCall(kind, given, c, capability)]
        \/ calls' = [calls EXCEPT ![t] = Idle]
    BY <2>1, BeginStep DEF End
  <2> QED BY <1>3, <1>5, <2>2, <2>3, <2>4
<1>7. ASSUME NEW t \in Threads, Lock(t)
      PROVE  RaceInv'
  <2> DEFINE call == [calls[t] EXCEPT !.pc = "ready", !.index = deviceIndex]
  <2>1. CallOK(calls[t], server, configs, tls)
    BY <1>0, <1>7 DEF Lock, CallsInv, Idle
  <2>2. calls' = [calls EXCEPT ![t] = call] /\ configs' = configs
    BY <1>0, <1>7 DEF Lock, CallsInv
  <2>3. call.pc = "ready"
    BY <2>1 DEF CallOK, CallFields
  <2> QED BY <1>3, <2>2, <2>3
<1>8. ASSUME NEW t \in Threads, Goes(t)
      PROVE  RaceInv'
  <2>1. CallOK(calls[t], server, configs, tls)
    BY <1>8, GoesStep
  <2>2. CASE Construct(t)
    <3>1. CASE IsSecure(calls[t].url) /\ ~tls
      BY <1>5, <2>2, <3>1 DEF Construct, End
    <3>2. CASE ~(IsSecure(calls[t].url) /\ ~tls)
      <4> DEFINE call == [calls[t] EXCEPT !.pc = "filling"]
      <4>1. calls' = [calls EXCEPT ![t] = call] /\ configs' = configs
        BY <2>2, <3>2 DEF Construct
      <4>2. call.pc = "filling"
        BY <2>1 DEF CallOK, CallFields
      <4> QED BY <1>3, <4>1, <4>2
    <3> QED BY <3>1, <3>2
  <2>3. CASE FindMissing(t)
    <3>1. PICK i \in DOMAIN DefaultNames(IsSecure(calls[t].url)) :
            /\ DefaultNames(IsSecure(calls[t].url))[i] \notin DOMAIN configs[calls[t].config]
            /\ calls' = [calls EXCEPT ![t].pc = "adding",
                                      ![t].adding = DefaultNames(IsSecure(calls[t].url))[i]]
      BY <2>3 DEF FindMissing
    <3> DEFINE name == DefaultNames(IsSecure(calls[t].url))[i]
               call == [calls[t] EXCEPT !.pc = "adding", !.adding = name]
    <3>2. calls' = [calls EXCEPT ![t] = call] /\ configs' = configs
      BY <1>0, <2>3, <3>1 DEF CallsInv, FindMissing
    <3>3. call.adding = name /\ call.config = calls[t].config
      BY <2>1 DEF CallOK, CallFields
    <3> HIDE DEF call
    <3> QED BY <1>3, <3>1, <3>2, <3>3
  <2>4. CASE AddMissing(t) /\ calls[t].adding \in DOMAIN configs[calls[t].config]
    BY <1>5, <2>4 DEF AddMissing, End
  <2>5. CASE Dial(t)
    <3> DEFINE config == Effective(ConfigOf(calls[t].config), IsSecure(calls[t].url))
               met == ListenersAt(Dialed(calls[t].url))
               call == [calls[t] EXCEPT !.pc = "shaking", !.config = config, !.adding = "",
                                       !.met = met, !.host = server]
    <3>1. /\ configs' = configs
          /\ \/ calls' = [calls EXCEPT ![t] = Idle]
             \/ calls' = [calls EXCEPT ![t].pc = "shaking", ![t].config = config,
                                      ![t].adding = "", ![t].met = met, ![t].host = server]
      BY <2>5 DEF Dial, End
    <3>2. \/ calls' = [calls EXCEPT ![t] = Idle]
          \/ calls' = [calls EXCEPT ![t] = call]
      BY <1>0, <3>1 DEF CallsInv
    <3>3. call.pc = "shaking"
      BY <2>1 DEF CallOK, CallFields
    <3> HIDE DEF call
    <3> QED BY <1>3, <1>5, <3>1, <3>2, <3>3
  <2>6. CASE Answer(t)
    BY <1>5, <2>6 DEF Answer, End
  <2> QED BY <1>1, <1>8, <2>2, <2>3, <2>4, <2>5, <2>6 DEF Goes
<1> QED BY <1>4, <1>6, <1>7, <1>8 DEF Next, StartServer, StopServer, Discover, Complete,
          Elsewhere, clientVars, vars

THEOREM ConnectionInvariant == Spec => []ConnectionInv
<1>1. Init => ConnectionInv
  <2> SUFFICES ASSUME Init
               PROVE  ConnectionInv
    OBVIOUS
  <2>1. tls \in BOOLEAN /\ ServerInv
    BY ConnectionAssumption DEF Init, NoHost, ServerInv, ServerSettings
  <2>2. CapabilityInv
    BY <2>1, NoSourceOK DEF Init, CapabilityInv
  <2>3. ObjectsInv
    BY ConnectionAssumption DEF Init, ObjectsInv, Filled
  <2>4. DOMAIN calls = Threads /\ \A t \in Threads : calls[t] = Idle /\ calls[t].pc = "idle"
    BY DEF Init, Idle
  <2>5. CallsInv /\ LockInv /\ RaceInv
    BY <2>4 DEF Init, CallsInv, LockInv, RaceInv, Holding, LocalIdsUnique
  <2> QED BY <2>1, <2>2, <2>3, <2>5 DEF ConnectionInv
<1>2. ConnectionInv /\ [Next]_vars => ConnectionInv'
  <2> SUFFICES ASSUME ConnectionInv, [Next]_vars
               PROVE  ConnectionInv'
    OBVIOUS
  <2>1. ServerInv' /\ tls' = tls
    BY HostNext DEF ConnectionInv, HostStep
  <2> QED BY <2>1, CapabilityNext, ObjectsNext, CallsNext, LockNext, RaceNext DEF ConnectionInv
<1> QED BY <1>1, <1>2, PTL DEF Spec

\* The mutex and the index give devices that several threads create different local
\* identifiers, whatever the constructor of each throws.
THEOREM LocalIdsUniqueHolds == Spec => []LocalIdsUnique
BY ConnectionInvariant, PTL DEF ConnectionInv, LockInv

-----------------------------------------------------------------------------
(* How calls end.                                                          *)

Ends == /\ ChannelAsAsked /\ FailureNamesCause /\ CapabilityConnects /\ PortAsTold

LEMMA NotEnded == /\ last = Idle => Ends
                  /\ last' = Idle => Ends'
<1>1. Idle.pc = "idle"
  BY DEF Idle
<1> QED BY <1>1 DEF Ends, ChannelAsAsked, FailureNamesCause, CapabilityConnects, PortAsTold

\* Begin refuses a string that the module does not accept, which is not one of a
\* capability.
LEMMA BeginEnds ==
  ASSUME ConnectionInv, NEW t, NEW kind, NEW given, NEW c, NEW capability,
         Called(t, kind, given, c, capability)
  PROVE  Ends'
<1> DEFINE call == NewCall(kind, given, c, capability)
<1>1. CASE Accepts(given)
  <2>1. last' = Idle
    BY <1>1, BeginStep
  <2> QED BY <2>1, NotEnded
<1>2. CASE ~Accepts(given)
  <2>1. End(t, call, "InvalidParameter")
    BY <1>2, BeginStep
  <2>2. call.met = {} /\ call.ask.capability = capability
    BY DEF NewCall
  <2> HIDE DEF call
  <2>3. /\ last'.pc = "ended" /\ last'.outcome = "InvalidParameter" /\ last'.met = {}
        /\ last'.ask.capability = capability
    BY <2>1, <2>2 DEF End
  <2>4. ~capability.exact
    BY <1>2 DEF Called, CapabilityOK, Accepts, Prefixes, IsSecure
  <2> QED BY <2>3, <2>4 DEF Ends, ChannelAsAsked, FailureNamesCause, CapabilityConnects, PortAsTold
<1> QED BY <1>1, <1>2

\* The port and the channel of a call that ends are those that it was told.
LEMMA PortEnds ==
  ASSUME ConnectionInv, NEW t \in Threads, CallOK(calls[t], server, configs, tls),
         NEW outcome, End(t, calls[t], outcome), UNCHANGED <<server, configs>>,
         \A l \in calls[t].met : l.port = calls[t].port
  PROVE  PortAsTold'
<1> DEFINE call == calls[t]
           ask == call.ask
           secure == IsSecure(call.url)
           c == ask.config
           set == c # NoConfig /\ "Port" \in DOMAIN Given[c]
           filled == /\ c # NoConfig /\ ~set
                     /\ "Port" \in DOMAIN configs[c]
                     /\ configs[c].Port # DefaultPort(secure)
           told == IF ask.url.port # NoPort /\ Port16(ask.url.port) # 0
                   THEN Port16(ask.url.port)
                   ELSE IF set /\ Port16(Given[c].Port) # 0
                   THEN Port16(Given[c].Port)
                   ELSE DefaultPort(secure)
<1>1. /\ last'.pc = "ended" /\ last'.met = call.met /\ last'.ask = ask
      /\ last'.secure = secure /\ last'.port = call.port
  BY DEF End
<1>2. told = PortTold(ask.url, GivenOf(c), secure)
  BY DEF PortTold, GivenOf, NoProperties
<1>3. FilledByOther(c, secure, configs) => filled
  BY ConnectionAssumption DEF FilledByOther
<1>4. filled \/ call.port = told
  BY <1>2, <1>3 DEF CallOK
<1> HIDE DEF filled, told
<1>5. (\A l \in call.met : l.port = call.port) /\ (filled \/ call.port = told)
  BY <1>4
<1> QED BY <1>1, <1>5 DEF PortAsTold, filled, told

\* Of a call that ends, what End keeps for the properties.
LEMMA EndedAs ==
  ASSUME NEW t, NEW outcome, End(t, calls[t], outcome)
  PROVE  /\ last'.pc = "ended" /\ last'.outcome = outcome /\ last'.met = calls[t].met
         /\ last'.ask = calls[t].ask /\ last'.secure = IsSecure(calls[t].url)
         /\ last'.port = calls[t].port /\ last'.host = calls[t].host
         /\ last'.kinds = calls[t].raced \cup {calls[t].kind}
BY DEF End

\* A call that throws before it dials: the parameters are at fault.
LEMMA RefusedEnds ==
  ASSUME ConnectionInv, NEW t \in Threads, CallOK(calls[t], server, configs, tls),
         calls[t].met = {}, End(t, calls[t], "InvalidParameter"), UNCHANGED <<server, configs>>,
         IsSecure(calls[t].url),
         \/ ~tls
         \/ calls[t].pc = "filling" /\ BadSecrets(Effective(ConfigOf(calls[t].config), TRUE))
  PROVE  Ends'
<1> DEFINE call == calls[t]
           config == Effective(ConfigOf(call.config), TRUE)
           capability == call.ask.capability
<1>1. /\ last'.pc = "ended" /\ last'.outcome = "InvalidParameter" /\ last'.met = {}
      /\ last'.ask = call.ask /\ last'.secure = TRUE
  BY EndedAs DEF IsSecure
<1>2. ASSUME capability.exact, NEW mtls, Suits(call.ask.config, mtls)
      PROVE  FALSE
  <2>1. tls
    BY <1>2 DEF CallOK, CapabilityOK
  <2>2. SameSettings(config, Effective(GivenOf(call.ask.config), TRUE))
    BY <2>1, SettingsOf
  <2>3. ~BadSecrets(Effective(GivenOf(call.ask.config), TRUE))
    BY <1>2 DEF Suits, GivenOf
  <2>4. ~BadSecrets(config)
    BY <2>2, <2>3 DEF BadSecrets, SameSettings, TlsSettings
  <2> QED BY <2>1, <2>4
<1>3. CapabilityConnects'
  BY <1>1, <1>2 DEF CapabilityConnects
<1> QED BY <1>1, <1>3 DEF Ends, ChannelAsAsked, FailureNamesCause, PortAsTold

LEMMA ConstructEnds ==
  ASSUME ConnectionInv, NEW t \in Threads, Construct(t)
  PROVE  Ends'
<1>1. /\ CallOK(calls[t], server, configs, tls) /\ calls[t].met = {}
      /\ UNCHANGED <<server, configs>>
  BY GoesStep DEF Goes, Construct, CallOK
<1>2. CASE IsSecure(calls[t].url) /\ ~tls
  BY <1>1, <1>2, RefusedEnds DEF Construct
<1>3. CASE ~(IsSecure(calls[t].url) /\ ~tls)
  BY <1>3, NotEnded DEF Construct
<1> QED BY <1>2, <1>3

\* addProperty() throws only for a call that fills an object along with another.
LEMMA AddMissingEnds ==
  ASSUME ConnectionInv, NEW t \in Threads, AddMissing(t)
  PROVE  Ends'
<1> DEFINE call == calls[t]
<1>1. /\ CallOK(call, server, configs, tls) /\ call.pc = "adding" /\ call.met = {}
      /\ call.ask.config # NoConfig
  BY GoesStep, ConnectionAssumption DEF Goes, AddMissing, CallOK
<1>2. CASE call.adding \notin DOMAIN configs[call.config]
  BY <1>2, NotEnded DEF AddMissing
<1>3. CASE call.adding \in DOMAIN configs[call.config]
  <2>1. End(t, call, "AlreadyExists") /\ UNCHANGED <<server, configs>>
    BY <1>3 DEF AddMissing
  <2>2. /\ last'.pc = "ended" /\ last'.outcome = "AlreadyExists" /\ last'.met = {}
        /\ last'.ask = call.ask /\ last'.kinds = call.raced \cup {call.kind}
    BY <1>1, <2>1, EndedAs
  <2>3. "streaming" \in last'.kinds
    BY <1>1, <1>3, <2>2 DEF ConnectionInv, RaceInv
  <2>4. PortAsTold'
    BY <1>1, <2>1, PortEnds
  <2> QED BY <1>1, <2>2, <2>3, <2>4 DEF Ends, ChannelAsAsked, FailureNamesCause, CapabilityConnects
<1> QED BY <1>2, <1>3

\* Nobody listens where the call dials, which is not where a server announced itself
\* that still runs.
LEMMA DialEnds ==
  ASSUME ConnectionInv, NEW t \in Threads, Dial(t)
  PROVE  Ends'
<1> DEFINE call == calls[t]
           secure == IsSecure(call.url)
           config == Effective(ConfigOf(call.config), secure)
           met == ListenersAt(Dialed(call.url))
           capability == call.ask.capability
<1>1. /\ CallOK(call, server, configs, tls) /\ call.pc = "filling" /\ call.met = {}
      /\ UNCHANGED <<server, configs>> /\ ServerInv
  BY GoesStep DEF Goes, Dial, CallOK, ConnectionInv
<1>2. CASE secure /\ BadSecrets(config)
  <2>1. End(t, call, "InvalidParameter") /\ config = Effective(ConfigOf(call.config), TRUE)
    BY <1>2 DEF Dial, IsSecure
  <2> QED BY <1>1, <1>2, <2>1, RefusedEnds
<1>3. CASE ~(secure /\ BadSecrets(config)) /\ met = {}
  <2>1. End(t, call, "NotFound")
    BY <1>3 DEF Dial, Outcome, IsTlsRejection
  <2>2. /\ last'.pc = "ended" /\ last'.outcome = "NotFound" /\ last'.met = {}
        /\ last'.ask = call.ask
    BY <1>1, <2>1, EndedAs
  <2>3. ~( /\ capability.exact /\ capability.url.port # 0
           /\ server.up /\ server.starts = capability.start)
    BY <1>1, <1>3, AnnouncedListens DEF ListenersAt
  <2>4. CapabilityConnects'
    BY <1>1, <2>2, <2>3 DEF CapabilityConnects
  <2>5. PortAsTold'
    BY <1>1, <2>1, PortEnds
  <2> QED BY <2>2, <2>4, <2>5 DEF Ends, ChannelAsAsked, FailureNamesCause
<1>4. CASE ~(secure /\ BadSecrets(config)) /\ met # {}
  BY <1>4, NotEnded DEF Dial
<1> QED BY <1>2, <1>3, <1>4

\* What is known when the attempt of a call is answered.
LEMMA AnswerEnds ==
  ASSUME ConnectionInv, NEW t \in Threads, Answer(t)
  PROVE  Ends'
<1> DEFINE call == calls[t]
           ask == call.ask
           secure == IsSecure(call.url)
           met == call.met
           config == call.host.config
<1>0. /\ CallOK(call, server, configs, tls) /\ call.pc = "shaking" /\ Shaking(call, server)
      /\ UNCHANGED <<server, configs>> /\ ServerInv /\ secure \in BOOLEAN
  BY GoesStep DEF Goes, Answer, CallOK, ConnectionInv, IsSecure
<1>1. PICK code \in Codes(call) : End(t, call, Outcome(secure, code))
  BY DEF Answer
<1>2. /\ last'.pc = "ended" /\ last'.outcome = Outcome(secure, code) /\ last'.met = met
      /\ last'.ask = ask /\ last'.secure = secure /\ last'.host = call.host
  BY <1>1, EndedAs
<1>3. /\ met # {}
      /\ \A l \in met :
           /\ l \in Listeners(config) /\ l.port = Dialed(call.url)
           /\ code \in {"ok", "ssl", "closed", "protocol"}
           /\ code = "ok" => l.secure = secure
           /\ code = "ssl" => secure
           /\ code \in {"closed", "protocol"} /\ ~secure => l.secure # secure \/ Gone(call.host)
           /\ code = "protocol" => ~secure \/ Gone(call.host)
  <2>1. met # {} /\ \A l \in met : l \in Listeners(config) /\ l.port = Dialed(call.url)
    BY <1>0 DEF Shaking, ListenersOn
  <2> QED BY <1>0, <2>1, HandshakeMeets
<1>4. secure = IsSecure(ask.url) /\ call.port = Dialed(call.url)
  BY <1>0 DEF CallOK
<1>5. Outcome(secure, code) \in {"Connected", "AuthenticationFailed", "NotFound"}
      /\ (Outcome(secure, code) = "Connected" <=> code = "ok")
      /\ (Outcome(secure, code) = "AuthenticationFailed"
            <=> code = "ssl" \/ (secure /\ code = "closed"))
  BY DEF Outcome, IsTlsRejection
<1>6. ChannelAsAsked'
  <2>1. \A l \in met : config.TlsPort # 0 =>
          (ClientProtocol(config, l.port) = "LTS") = l.secure
    BY <1>0, <1>3, ListenerProtocol DEF Shaking
  <2> QED BY <1>2, <1>3, <1>4, <1>5, <2>1 DEF ChannelAsAsked, IsSecure
<1>7. FailureNamesCause'
  <2>1. (Gone(last.host))' <=> Gone(call.host)
    BY <1>0, <1>2 DEF Gone
  <2> QED BY <1>2, <1>3, <1>5, <2>1 DEF FailureNamesCause
<1>8. CapabilityConnects'
  <2> DEFINE capability == ask.capability
  <2> SUFFICES ASSUME capability.exact, capability.url.port # 0,
                      server.up, server.starts = capability.start,
                      secure => Suits(ask.config, server.config.EnableMtls)
               PROVE  code = "ok"
    BY <1>0, <1>2, <1>5 DEF CapabilityConnects
  <2>1. ~Gone(call.host) /\ server.config = config
    BY <1>0 DEF Shaking, Gone, CallOK, CapabilityOK
  <2>2. PICK l \in Listeners(server.config) : l.secure = secure /\ l.port = Dialed(call.url)
    BY <1>0, AnnouncedListens
  <2>3. l \in met
    BY <1>0, <2>1, <2>2 DEF Shaking, ListenersOn
  <2>4. secure => /\ call.config.Verify => call.config.Ca = "ca"
                  /\ config.EnableMtls =>
                       /\ call.config.Verify /\ call.config.EnableMtls
                       /\ call.config.Secrets = "client"
    <3>1. secure => SameSettings(call.config, Effective(GivenOf(ask.config), TRUE))
      BY <1>0 DEF Shaking
    <3> QED BY <2>1, <3>1 DEF SameSettings, TlsSettings, Suits, GivenOf
  <2>5. Codes(call) = {"ok"}
    BY <1>0, <2>1, <2>2, <2>3, <2>4, HandshakeSucceeds
  <2> QED BY <1>1, <2>5
<1>9. PortAsTold'
  BY <1>0, <1>1, <1>3, <1>4, PortEnds
<1> QED BY <1>6, <1>7, <1>8, <1>9 DEF Ends

\* Every call ends as the four properties say: on the channel and the port that were
\* asked for, at the server that announced them, or with the exception that names the
\* cause.
LEMMA EndsAlways == Spec => []Ends
<1>1. Init => Ends
  BY NotEnded DEF Init
<1>2. ConnectionInv /\ Ends /\ [Next]_vars => Ends'
  <2> SUFFICES ASSUME ConnectionInv, Ends, [Next]_vars
               PROVE  Ends'
    OBVIOUS
  <2>1. CASE Call
    BY <2>1, CallBegins, BeginEnds
  <2>2. ASSUME NEW t \in Threads, Construct(t)
        PROVE  Ends'
    BY <2>2, ConstructEnds
  <2>3. ASSUME NEW t \in Threads, AddMissing(t) \/ Dial(t) \/ Answer(t)
        PROVE  Ends'
    BY <2>3, AddMissingEnds, DialEnds, AnswerEnds
  <2>4. CASE last' = Idle
    BY <2>4, NotEnded
  <2>5. CASE UNCHANGED vars
    BY <2>5 DEF vars, clientVars, Ends, ChannelAsAsked, FailureNamesCause, Gone,
                CapabilityConnects, PortAsTold
  <2> QED BY <2>1, <2>2, <2>3, <2>4, <2>5 DEF Next, StartServer, StopServer, Discover, Complete,
            Elsewhere, Lock, Goes, FindMissing
<1> QED BY <1>1, <1>2, ConnectionInvariant, PTL DEF Spec

\* A connection is on the channel that was asked for, at a listener that the server
\* lists under that channel's protocol.
THEOREM ChannelAsAskedHolds == Spec => []ChannelAsAsked
BY EndsAlways, PTL DEF Ends

\* The exception names the cause, for every configuration of a server that starts,
\* which may stop while it shakes hands, and whatever calls fill an object together.
THEOREM FailureNamesCauseHolds == Spec => []FailureNamesCause
BY EndsAlways, PTL DEF Ends

\* What was announced can be connected to as long as the server that announced it
\* runs, unless another call fills the same configuration object meanwhile.
THEOREM CapabilityConnectsHolds == Spec => []CapabilityConnects
BY EndsAlways, PTL DEF Ends

\* The port that is reported is dialed, and is the one that the string, the object or
\* the channel names, whatever other threads add to the object meanwhile.
THEOREM PortAsToldHolds == Spec => []PortAsTold
BY EndsAlways, PTL DEF Ends
=============================================================================
