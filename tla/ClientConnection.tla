-------------------------- MODULE ClientConnection --------------------------
(***************************************************************************)
(* How the client module (websocket_streaming_client_module_impl.cpp) gets *)
(* a connection: from a connection string or a discovered or completed     *)
(* capability, and a configuration, through onCreateDevice() or            *)
(* onCreateStreaming() and the constructor of WsStreaming, to a listener   *)
(* of a server, or to one of the exceptions that the caller sees.          *)
(*                                                                         *)
(* Application threads create devices and streamings at the same time, and *)
(* may pass the same configuration object, to which the constructor adds   *)
(* the properties it lacks, one by one and without a lock.  The server of  *)
(* the one host starts and stops, also while a connection attempt that it  *)
(* has accepted goes through its handshakes.                               *)
(* Addresses, paths and the parsing of a string are left out.              *)
(***************************************************************************)
EXTENDS ServerConfiguration, Sequences

CONSTANTS
  Threads,        \* application threads
  Nobody,         \* no thread
  TlsBuilds,      \* values of DAQMODULES_LT_STREAMING_ENABLE_TLS
  Options,        \* the module options "StreamingLtServer"
  ServerConfigs,  \* configurations servers are created with
  Asks,           \* calls with a string: [kind, url: [prefix, port], config]
  NoPort,         \* of a connection string without one
  Configs,        \* configuration objects of the application
  NoConfig,       \* none is passed
  TlsConfigs,     \* what is passed along with a capability
  Given,          \* the properties that the application gives each object
  MaxCalls,       \* calls of onCreateDevice and onCreateStreaming
  MaxStarts       \* servers started on the host

Kinds == {"device", "streaming"}   \* onCreateDevice, onCreateStreaming

ASSUME ConnectionAssumption ==
  /\ Nobody \notin Threads /\ NoConfig \notin Configs /\ NoPort \notin Int
  /\ TlsBuilds \subseteq BOOLEAN
  /\ TlsConfigs \subseteq Configs \cup {NoConfig}
  /\ \A a \in Asks : /\ a.kind \in Kinds /\ a.config \in Configs \cup {NoConfig}
                    /\ a.url.port \in Nat \cup {NoPort}
  /\ DOMAIN Given = Configs
  /\ \A c \in Configs : "Port" \in DOMAIN Given[c] => Given[c].Port \in Int
  /\ MaxCalls \in Nat /\ MaxStarts \in Nat

\* The properties for ports of a server take no other values.
ASSUME ServerAssumption ==
  \A given \in ServerConfigs :
    LET s == Populated(given, Options)
    IN s.Port \in Ports /\ s.TlsPort \in Ports

VARIABLES
  tls,          \* the build of the client module
  server,       \* [up, starts, config] of the host
  found,        \* the capability with an address found last: [url, exact, start]
  configs,      \* the configuration objects, as they are now
  sync,         \* holder of the mutex of the module
  deviceIndex,
  calls,        \* [pc, kind, url, port, config, index, adding, raced, met, host, ask]
  last,         \* how a call ended, in the step in which it returns
  devices,      \* local identifiers of the devices that were created
  begun         \* number of calls so far

clientVars == <<configs, sync, deviceIndex, calls, devices, begun>>
vars == <<tls, server, found, last, clientVars>>

Idle == [pc |-> "idle"]

\* No server has been met.
NoHost == [up |-> FALSE, starts |-> 0, config |-> DefaultServer]

\* A source of another protocol.
NoSource == [url |-> [prefix |-> "nd", port |-> 0], exact |-> FALSE, start |-> 0]

Init ==
  /\ tls \in TlsBuilds
  /\ server = NoHost
  /\ found = NoSource /\ configs = Given
  /\ sync = Nobody /\ deviceIndex = 0
  /\ calls = [t \in Threads |-> Idle] /\ last = Idle
  /\ devices = <<>> /\ begun = 0

-----------------------------------------------------------------------------
(* The server of the host, and what the client learns of it.               *)

Elsewhere == last' = Idle /\ UNCHANGED clientVars

StartServer(given) ==
  LET config == Populated(given, Options)
  IN /\ ~server.up /\ server.starts < MaxStarts
     /\ server' = IF Refused(config) THEN server
                  ELSE [up |-> TRUE, starts |-> server.starts + 1, config |-> config]
     /\ Elsewhere
     /\ UNCHANGED <<tls, found>>

StopServer ==
  /\ server.up
  /\ server' = [server EXCEPT !.up = FALSE, !.config = DefaultServer]
  /\ Elsewhere
  /\ UNCHANGED <<tls, found>>

DefaultPort(secure) == IF secure THEN WssPort ELSE WsPort

\* createUrlConnectionString()
Url(secure, port) == [prefix |-> IF secure THEN "lts" ELSE "lt", port |-> port]

\* isSupportedServiceName(): a build without TLS ignores secure services.
Supported(service) == service \in {"lt", "ws"} \/ (tls /\ service = "lts")

\* onGetAvailableDevices() and populateDiscoveredDevice().  Bound: nobody looks for
\* servers, completes capabilities or keeps what was found once no call is left to
\* use it.
Discover ==
  /\ server.up /\ begun < MaxCalls
  /\ \E d \in DiscoveryConfigs(server.config) :
       /\ Supported(d.service)
       /\ found' = [url |-> Url(d.service = "lts", d.port), exact |-> TRUE,
                    start |-> server.starts]
  /\ Elsewhere
  /\ UNCHANGED <<tls, server>>

\* onCompleteServerCapability(): the target, a capability that the device lists,
\* gets the address of the source.  The source is a capability found before, of
\* the same prefix or not, or one of another protocol (NoSource); a target that
\* misses its port, which no capability of this server does, gets the default.
CompletedUrl_Default(source, target) == \* ignores the port of the target
  Url(target.protocol = "LTS", DefaultPort(target.protocol = "LTS"))
CompletedUrl(source, target) ==
  LET secure == target.protocol = "LTS"
      port == IF target.port = NoPort THEN DefaultPort(secure) ELSE target.port
  IN IF source.url.prefix = Url(secure, port).prefix THEN source.url ELSE Url(secure, port)

Complete(source, target, missing) ==
  /\ server.up /\ begun < MaxCalls
  /\ target.protocol = "LTS" => tls
  /\ LET capability == IF missing THEN [target EXCEPT !.port = NoPort] ELSE target
         url == CompletedUrl(source, capability)
         copied == source.url.prefix = url.prefix
     IN found' = [url |-> url,
                  exact |-> IF copied THEN source.exact ELSE ~missing,
                  start |-> IF copied THEN source.start ELSE server.starts]
  /\ Elsewhere
  /\ UNCHANGED <<tls, server>>

-----------------------------------------------------------------------------
(* From the connection string and the configuration to the address.        *)

\* formNewStyleConnectionString()
NewStyle(url) ==
  [prefix |-> IF url.prefix = "ws" THEN "lt" ELSE url.prefix, port |-> url.port]

IsSecure(url) == url.prefix = "lts"

\* The prefixes of the device types; the secure type needs a build with TLS.
Prefixes == {"ws", "lt"} \cup (IF tls THEN {"lts"} ELSE {})

\* acceptsConnectionParameters(): a prefix of onGetAvailableDeviceTypes()
Accepts(url) == url.prefix \in Prefixes

\* createDefaultConfig() and createDefaultSecureConfig() of WsStreaming
DefaultConfig(secure) ==
  IF secure
  THEN [Port |-> WssPort, Verify |-> TRUE, EnableMtls |-> TRUE, Secrets |-> "", Ca |-> ""]
  ELSE [Port |-> WsPort]

\* Ports are kept in 16 bits (ConnectionParameters).
Port16(port) == port % 65536

\* formConnectionString(): the string, whose port is printed or not, and the
\* port that the parameters report.
PrintsPort_Plain(url, fromConfig, configured) == \* one default for both channels
  url.port # NoPort \/ (fromConfig /\ configured # WsPort)
PrintsPort(url, fromConfig, configured) ==
  url.port # NoPort \/ (fromConfig /\ configured # DefaultPort(IsSecure(url)))

Formed(given, config) ==
  LET url == NewStyle(given)
      port == IF url.port = NoPort THEN 0 ELSE Port16(url.port)
      fromConfig == port = 0 /\ "Port" \in DOMAIN config
      chosen == IF fromConfig THEN Port16(config.Port) ELSE port
      used == IF chosen = 0 THEN DefaultPort(IsSecure(url)) ELSE chosen
      printed == IF PrintsPort(url, fromConfig, chosen) THEN used ELSE NoPort
  IN [url |-> [prefix |-> url.prefix, port |-> printed], port |-> used]

\* The port that the ws-streaming library dials: without one, its own default,
\* taken to be that of constants.h.
Dialed(url) == IF url.port = NoPort THEN DefaultPort(IsSecure(url)) ELSE url.port

\* populateConfigFromDefault()
Effective(config, secure) == Over(config, DefaultConfig(secure))

\* The constructor cannot set TLS up: InvalidParameterException.
BadSecrets(config) ==
  /\ config.Verify
  /\ \/ config.EnableMtls /\ config.Secrets \in {"", "bad"}
     \/ config.Ca \in {"", "bad"}

-----------------------------------------------------------------------------
(* The connection attempt: Boost.Asio, TLS and the listeners of the server.*)

ListenersAt(port) ==
  {l \in Listeners(server.config) : server.up /\ l.port = port}

\* The error codes that an attempt may end with once it has met a listener of a
\* server; "ssl" is the category of TLS, "closed" any of the codes that
\* isTlsRejection lists.
Handshake(secure, config, listener, host) ==
  CASE ~secure /\ ~listener.secure -> {"ok"}
    [] ~secure /\ listener.secure -> {"closed", "protocol"}
    [] secure /\ ~listener.secure -> {"ssl", "closed"}
    [] OTHER ->
       IF config.Verify /\ config.Ca # "ca" THEN {"ssl"}
       ELSE IF host.EnableMtls
               /\ ~(config.Verify /\ config.EnableMtls /\ config.Secrets = "client")
       THEN {"ssl", "closed"}
       ELSE {"ok"}

\* The server that was met does not run any more.
Gone(host) == ~server.up \/ server.starts # host.starts

\* A server that stops closes the connections that it is shaking hands on; the
\* answer may have been on its way.
Codes(call) ==
  (UNION {Handshake(IsSecure(call.url), call.config, l, call.host.config) : l \in call.met})
  \cup (IF Gone(call.host) THEN {"closed", "protocol"} ELSE {})

\* isTlsRejection()
IsTlsRejection_Any(secure, code) == code = "closed" \* of a plain channel, too
IsTlsRejection(secure, code) == secure /\ code = "closed"

\* The exception that the constructor throws for an error code.
Outcome(secure, code) ==
  CASE code = "ok" -> "Connected"
    [] code = "ssl" \/ IsTlsRejection(secure, code) -> "AuthenticationFailed"
    [] OTHER -> "NotFound"

-----------------------------------------------------------------------------
(* onCreateDevice and onCreateStreaming.                                   *)

NoProperties == [name \in {} |-> 0]
ConfigOf(c) == IF c = NoConfig THEN NoProperties ELSE configs[c]

\* What the caller passed (ask), what kinds of calls added the property that this
\* one was about to add (raced) and the server that was met (met, host) are kept
\* for the properties.
End(t, call, outcome) ==
  /\ calls' = [calls EXCEPT ![t] = Idle]
  /\ last' = [pc |-> "ended", ask |-> call.ask, outcome |-> outcome,
              secure |-> IsSecure(call.url), port |-> call.port, met |-> call.met,
              host |-> call.host, kinds |-> call.raced \cup {call.kind}]

\* The checks before the mutex, and the connection string.
Begin(t, kind, given, c, capability) ==
  LET defaults == DefaultConfig(IsSecure(NewStyle(given)))
      streaming == IF c = NoConfig THEN defaults ELSE configs[c]
      formed == Formed(given, IF kind = "device" THEN ConfigOf(c) ELSE streaming)
      call == [pc |-> IF kind = "device" THEN "waiting" ELSE "ready",
               kind |-> kind, url |-> formed.url, port |-> formed.port,
               config |-> c, index |-> 0, adding |-> "", raced |-> {},
               met |-> {}, host |-> NoHost,
               ask |-> [url |-> given, config |-> c, capability |-> capability]]
  IN /\ calls[t].pc = "idle" /\ begun < MaxCalls
     /\ begun' = begun + 1
     /\ IF ~Accepts(given)
        THEN End(t, call, "InvalidParameter")
        ELSE calls' = [calls EXCEPT ![t] = call] /\ last' = Idle
     /\ found' = IF begun' = MaxCalls THEN NoSource ELSE found
     /\ UNCHANGED <<tls, server, configs, sync, deviceIndex, devices>>

\* std::scoped_lock, and the local identifier of the device
Free_Always(t) == TRUE \* without the lock
Free(t) == sync = Nobody
Lock(t) ==
  /\ calls[t].pc = "waiting" /\ Free(t)
  /\ sync' = t
  /\ calls' = [calls EXCEPT ![t].pc = "ready", ![t].index = deviceIndex]
  /\ last' = Idle
  /\ UNCHANGED <<tls, server, found, configs, deviceIndex, devices, begun>>

Unlock_Met(t) == \* an exception before the attempt leaves the mutex locked
  sync' = IF sync = t /\ calls[t].pc = "shaking" THEN Nobody ELSE sync
Unlock(t) == sync' = IF sync = t THEN Nobody ELSE sync

\* The index moves on whatever the constructor does.
NextIndex(t) ==
  deviceIndex' = IF calls[t].kind = "device" THEN calls[t].index + 1 ELSE deviceIndex

\* The constructor of WsStreaming begins.
Construct(t) ==
  LET call == calls[t]
  IN /\ call.pc = "ready"
     /\ NextIndex(t)
     /\ IF IsSecure(call.url) /\ ~tls
        THEN Unlock(t) /\ End(t, call, "InvalidParameter")
        ELSE /\ calls' = [calls EXCEPT ![t].pc = "filling"]
             /\ last' = Idle
             /\ UNCHANGED sync
     /\ UNCHANGED <<tls, server, found, configs, devices, begun>>

\* populateConfigFromDefault() goes through the defaults in their order.
DefaultNames(secure) ==
  IF secure THEN <<"Port", "Verify", "EnableMtls", "Secrets", "Ca">> ELSE <<"Port">>

\* hasProperty(): the next property that the object lacks.  (What it has it keeps,
\* so the ones before may be taken to be asked for at the same time.)
FindMissing(t) ==
  LET call == calls[t]
      names == DefaultNames(IsSecure(call.url))
  IN /\ call.pc = "filling" /\ call.config # NoConfig
     /\ \E i \in DOMAIN names :
          /\ names[i] \notin DOMAIN configs[call.config]
          /\ \A k \in 1 .. i - 1 : names[k] \in DOMAIN configs[call.config]
          /\ calls' = [calls EXCEPT ![t].pc = "adding", ![t].adding = names[i]]
     /\ last' = Idle
     /\ UNCHANGED <<tls, server, found, configs, sync, deviceIndex, devices, begun>>

\* addProperty() and setPropertyValue(): the object has the property with its default,
\* unless another call has added it since; then addProperty() throws.
AddMissing(t) ==
  LET call == calls[t]
      c == call.config
      added == [name \in {call.adding} |-> DefaultConfig(IsSecure(call.url))[name]]
  IN /\ call.pc = "adding"
     /\ IF call.adding \in DOMAIN configs[c]
        THEN /\ Unlock(t) /\ End(t, call, "AlreadyExists")
             /\ UNCHANGED configs
        ELSE /\ configs' = [configs EXCEPT ![c] = Over(@, added)]
             /\ calls' = [u \in Threads |->
                  CASE u = t -> [call EXCEPT !.pc = "filling"]
                    [] u # t /\ calls[u].pc = "adding" /\ calls[u].config = c
                         /\ calls[u].adding = call.adding ->
                         [calls[u] EXCEPT !.raced = @ \cup {call.kind}]
                    [] OTHER -> calls[u]]
             /\ last' = Idle
             /\ UNCHANGED sync
     /\ UNCHANGED <<tls, server, found, deviceIndex, devices, begun>>

\* The object is complete: TLS is set up and the attempt started, which meets a
\* listener or nobody.
Dial(t) ==
  LET call == calls[t]
      secure == IsSecure(call.url)
      config == Effective(ConfigOf(call.config), secure)
      met == ListenersAt(Dialed(call.url))
  IN /\ call.pc = "filling"
     /\ call.config # NoConfig => DOMAIN DefaultConfig(secure) \subseteq DOMAIN configs[call.config]
     /\ IF secure /\ BadSecrets(config)
        THEN Unlock(t) /\ End(t, call, "InvalidParameter")
        ELSE IF met = {}
        THEN Unlock(t) /\ End(t, call, Outcome(secure, "refused"))
        ELSE /\ calls' = [calls EXCEPT ![t].pc = "shaking", ![t].config = config,
                                      ![t].adding = "", ![t].met = met, ![t].host = server]
             /\ last' = Idle
             /\ UNCHANGED sync
     /\ UNCHANGED <<tls, server, found, configs, deviceIndex, devices, begun>>

\* The promise is set.  A device that was created gets its connection info.
Answer(t) ==
  LET call == calls[t]
  IN /\ call.pc = "shaking"
     /\ Unlock(t)
     /\ \E code \in Codes(call) :
          /\ End(t, call, Outcome(IsSecure(call.url), code))
          /\ devices' = IF code = "ok" /\ call.kind = "device"
                        THEN Append(devices, call.index) ELSE devices
     /\ UNCHANGED <<tls, server, found, configs, deviceIndex, begun>>

\* What a call does once it has the mutex or does not need it.
Goes(t) ==
  \/ Construct(t) \/ FindMissing(t) \/ AddMissing(t) \/ Dial(t) \/ Answer(t)

Call ==
  \E t \in Threads :
    \/ \E a \in Asks : Begin(t, a.kind, a.url, a.config, NoSource)
    \/ \E kind \in Kinds, c \in TlsConfigs :
         found # NoSource /\ Begin(t, kind, found.url, c, found)

Next ==
  \/ \E given \in ServerConfigs : StartServer(given)
  \/ StopServer
  \/ Discover
  \/ \E source \in {found, NoSource}, target \in Capabilities(server.config),
       missing \in BOOLEAN : Complete(source, target, missing)
  \/ Call
  \/ \E t \in Threads : Lock(t) \/ Goes(t)

\* The mutex is given to a thread that waits once it stays free, the module runs
\* on, and every connection attempt is answered by the network.
Spec ==
  /\ Init /\ [][Next]_vars
  /\ \A t \in Threads : WF_vars(Lock(t)) /\ WF_vars(Goes(t))

-----------------------------------------------------------------------------
(* Properties.                                                             *)

\* What a caller asked for is what it gets: a daq.lts:// string, written by the
\* application or made by the module, never ends on a plain channel, a plain one
\* never on TLS, and the server lists the client with the protocol of the channel
\* (onClientConnected tells it by the port alone, so a TLS port of 0 is left out).
ChannelAsAsked ==
  last.pc = "ended" /\ last.outcome = "Connected" =>
    LET config == last.host.config
    IN /\ last.secure = (last.ask.url.prefix = "lts")
       /\ \A l \in last.met :
            /\ l.secure = last.secure
            /\ config.TlsPort # 0 =>
                 (ClientProtocol(config, l.port) = "LTS") = last.secure

\* Devices that two threads create have different local identifiers.
LocalIdsUnique ==
  \A i, j \in DOMAIN devices : i # j => devices[i] # devices[j]

\* The exception names the cause: AuthenticationFailed only of a secure attempt
\* that met a listener; NotFound only when none was met that speaks the channel
\* asked for, or the server that was met has stopped; InvalidParameter and
\* AlreadyExists only before anything was dialed, and AlreadyExists only when another
\* call was filling the same object and one of the two creates a streaming: calls
\* that create devices fill an object one after the other.
FailureNamesCause ==
  last.pc = "ended" =>
    CASE last.outcome = "AuthenticationFailed" -> last.secure /\ last.met # {}
      [] last.outcome = "NotFound" ->
           (\A l \in last.met : l.secure # last.secure) \/ Gone(last.host)
      [] last.outcome = "InvalidParameter" -> last.met = {}
      [] last.outcome = "AlreadyExists" -> last.met = {} /\ "streaming" \in last.kinds
      [] OTHER -> last.met # {}

\* The TLS settings of an object, or of none, satisfy a server.
Suits(c, mtls) ==
  LET config == Effective(IF c = NoConfig THEN NoProperties ELSE Given[c], TRUE)
  IN /\ ~BadSecrets(config)
     /\ config.Verify => config.Ca = "ca"
     /\ mtls => config.Verify /\ config.EnableMtls /\ config.Secrets = "client"

\* A capability leads to the server that announced it: if that server has not
\* stopped, a device or a streaming created from what was discovered or completed
\* connects, given the secrets its channel needs, unless another call was filling the
\* same configuration object.  (A server on port 0 announces port 0.)
CapabilityConnects ==
  last.pc = "ended" =>
    LET end == last
        capability == end.ask.capability
    IN /\ capability.exact /\ capability.url.port # 0
       /\ server.up /\ server.starts = capability.start
       /\ end.secure => Suits(end.ask.config, server.config.EnableMtls)
       => \/ end.outcome = "Connected"
          \/ end.outcome = "AlreadyExists" /\ end.ask.config # NoConfig

\* The port that is reported, and dialed although the formed string need not
\* contain it, is the one in the string, else the one the application configured,
\* else the default of the channel, a port whose 16 bits are 0 counting as none.
\* An object that a call for the other channel has filled with its default is left
\* out.
PortAsTold ==
  last.pc = "ended" /\ last.outcome # "InvalidParameter" =>
    LET url == last.ask.url
        c == last.ask.config
        set == c # NoConfig /\ "Port" \in DOMAIN Given[c]
        filled == /\ c # NoConfig /\ ~set
                  /\ "Port" \in DOMAIN configs[c]
                  /\ configs[c].Port # DefaultPort(last.secure)
    IN /\ \A l \in last.met : l.port = last.port
       /\ filled \/ last.port = IF url.port # NoPort /\ Port16(url.port) # 0
                               THEN Port16(url.port)
                               ELSE IF set /\ Port16(Given[c].Port) # 0
                               THEN Port16(Given[c].Port)
                               ELSE DefaultPort(last.secure)

\* Every call returns, with a connection or an exception, however many threads
\* wait for the mutex and whatever the calls before did with it.
CallsReturn == \A t \in Threads : calls[t].pc # "idle" ~> calls[t].pc = "idle"
=============================================================================
