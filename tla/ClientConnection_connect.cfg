SPECIFICATION Spec
CONSTANTS
  WsPort = 14
  WssPort = 15
  ControlPort = 38
  AnyPort <- PickedPorts
  t1 = t1
  t2 = t2
  other = other
  mutual = mutual
  unverified = unverified
  Threads = {t1, t2}
  Nobody = Nobody
  TlsBuilds = {TRUE, FALSE}
  Options <- ModuleOptions
  ServerConfigs <- Servers
  Asks <- AsksOf
  NoPort = NoPort
  Configs = {other, mutual, unverified}
  NoConfig = NoConfig
  TlsConfigs = {NoConfig, mutual}
  Given <- GivenOf
  MaxCalls = 2
  MaxStarts = 2
INVARIANT ChannelAsAsked
INVARIANT PortAsTold
INVARIANT LocalIdsUnique
INVARIANT FailureNamesCause
INVARIANT CapabilityConnects
PROPERTY CallsReturn
CHECK_DEADLOCK FALSE
