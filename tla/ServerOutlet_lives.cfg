SPECIFICATION FairSpec
CONSTANTS
  s1 = s1
  s2 = s2
  Servers = {s1, s2}
  Clients = {c1, c2}
  Blocks = {b1}
  NoServer = NoServer
  ChannelsOf <- PlainAndSecure
  RemoveEarly = FALSE
INVARIANT CapabilityMatchesServer
INVARIANT ListedAreConnected
INVARIANT NestedMatchesClients
PROPERTY RemovalIsFinal
PROPERTY StopsEnd
