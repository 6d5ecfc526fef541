SPECIFICATION Spec
CONSTANTS
  time = time
  value = value
  other = other
  Ids = {time, value, other}
  SafeId <- Names
  Tables <- TablesOf
  NoId = NoId
  Unusable = Unusable
  Reoffer = TRUE
  MaxOffers = 4
  MaxBlocks = 2
INVARIANT BlocksArrive
INVARIANT PacketsPaired
INVARIANT FailsOnlyOnClash
PROPERTY OutletIsCatalogue
CHECK_DEADLOCK FALSE
