SPECIFICATION PacketSpec
CONSTANTS
  N = 3
  NoDomain = NoDomain
  GonePublished = GonePublished
  GoneUnpublished = GoneUnpublished
  References <- Links
  AppSignals = {3}
  Destroyable = FALSE
  BadMetadata = TRUE
  Readvertise = FALSE
  RequestBound = 1
  ShareBound = 2
  None = None
  TableOfSignal <- TableOfEach
  Descriptors <- DescriptorsOfEach
  Careless = {2}
  BlockSizes <- SizesOfEach
  MaxBlocks = 2
INVARIANT DomainPacketOfTick
INVARIANT FailsOnlyOnBadMetadata
INVARIANT DescriptorArrives
PROPERTY PacketsAsAnnounced
CHECK_DEADLOCK FALSE
