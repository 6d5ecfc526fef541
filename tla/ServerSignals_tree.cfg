SPECIFICATION Spec
CONSTANTS
  N = 3
  NoDomain = NoDomain
  NoSignal = NoSignal
  Subscribable = {1}
  MaxDescriptor = 2
  PostBound = 2
  Orderly = TRUE
INVARIANT AdvertisedInStep
INVARIANT MetadataCatchesUp
PROPERTY DataMatchesMetadata
