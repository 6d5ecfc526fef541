SPECIFICATION Spec
CONSTANTS
  N = 2
  NoDomain = NoDomain
  GonePublished = GonePublished
  GoneUnpublished = GoneUnpublished
  References <- Mutual
  AppSignals = {1}
  Destroyable = FALSE
  BadMetadata = TRUE
  Readvertise = TRUE
  RequestBound = 1
  ShareBound = 2
INVARIANT SweepArmedWhilePending
INVARIANT WireCountConserved
INVARIANT AckedIsSubscribed
PROPERTY HoldLastsFullPeriod
PROPERTY LinkDroppedOnlyBySweep
PROPERTY ImplementsCatalogue
