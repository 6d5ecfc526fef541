SPECIFICATION FairSpec
CONSTANTS
  N = 2
  NoDomain = NoDomain
  GonePublished = GonePublished
  GoneUnpublished = GoneUnpublished
  References <- Mutual
  AppSignals = {}
  Destroyable = TRUE
  BadMetadata = FALSE
  Readvertise = FALSE
  RequestBound = 0
  ShareBound = 0
INVARIANT AwaitingRetryIsDue
PROPERTY DeferralLastsFullPeriod
PROPERTY DestructorReturns
PROPERTY WaitsEnd
