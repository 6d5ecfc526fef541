SPECIFICATION SessionSpec
CONSTANTS
  N = 2
  NoDomain = NoDomain
  GonePublished = GonePublished
  GoneUnpublished = GoneUnpublished
  References <- ValueNamesTime
  AppSignals = {2}
  Destroyable = FALSE
  BadMetadata = FALSE
  Readvertise = TRUE
  RequestBound = 2
  ShareBound = 4
  Sessions <- DisturbedSessions
PROPERTY TakeoverIsServed
