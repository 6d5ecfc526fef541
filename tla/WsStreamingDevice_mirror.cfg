SPECIFICATION FairDevice
CONSTANTS
  s1 = s1
  s2 = s2
  s3 = s3
  Signals <- ThreeSignals
  NoParent = NoParent
  Former = Former
  LocalId <- DistinctIds
  EarlySignals = FALSE
INVARIANT MirrorsCatalogue
PROPERTY QuietOnceRemoved
PROPERTY RemovalReturns
