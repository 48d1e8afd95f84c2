SPECIFICATION FairSpec
CONSTANTS
  i1 = i1
  i2 = i2
  o1 = o1
  o2 = o2
  Images <- TwoImages
  Owners <- TwoOwners
  Needs <- PairNeeds
  Foreign <- FirstImage
  Windowed <- SecondImage
  References = 1
  MaxPulls = 1
  Disk = 5
  ImageSize = 3
  Estimate = 1
  ReservePercent = 20
  NoImage = NoImage
  MaxFaults = 1
INVARIANTS TypeOK UsedImageStays ResolvedImageStays PullsAreCounted
PROPERTIES AcquireEnds
