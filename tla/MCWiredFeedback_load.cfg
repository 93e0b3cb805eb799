SPECIFICATION FairSpec
CONSTANTS
  lo = lo
  hi = hi
  None = None
  Values <- Two
  Fields <- BothFields
  Reports <- Reported
  Commands <- OnThenDim
  MaxFaults = 1
INVARIANTS WindowIsNotRenewed ProjectionYields CacheIsHonest
PROPERTY EventuallyNative
