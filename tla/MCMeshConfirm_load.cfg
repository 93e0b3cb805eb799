SPECIFICATION MeshFairSpec
CONSTANTS
  on = on
  off = off
  None = None
  Values <- OnOff
  MaxInputs = 2
INVARIANTS PendingCanSettle CachedIsRetained
PROPERTY EventuallyTrue
