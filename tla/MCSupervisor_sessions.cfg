\* Sessions of an agent under three failures, two reconnections and two pushes.
SPECIFICATION FairSpec
CONSTANTS
  MaxPushes = 2
  MaxReconnects = 2
  FencedStartLimit = 2
  MaxFaults = 3
INVARIANTS OneLivePeer NoPushLost StallsAreBounded
PROPERTY ComesBack
