\* Four commands of four kinds to one load, a lane of one place, one re-typing.
SPECIFICATION FairSpec
CONSTANTS
  Kinds <- LoadKinds
  MaxCommands = 4
  InboxSize = 2
  LaneSize = 1
  MaxFailures = 2
  MaxRetypes = 1
INVARIANT InOrder
PROPERTY Settles
CHECK_DEADLOCK FALSE
