\* Two tasks publish and clear two topics, over one crash or new session.
SPECIFICATION FairSpec
CONSTANTS
  a = a
  b = b
  t = t
  u = u
  Callers <- TwoCallers
  Topics <- TwoTopics
  Kinds <- PublishAndClear
  MaxCalls = 4
  MaxEnds = 1
  None = None
INVARIANT RetainedIsOwned
PROPERTIES PublishedInOrder CallsReturn
CHECK_DEADLOCK FALSE
