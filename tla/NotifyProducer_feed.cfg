SPECIFICATION FairSpec
CONSTANTS
  p1 = p1
  p2 = p2
  Event = {1, 2, 3, 4}
  Entry <- MCEntry
  EmitFirehose = TRUE
  EmitTypeChan = FALSE
  EmitCreator = FALSE
  Producer = {p1, p2}
  BatchSize = 2
  MaxFaults = 1
  None = None
CHECK_DEADLOCK FALSE
INVARIANTS
  TypeOK
  NoPhantom
  StampedWasHeard
  CopiesBounded
PROPERTIES
  ProducerImplementsFeed
  FeedIsLive
