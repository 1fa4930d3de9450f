SPECIFICATION FairSpec
CONSTANTS
  MaxSends = 4
  Pings = TRUE
CHECK_DEADLOCK FALSE
INVARIANTS
  TypeOK
  OneWriteAtATime
  QueueIsServed
  FramesInOrder
PROPERTIES
  IsOrderedChannel
  ThreadEnds
