SPECIFICATION FairSpec
CONSTANTS
  p1 = p1
  p2 = p2
  s1 = s1
  s2 = s2
  s3 = s3
  Plugins <- OnePlugin
  Streams <- TwoStreams
  QueueCap = 1
  BackoffLimit = 1
  MaxEvents = 2
INVARIANTS
  TypeOK
  PollFlagTruthful
  ClientServed
  DeliveredInOrder
PROPERTIES
  IsBroadcast
  EventsReachClients
  StopEndsClients
CHECK_DEADLOCK FALSE
