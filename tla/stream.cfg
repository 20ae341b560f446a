SPECIFICATION FairSpec
CONSTANTS
  s1 = s1
  s2 = s2
  s3 = s3
  Streams <- ThreeStreams
  MaxWrites = 2
INVARIANTS
  FinishedOnce
  OneAcceptor
  StreamsAlive
  ClientTold
  NoStrayTag
PROPERTY EndedStreamsGo
CHECK_DEADLOCK FALSE
