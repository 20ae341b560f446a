SPECIFICATION Spec
CONSTANTS
  p1 = p1
  p2 = p2
  s1 = s1
  s2 = s2
  s3 = s3
  Plugins <- TwoPlugins
  Streams <- ThreeStreams
  QueueCap = 1
  BackoffLimit = 5
  MaxEvents = 0
INVARIANT ClientServed
CHECK_DEADLOCK FALSE
