SPECIFICATION StopSpec
CONSTANTS
  s1 = s1
  s2 = s2
  s3 = s3
  h1 = h1
  h2 = h2
  Streams <- ThreeStreams
  Handlers <- TwoHandlers
  MaxWrites = 1
INVARIANT GracefulExit
CONSTRAINT InOrder
CHECK_DEADLOCK FALSE
