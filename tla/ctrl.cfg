SPECIFICATION FairSpec
CONSTANTS
  p1 = p1
  p2 = p2
  p3 = p3
  Plugins <- ThreePlugins
  MaxServers = 3
INVARIANTS
  NoServerLost
  HandleValid
  NoNullDeref
PROPERTY CallsReturn
CHECK_DEADLOCK FALSE
