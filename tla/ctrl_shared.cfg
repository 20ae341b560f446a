SPECIFICATION Spec
CONSTANTS
  p1 = p1
  p2 = p2
  p3 = p3
  Plugins <- TwoPlugins
  MaxServers = 2
INVARIANT PluginServed
CHECK_DEADLOCK FALSE
