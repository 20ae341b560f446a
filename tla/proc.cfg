SPECIFICATION LiveSpec
CONSTANTS
  Handles = {h1, h2}
  Pids = {p1, p2}
  NoPid = NoPid
INVARIANTS
  ActsOnOwnChild
  ChildrenHeld
PROPERTY TerminateReturns
