SPECIFICATION LiveSpec
CONSTANTS
  Clients = {a, b}
  Plugins = {p}
  Params = {1}
  Ids = {1, 2}
  Automated = {1}
  Stamps <- TwoStamps
  MaxBatch = 2
  QueueCap = 1
  NanosPerMilli = 2
  MillisPerSecond = 3
  MaxStamp = 13
  ParamOffset = 2
  IdCount = 5
  Modules = {0, 1, 2}
  Locals = {0, 1, 2}
  MaxAdded = 4
  MaxHostEvents = 5
  MaxFrames = 3
INVARIANTS
  NothingLost
  HostAgrees
  HostSpeaksLast
  StampsExact
  TablesExact
  EventsExact
  BlocksExact
PROPERTIES
  NoOlderValue
  CallsAnswered
CHECK_DEADLOCK FALSE
