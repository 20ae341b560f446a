SPECIFICATION FairSpec
CONSTANTS
  v1 = v1
  v2 = v2
  v3 = v3
  Values <- ThreeValues
  NoValue = NoValue
  Capacity = 3
  Cells = 4
  MaxPops = 2
  Bytes = 2
  MaxCap = 600
INVARIANTS
  NoDataRace
  DestructorExact
  RingFits
PROPERTIES
  IsFifo
  EveryItemTaken
