SPECIFICATION FairSpec
CONSTANTS
  MaxRequests = 5
  MaxTimeouts = 5
  MayDie = TRUE
INVARIANTS
  AnswersInOrder
  AnswersRecent
PROPERTIES
  IsHandshake
  EveryCallReturns
CHECK_DEADLOCK FALSE
