SPECIFICATION FairSpec
CONSTANTS
  MaxEvents = 5
INVARIANTS
  TypeOK
  DoneIsDelivered
PROPERTIES
  WellFormed
  TaskEnds
CHECK_DEADLOCK FALSE
