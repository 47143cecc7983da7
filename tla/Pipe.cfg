SPECIFICATION FairSpec
CONSTANTS
  Reqs = {"s", "w"}
  Streaming = {"s"}
  MaxTokens = 3
  Cap = 1
  Reporting = TRUE
INVARIANTS
  ClientSeesPrefix
  CompleteIsAccounted
  CountedOnce
  GaugeTracks
PROPERTIES
  StreamsDrain
CHECK_DEADLOCK FALSE
