SPECIFICATION Spec
CONSTANTS
  Window = 2
  LastDay = 2
  Retention = 1
  Streams = {"s", "t"}
  Wholes = {"w"}
  Sample <- MCSample
  MaxStarts = 2
INVARIANTS
  TotalsCoverWindow
  PercentilesRank
  EntriesIntact
  NeverInThePast
PROPERTIES
  HistoryKept
CHECK_DEADLOCK FALSE
