SPECIFICATION Spec
CONSTANTS
  Kinds = {"token", "usage", "length", "done", "noise"}
  MaxFrames = 4
  UsageOf = 7
INVARIANTS
  ChunkingInvisible
  SummaryAsReported
CHECK_DEADLOCK FALSE
