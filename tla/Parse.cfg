SPECIFICATION Spec
CONSTANTS
  Words = {"x", "name", "think", "unthink", "call", "uncall"}
  MaxWords = 5
  MaxToken = 2
  Whole = {"uncall"}
  LOOKAHEAD = 2
INVARIANTS
  ParsesAsWritten
  DelayBounded
CHECK_DEADLOCK FALSE
