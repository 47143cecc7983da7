SPECIFICATION Spec
CONSTANTS
  MaxTurns = 2
  MaxEvents = 3
INVARIANTS
  RemembersItsWords
  CallsAnswered
  ToolsAnnounced
CHECK_DEADLOCK FALSE
