SPECIFICATION FairSpec
CONSTANTS
  Tokens = {"a", "b", "s"}
  PromptTokens = {"a", "b"}
  NoToken = "none"
  Silent = {"s"}
  StopStrings <- StopAtB
  MaxPrompt = 4
  MaxAnswer = 1
  Batch = 2
  Context = 4
  Cap = 1
INVARIANTS
  RecordResident
  SamplesInContext
  OneEnd
PROPERTIES
  CommandsEnd
