SPECIFICATION GateSpec
CONSTANTS
  Procs = {p1, p2}
  Children = {c1, c2}
  NoProc = NoProc
  NoChild = NoChild
  NoConfig = NoConfig
  Models = {"a", "b"}
  Ctxs = {"small"}
  GarbledStderr = TRUE
  Tasks = {t1}
  Admins = {}
  Clients = {h1, h2}
  Borrowers = {h1, h2}
  Defs <- MCDefs
  NoCtx = "none"
  Config0 <- MCConfig0
  AdminOps = {}
  RestartOnCrash = FALSE
  IdleGuard = TRUE
  MaxAttempts = 2
  Names = {"a", "b", "part", "other", "", "local"}
  Wanted = {"a", "b", "other"}
  Stem <- MCStem
  Part <- MCPart
  Wild = {"", "local"}
  Defined <- MCDefined
  Found <- MCFound
  NoModel = "none"
  NoName = "no request"
INVARIANTS
  GateTypeOK
  SingleBackend
  ConfigMatchesProcess
PROPERTIES
  CutOnlyBySwitch
  ReloadsAreSpent
SYMMETRY Symmetry
