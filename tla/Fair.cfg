SPECIFICATION FairGateSpec
CONSTANTS
  Procs = {p1, p2}
  Children = {c1, c2}
  NoProc = NoProc
  NoChild = NoChild
  NoConfig = NoConfig
  Models = {"a", "b"}
  Ctxs = {"small"}
  GarbledStderr = FALSE
  Tasks = {t1}
  Admins = {}
  Clients = {h1}
  Borrowers = {h1}
  Defs <- MCDefs
  NoCtx = "none"
  Config0 <- MCConfig0
  AdminOps = {}
  RestartOnCrash = TRUE
  IdleGuard = FALSE
  MaxAttempts = 2
  Names = {"a", "b", "part", "other", "", "local"}
  Wanted = {"part"}
  Stem <- MCStem
  Part <- MCPart
  Wild = {"", "local"}
  Defined <- MCDefined
  Found <- MCFound
  NoModel = "none"
  NoName = "no request"
PROPERTIES
  RequestsAnswered
  FlagReleased
  CrashHandled
