SPECIFICATION Spec
CONSTANTS
  Procs = {p1, p2}
  Children = {c1, c2}
  NoProc = NoProc
  NoChild = NoChild
  NoConfig = NoConfig
  Models = {"a", "b"}
  Ctxs = {"small", "large"}
  GarbledStderr = FALSE
  Tasks = {t1, t2}
  Admins = {}
  Clients = {h1}
  Borrowers = {b1}
  Defs <- MCDefs
  NoCtx = "none"
  Config0 <- MCConfig0
  AdminOps = {}
  RestartOnCrash = TRUE
  IdleGuard = FALSE
  MaxAttempts = 2
INVARIANTS
  TypeOK
  FlagExclusive
PROPERTIES
  ServingUndisturbed
  SwapSpec
SYMMETRY Symmetry
