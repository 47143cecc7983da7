SPECIFICATION Spec
CONSTANTS
  Procs = {p1, p2, p3}
  Children = {c1, c2, c3}
  NoProc = NoProc
  NoChild = NoChild
  NoConfig = NoConfig
  Models = {"a"}
  Ctxs = {"small"}
  GarbledStderr = FALSE
  Tasks = {t1, t2}
  Admins = {a1}
  Clients = {}
  Borrowers = {}
  Defs <- MCDefs
  NoCtx = "none"
  Config0 <- MCConfig0
  AdminOps = {"restart"}
  RestartOnCrash = FALSE
  IdleGuard = FALSE
  MaxAttempts = 3
PROPERTIES
  RestartPollsNewBackend
SYMMETRY Symmetry
