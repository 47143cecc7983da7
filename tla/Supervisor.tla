----------------------------- MODULE Supervisor -----------------------------
(***************************************************************************)
(* AppState and the tasks that replace or restart the backend:             *)
(*   - the model switch (server/mod.rs, trigger_model_switch and its task),*)
(*   - the crash watchdog and its recovery task (server/mod.rs),           *)
(*   - POST /v1/admin/load and /v1/admin/restart (server/routes/admin.rs). *)
(*                                                                         *)
(* A job is one run of such a task or handler.  A step of a job is the     *)
(* code between two awaits that another thread can tell apart; the steps   *)
(* of `start`, `restart` and `kill` come from LlamaProcess.  An            *)
(* Arc<LlamaProcess> lives while something refers to it: the AppState, a   *)
(* job, the watchdog or a request handler.  A step that gives up the last  *)
(* reference also drops the LlamaProcess.                                  *)
(***************************************************************************)
EXTENDS LlamaProcess

CONSTANTS
  Tasks,           \* slots for spawned background tasks (switch, recovery)
  Admins,          \* slots for admin requests in progress
  Clients,         \* request handlers, as far as they may ask for a switch
  Borrowers,       \* request handlers, as far as they hold the process
  Defs,            \* context_size of each [[models]] entry, or NoCtx
  NoCtx,           \* Option<u32>::None
  Config0,         \* the configuration the server starts with
  AdminOps,        \* admin operations used: a subset of {"load", "restart"}
  RestartOnCrash,  \* config.backend.restart_on_crash
  IdleGuard,       \* config.model.model_idle_timeout_secs > 0
  MaxAttempts      \* restart attempts of one recovery (3 in the code)

Jobs == Tasks \cup Admins

ASSUME JobsAssumption == Tasks \cap Admins = {}
ASSUME CtxAssumption  == NoCtx \notin Ctxs /\ Defs \in [Models -> Ctxs \cup {NoCtx}]
ASSUME Config0Assumption == Config0 \in Configs
ASSUME SettingsAssumption ==
  /\ AdminOps \subseteq {"load", "restart"}
  /\ RestartOnCrash \in BOOLEAN
  /\ IdleGuard \in BOOLEAN
  /\ MaxAttempts \in Nat \ {0}

TaskKinds  == {"switch", "recover"}
AdminKinds == {"load", "restart"}

\* Where a job stands: what it does next.
Steps == {"idle", "snap", "kill", "mark", "config", "spawn", "starting",
          "check", "poll", "late", "ready", "install", "backoff", "release"}

Job == [kind    : {"none"} \cup TaskKinds \cup AdminKinds,
        pc      : Steps,
        proc    : Procs \cup {NoProc},      \* the Arc it holds
        cfg     : Configs \cup {NoConfig},  \* the config it will publish and start
        attempt : 0 .. MaxAttempts]

NoJob == [kind |-> "none", pc |-> "idle", proc |-> NoProc, cfg |-> NoConfig, attempt |-> 0]

Watchdog == [pc : {"tick", "snap"}, proc : {NoProc}] \cup [pc : {"look", "cas"}, proc : Procs]

VARIABLES
  switching,  \* AppState.switching
  current,    \* AppState.process
  config,     \* AppState.config
  idle,       \* has last_request_at elapsed model_idle_timeout_secs ?
  job,        \* the jobs in progress
  wd,         \* crash_watchdog
  ask,        \* trigger_model_switch between its guards and its CAS
  lent        \* the Arc a request handler holds

appVars == <<switching, current, config, idle>>
supVars == <<appVars, job, wd, ask, lent>>
vars    == <<procVars, supVars>>

SupTypeOK ==
  /\ switching \in BOOLEAN
  /\ current \in Procs
  /\ config \in Configs
  /\ idle \in BOOLEAN
  /\ job \in [Jobs -> Job]
  /\ wd \in Watchdog
  /\ ask \in [Clients -> Configs \cup {NoConfig}]
  /\ lent \in [Borrowers -> Procs \cup {NoProc}]

TypeOK == ProcTypeOK /\ SupTypeOK

\* The LlamaProcess values something refers to.
Live == ({current, wd.proc} \cup {job[j].proc : j \in Jobs} \cup {lent[h] : h \in Borrowers})
          \ {NoProc}

\* Mutant: the override is taken as it is, with no base value behind it.
OverrideUnset(base, m, ctx) == [model |-> m, ctx |-> ctx]

\* A config with the overrides of one model, on top of a base config.
Override(base, m, ctx) ==
  [model |-> m, ctx |-> IF ctx = NoCtx THEN base.ctx ELSE ctx]

-----------------------------------------------------------------------------
(* The steps of a job.                                                     *)

At(j, step) == job[j].pc = step
Goto(j, step) == job' = [job EXCEPT ![j].pc = step]
Take(j, step, p) == job' = [job EXCEPT ![j].pc = step, ![j].proc = p]
Done(j) == job' = [job EXCEPT ![j] = NoJob]

Holder(p) == \E j \in Jobs : job[j].pc = "mark" /\ job[j].proc = p  \* of the child lock

\* Mutant: the old process is left to Drop.
SnapSkipsKill(j) ==
  /\ At(j, "snap")
  /\ Take(j, "config", NoProc)
  /\ UNCHANGED <<procVars, appVars, wd, ask, lent>>

Snap(j) ==
  /\ At(j, "snap")
  /\ Take(j, "kill", current)
  /\ UNCHANGED <<procVars, appVars, wd, ask, lent>>

Kill(j) ==
  /\ At(j, "kill")
  /\ ~Holder(job[j].proc)
  /\ KillSignal(job[j].proc)
  /\ Goto(j, "mark")
  /\ UNCHANGED <<appVars, wd, ask, lent>>

\* The rest of kill.  A switch and a load let go of the old process here; a
\* recovery goes on to respawn it.
Stop(j) ==
  /\ At(j, "mark")
  /\ IF job[j].kind = "recover" THEN Goto(j, "spawn") ELSE Take(j, "config", NoProc)
  /\ UNCHANGED <<appVars, wd, ask, lent>>
  /\ DropAllBut(Live', [state EXCEPT ![job[j].proc] = "Stopped"])

\* Mutants: the new config is never published; the flag is put back too early.
PublishNothing(j) ==
  /\ At(j, "config")
  /\ Goto(j, "spawn")
  /\ UNCHANGED <<procVars, appVars, wd, ask, lent>>

PublishReleases(j) ==
  /\ At(j, "config")
  /\ config' = job[j].cfg
  /\ switching' = FALSE
  /\ Goto(j, "spawn")
  /\ UNCHANGED <<procVars, current, idle, wd, ask, lent>>

Publish(j) ==
  /\ At(j, "config")
  /\ config' = job[j].cfg
  /\ Goto(j, "spawn")
  /\ UNCHANGED <<procVars, switching, current, idle, wd, ask, lent>>

SpawnNew(j) ==
  /\ At(j, "spawn") /\ job[j].kind # "recover"
  /\ \E p \in Procs, c \in Children :
       /\ StartSpawn(p, c, job[j].cfg)
       /\ Take(j, "starting", p)
  /\ UNCHANGED <<appVars, wd, ask, lent>>

SpawnAgain(j) ==
  /\ At(j, "spawn") /\ job[j].kind = "recover"
  /\ ~Holder(job[j].proc)
  /\ \E c \in Children : Respawn(job[j].proc, c)
  /\ Goto(j, "starting")
  /\ UNCHANGED <<appVars, wd, ask, lent>>

SetStarting(j) ==
  /\ At(j, "starting")
  /\ MarkStarting(job[j].proc)
  /\ Goto(j, "check")
  /\ UNCHANGED <<appVars, wd, ask, lent>>

\* Mutants: an early return leaves the flag set; a failed switch starts over.
FailReturns(j) ==
  /\ IF job[j].kind = "recover" /\ job[j].attempt < MaxAttempts
     THEN Goto(j, "backoff") ELSE Done(j)
  /\ UNCHANGED <<appVars, wd, ask, lent>>
  /\ DropAllBut(Live', state)

FailRetries(j) ==
  /\ \/ job[j].kind = "recover" /\ Goto(j, "release")
     \/ job[j].kind = "switch" /\ Take(j, "config", NoProc)
     \/ job[j].kind \in AdminKinds /\ Done(j)
  /\ UNCHANGED <<appVars, wd, ask, lent>>
  /\ DropAllBut(Live', state)

\* The caller of start or restart gets an Err.  A recovery sleeps and tries
\* again, or gives up; the others drop the new process, if there is one, and
\* only the switch has a flag to put back.
Fail(j) ==
  /\ \/ job[j].kind = "recover" /\ job[j].attempt < MaxAttempts /\ Goto(j, "backoff")
     \/ job[j].kind = "recover" /\ job[j].attempt = MaxAttempts /\ Goto(j, "release")
     \/ job[j].kind = "switch" /\ Take(j, "release", NoProc)
     \/ job[j].kind \in AdminKinds /\ Done(j)
  /\ UNCHANGED <<appVars, wd, ask, lent>>
  /\ DropAllBut(Live', state)

SpawnFails(j)   == At(j, "spawn") /\ Fail(j)
FoundCrashed(j) == At(j, "check") /\ state[job[j].proc] = "Crashed" /\ Fail(j)
TimedOut(j)     == At(j, "late") /\ Fail(j)

FoundAlive(j) ==
  /\ At(j, "check") /\ state[job[j].proc] # "Crashed"
  /\ Goto(j, "poll")
  /\ UNCHANGED <<procVars, appVars, wd, ask, lent>>

PollOk(j) ==
  /\ At(j, "poll") /\ Listening
  /\ Goto(j, "ready")
  /\ UNCHANGED <<procVars, appVars, wd, ask, lent>>

PollFails(j) ==
  /\ At(j, "poll")
  /\ Goto(j, "late")
  /\ UNCHANGED <<procVars, appVars, wd, ask, lent>>

Sleep(j) ==
  /\ At(j, "late")
  /\ Goto(j, "check")
  /\ UNCHANGED <<procVars, appVars, wd, ask, lent>>

SetReady(j) ==
  /\ At(j, "ready")
  /\ MarkReady(job[j].proc)
  /\ Goto(j, IF job[j].kind = "recover" THEN "release" ELSE "install")
  /\ UNCHANGED <<appVars, wd, ask, lent>>

\* Mutant: the replaced process is leaked.
InstallLeaks(j) ==
  /\ At(j, "install")
  /\ current' = job[j].proc
  /\ IF job[j].kind = "switch" THEN Take(j, "release", NoProc) ELSE Done(j)
  /\ UNCHANGED <<procVars, switching, config, idle, wd, ask, lent>>

\* The new process replaces the current one, which this drops unless a
\* request handler or the watchdog still holds it.
Install(j) ==
  /\ At(j, "install")
  /\ current' = job[j].proc
  /\ IF job[j].kind = "switch" THEN Take(j, "release", NoProc) ELSE Done(j)
  /\ UNCHANGED <<switching, config, idle, wd, ask, lent>>
  /\ DropAllBut(Live', state)

Backoff(j) ==
  /\ At(j, "backoff")
  /\ job' = [job EXCEPT ![j].pc = "kill", ![j].attempt = @ + 1]
  /\ UNCHANGED <<procVars, appVars, wd, ask, lent>>

Release(j) ==
  /\ At(j, "release")
  /\ switching' = FALSE
  /\ Done(j)
  /\ UNCHANGED <<current, config, idle, wd, ask, lent>>
  /\ DropAllBut(Live', state)

\* Mutant: the cancelled handler leaves its process behind.
CancelLeaks(j) ==
  /\ j \in Admins
  /\ job[j].pc \in {"poll", "late"}
  /\ Done(j)
  /\ UNCHANGED <<procVars, appVars, wd, ask, lent>>

\* The server drops the handler of a client that went away, at an await that
\* takes long.  Dropping the future drops the process it was starting.
Cancel(j) ==
  /\ j \in Admins
  /\ job[j].pc \in {"poll", "late"}
  /\ Done(j)
  /\ UNCHANGED <<appVars, wd, ask, lent>>
  /\ DropAllBut(Live', state)

JobStep(j) ==
  \/ Snap(j) \/ Kill(j) \/ Stop(j) \/ Publish(j) \/ SpawnNew(j) \/ SpawnAgain(j)
  \/ SpawnFails(j) \/ SetStarting(j) \/ FoundCrashed(j) \/ FoundAlive(j)
  \/ PollOk(j) \/ PollFails(j) \/ TimedOut(j) \/ Sleep(j) \/ SetReady(j)
  \/ Install(j) \/ Backoff(j) \/ Release(j)

-----------------------------------------------------------------------------
(* What starts a job.                                                      *)

\* A job takes a free slot.
Begin(j, kind, pc, p, cfg) ==
  /\ job[j] = NoJob
  /\ job' = [job EXCEPT ![j] = [kind |-> kind, pc |-> pc, proc |-> p, cfg |-> cfg,
                                attempt |-> IF kind = "recover" THEN 1 ELSE 0]]

\* trigger_model_switch up to the CAS: the config it read is the base of the
\* new one, and the idle guard lets the request through.
Resolve(h, m) ==
  /\ ask[h] = NoConfig
  /\ IdleGuard => idle
  /\ ask' = [ask EXCEPT ![h] = Override(config, m, Defs[m])]
  /\ UNCHANGED <<procVars, appVars, job, wd, lent>>

\* Mutant: the flag is stored, not compared and swapped.
TriggerStores(h) ==
  /\ ask[h] # NoConfig
  /\ ask' = [ask EXCEPT ![h] = NoConfig]
  /\ switching' = TRUE
  /\ \E t \in Tasks : Begin(t, "switch", "snap", NoProc, ask[h])
  /\ UNCHANGED <<procVars, current, config, idle, wd, lent>>

\* The CAS of trigger_model_switch: the loser only answers 503.
Trigger(h) ==
  /\ ask[h] # NoConfig
  /\ ask' = [ask EXCEPT ![h] = NoConfig]
  /\ \/ switching /\ UNCHANGED <<switching, job>>
     \/ /\ ~switching
        /\ switching' = TRUE
        /\ \E t \in Tasks : Begin(t, "switch", "snap", NoProc, ask[h])
  /\ UNCHANGED <<procVars, current, config, idle, wd, lent>>

AdminLoad(j, m, ctx) ==
  /\ "load" \in AdminOps
  /\ Begin(j, "load", "snap", NoProc, Override(config, m, ctx))
  /\ UNCHANGED <<procVars, appVars, wd, ask, lent>>

\* restart starts the new process at once; the old one runs on.
AdminRestart(j) ==
  /\ "restart" \in AdminOps
  /\ Begin(j, "restart", "spawn", NoProc, config)
  /\ UNCHANGED <<procVars, appVars, wd, ask, lent>>

-----------------------------------------------------------------------------
(* The crash watchdog: flag, snapshot, state and CAS are read one by one.  *)

WdTick ==
  /\ RestartOnCrash /\ wd.pc = "tick" /\ ~switching
  /\ wd' = [wd EXCEPT !.pc = "snap"]
  /\ UNCHANGED <<procVars, appVars, job, ask, lent>>

WdSnap ==
  /\ wd.pc = "snap"
  /\ wd' = [pc |-> "look", proc |-> current]
  /\ UNCHANGED <<procVars, appVars, job, ask, lent>>

WdForget == wd' = [pc |-> "tick", proc |-> NoProc]

WdSeesCrash ==
  /\ wd.pc = "look" /\ state[wd.proc] = "Crashed"
  /\ wd' = [wd EXCEPT !.pc = "cas"]
  /\ UNCHANGED <<procVars, appVars, job, ask, lent>>

\* Mutant: the snapshot is taken once and kept from tick to tick.
WdKeepsSnapshot ==
  /\ wd.pc = "look" /\ state[wd.proc] # "Crashed"
  /\ UNCHANGED <<procVars, supVars>>

WdSeesNoCrash ==
  /\ wd.pc = "look" /\ state[wd.proc] # "Crashed"
  /\ WdForget
  /\ UNCHANGED <<appVars, job, ask, lent>>
  /\ DropAllBut(Live', state)

\* The recovery task restarts the process the watchdog looked at.
WdRecover ==
  /\ wd.pc = "cas" /\ ~switching
  /\ switching' = TRUE
  /\ \E t \in Tasks : Begin(t, "recover", "kill", wd.proc, NoConfig)
  /\ WdForget
  /\ UNCHANGED <<procVars, current, config, idle, ask, lent>>

WdLosesCas ==
  /\ wd.pc = "cas" /\ switching
  /\ WdForget
  /\ UNCHANGED <<appVars, job, ask, lent>>
  /\ DropAllBut(Live', state)

WdStep ==
  WdTick \/ WdSnap \/ WdSeesCrash \/ WdSeesNoCrash \/ WdRecover \/ WdLosesCas

-----------------------------------------------------------------------------
(* What request handlers do to the AppState.                               *)

Touch == idle' = FALSE /\ UNCHANGED <<procVars, switching, current, config, job, wd, ask, lent>>

\* model_idle_timeout_secs pass without a request.
TimePasses == idle' = TRUE /\ UNCHANGED <<procVars, switching, current, config, job, wd, ask, lent>>

\* A handler snapshots the process for proxying, and lets it go.
Lend(h) ==
  /\ lent[h] = NoProc
  /\ lent' = [lent EXCEPT ![h] = current]
  /\ UNCHANGED <<procVars, appVars, job, wd, ask>>

Return(h) ==
  /\ lent[h] # NoProc
  /\ lent' = [lent EXCEPT ![h] = NoProc]
  /\ UNCHANGED <<appVars, job, wd, ask>>
  /\ DropAllBut(Live', state)

-----------------------------------------------------------------------------
\* serve() has started the first process and is about to accept requests.
Init ==
  /\ current \in Procs
  /\ \E c \in Children :
       /\ child = [p \in Procs |-> IF p = current THEN c ELSE NoChild]
       /\ os = [d \in Children |-> IF d = c THEN "listening" ELSE "exited"]
       /\ reader = [d \in Children |-> IF d = c THEN current ELSE NoProc]
  /\ state = [p \in Procs |-> IF p = current THEN "Ready" ELSE "Stopped"]
  /\ cfgOf = [p \in Procs |-> IF p = current THEN Config0 ELSE NoConfig]
  /\ signalled = {}
  /\ switching = FALSE
  /\ config = Config0
  /\ idle = FALSE
  /\ job = [j \in Jobs |-> NoJob]
  /\ wd = [pc |-> "tick", proc |-> NoProc]
  /\ ask = [h \in Clients |-> NoConfig]
  /\ lent = [h \in Borrowers |-> NoProc]

\* The supervision: everything but the request handlers.
Supervise ==
  \/ ChildStep /\ UNCHANGED supVars
  \/ \E j \in Jobs : JobStep(j) \/ Cancel(j)
  \/ \E j \in Admins : AdminRestart(j)
  \/ \E j \in Admins, m \in Models, ctx \in Ctxs \cup {NoCtx} : AdminLoad(j, m, ctx)
  \/ WdStep
  \/ IdleGuard /\ TimePasses

Handle ==
  \/ \E h \in Clients : Trigger(h) \/ \E m \in Models : Resolve(h, m)
  \/ \E h \in Borrowers : Lend(h) \/ Return(h)
  \/ IdleGuard /\ Touch

Next == Supervise \/ Handle

\* The runtime polls every task and the timers fire.  A start or restart that
\* keeps polling passes its deadline: the clock runs while the job sleeps.
Fairness ==
  /\ \A c \in Children :
       /\ WF_vars(c \in signalled /\ Exit(c) /\ UNCHANGED supVars)
       /\ WF_vars(ReaderEof(c) /\ UNCHANGED supVars)
  /\ \A j \in Jobs : WF_vars(JobStep(j)) /\ SF_vars(TimedOut(j))
  /\ WF_vars(WdStep)
  /\ \A h \in Clients : WF_vars(Trigger(h))
  /\ \A h \in Borrowers : WF_vars(Return(h))

Spec     == Init /\ [][Next]_vars
FairSpec == Spec /\ Fairness

-----------------------------------------------------------------------------
(* Properties.                                                             *)

Busy(t) == job[t].kind # "none"

\* The `switching` flag is a lock: it is set exactly while one background
\* task, switch or recovery, is between its CAS and its final store
\* (mod.rs:136 and 190, mod.rs:244 and 269).
FlagExclusive ==
  /\ switching <=> \E t \in Tasks : Busy(t)
  /\ \A t, u \in Tasks : Busy(t) /\ Busy(u) => t = u

\* No llama-server is left behind: a child that runs and was not told to exit
\* is the handle of a LlamaProcess something still refers to, whatever failed,
\* timed out, was cancelled or was swapped meanwhile.
NoOrphan ==
  \A c \in Children : Alive(c) /\ c \notin signalled => \E p \in Live : child[p] = c

\* Two LlamaProcess values never share a child, and a handle never names a
\* child that was already told to exit: every kill has a target of its own.
HandlesSound ==
  \A p \in Procs : child[p] # NoChild =>
    /\ p \in Live
    /\ child[p] \notin signalled
    /\ \A q \in Procs : child[q] = child[p] => q = p

\* With no admin requests and no recovery, no two llama-servers run at once
\* except one that was already told to exit (they share the port and the GPU).
SingleBackend ==
  \A c, d \in Children :
    Alive(c) /\ Alive(d) /\ c \notin signalled /\ d \notin signalled => c = d

\* Between switches the published config is the one the running process was
\* started with; only a failed switch, which leaves it Stopped, breaks this.
ConfigMatchesProcess ==
  ~switching /\ state[current] # "Stopped" => config = cfgOf[current]

\* While the flag is down nobody swaps the process or takes its child away.
ServingUndisturbed ==
  [][~switching /\ ~switching' => current' = current /\ child'[current] = child[current]]_vars

\* Every switch and every recovery gives the flag back, whether its process
\* starts, dies, hangs until the deadline or cannot be spawned.
FlagReleased == switching ~> ~switching

\* With the watchdog on, a crash of the current process does not go unnoticed.
CrashHandled == state[current] = "Crashed" ~> state[current] # "Crashed" \/ switching

\* The promise of the flag is kept by the real steps.
Phase ==
  IF \E t \in Tasks : Busy(t) /\ At(t, "release") THEN "done"
  ELSE IF \E t \in Tasks : job[t].kind = "switch" /\ ~(job[t].pc \in {"snap", "kill", "mark", "config"})
       THEN "published"
  ELSE IF \E t \in Tasks : Busy(t) THEN "held" ELSE "free"

Swap == INSTANCE BackendSwap WITH
  Workers <- Tasks, holders <- {t \in Tasks : Busy(t)}, phase <- Phase

SwapSpec == Swap!Spec

-----------------------------------------------------------------------------
(* What comments and documents say, and the code does not do.              *)

\* "When stderr closes the process has exited" (llama_process.rs:113): a
\* Crashed process with a handle has a dead child.
CrashedMeansExited ==
  \A p \in Live : state[p] = "Crashed" /\ child[p] # NoChild => ~Alive(child[p])

\* "Automatically respawn the subprocess if it exits unexpectedly"
\* (config/backend.rs:30): the server does not settle on a Ready process whose
\* child is gone.
DeadIsNotReady ==
  []<>~(~switching /\ state[current] = "Ready" /\ child[current] # NoChild
        /\ ~Alive(child[current]))

\* "up to 3 attempts, 15 s apart before giving up" (mod.rs:222): a process
\* that never gets ready again is given up some time.
WatchdogGivesUp == <>[](state[current] # "Ready") => <>[]~switching

\* "falling back to base values" (mod.rs:145): a model with no override of its
\* own runs with the context size of the configuration file.
NoOverrideLeak ==
  \A p \in Live : Defs[cfgOf[p].model] = NoCtx => cfgOf[p].ctx = Config0.ctx

\* "Short name of the currently-loaded model" (mod.rs:90).
NamesLoadedModel == ~switching => config.model = cfgOf[current].model

\* "Graceful restart" (admin.rs:6) by `start`, where "the call blocks (async) until the backend
\* /health endpoint returns 200" (llama_process.rs:31): the child that answers is the new one.
RestartPollsNewBackend ==
  [][\A j \in Admins : At(j, "poll") /\ At(j, "ready")' =>
       os[child[job[j].proc]] = "listening"]_vars

\* "all requests return 503 until the new model passes /health" (README.md:291):
\* a switch goes on when its own backend answers.
SwitchPollsNewBackend ==
  [][\A t \in Tasks : job[t].kind = "switch" /\ At(t, "poll") /\ At(t, "ready")' =>
       os[child[job[t].proc]] = "listening"]_vars

\* "Don't interfere with an in-progress model switch or a prior restart"
\* (mod.rs:230): a recovery restarts the process that is being served.
RecoversCurrent == \A t \in Tasks : job[t].kind = "recover" => job[t].proc = current
=============================================================================
