------------------------------ MODULE Gateway -------------------------------
(***************************************************************************)
(* The request handlers in front of the supervised backend: the first half *)
(* of chat_completions (server/routes/openai.rs) and of create_message     *)
(* (server/routes/anthropic.rs), up to the upstream request, composed with *)
(* Supervisor.  Both handlers read the flag, the config, last_request_at   *)
(* and the process one after the other, so everything the supervision does *)
(* can come in between.                                                    *)
(***************************************************************************)
EXTENDS Supervisor

CONSTANTS
  Names, Stem, Part, Wild, Defined, Found, NoModel,  \* as in Registry
  Wanted,    \* values of the `model` field of a request
  NoName     \* no request

Registered == INSTANCE Registry WITH Files <- Models

ASSUME NamesAssumption ==
  /\ Registered!NamesOK
  /\ Wanted \subseteq Names /\ NoName \notin Names
  /\ Borrowers = Clients

RequestSteps ==
  {"idle", "gate", "name", "resolve", "cas", "touch", "proc", "cfg", "send", "serving",
   "streaming"}

Request == [pc    : RequestSteps,
            want  : Wanted \cup {NoName},     \* the model field
            label : Models \cup {NoModel},    \* the model name put in the response
            srv   : Children \cup {NoChild}]  \* the llama-server that took the request

NoRequest == [pc |-> "idle", want |-> NoName, label |-> NoModel, srv |-> NoChild]

VARIABLE req

gateVars == <<vars, req>>

\* A handler holds the Arc of the process from its snapshot until it returns,
\* which for a stream is when the stream begins; and it is inside
\* trigger_model_switch exactly while its new config is pending.
GateTypeOK ==
  /\ req \in [Clients -> Request]
  /\ \A h \in Clients :
       /\ lent[h] # NoProc <=> req[h].pc \in {"cfg", "send", "serving"}
       /\ ask[h] # NoConfig <=> req[h].pc = "cas"

ReqAt(h, step) == req[h].pc = step
ReqGoto(h, step) == req' = [req EXCEPT ![h].pc = step]

\* The handler returns: 503, 500 or a response that is over.
Answer(h) == req' = [req EXCEPT ![h] = NoRequest]

-----------------------------------------------------------------------------
Arrive(h, n) ==
  /\ ReqAt(h, "idle")
  /\ req' = [req EXCEPT ![h].pc = "gate", ![h].want = n]
  /\ UNCHANGED vars

\* The 503 gate, and the error for a body that does not parse.
Gate(h) ==
  /\ ReqAt(h, "gate")
  /\ Answer(h) \/ (~switching /\ ReqGoto(h, "name"))
  /\ UNCHANGED vars

\* Mutant: the name is not compared with the loaded model.
NameUncompared(h) ==
  /\ ReqAt(h, "name")
  /\ ReqGoto(h, "resolve")
  /\ UNCHANGED vars

\* current_model_name is the file stem of the published config.
Name(h) ==
  /\ ReqAt(h, "name")
  /\ ReqGoto(h, IF Registered!MatchesCurrent(req[h].want, config.model) THEN "touch" ELSE "resolve")
  /\ UNCHANGED vars

\* An unknown name, or a busy backend: go on with the current model.
FallThrough(h) ==
  /\ ReqAt(h, "resolve")
  /\ Registered!Resolve(req[h].want) = NoModel \/ (IdleGuard /\ ~idle)
  /\ ReqGoto(h, "touch")
  /\ UNCHANGED vars

AskSwitch(h) ==
  /\ ReqAt(h, "resolve")
  /\ Registered!Resolve(req[h].want) # NoModel
  /\ Resolve(h, Registered!Resolve(req[h].want))
  /\ ReqGoto(h, "cas")

\* Winner and loser of the CAS answer 503.
Switch(h) ==
  /\ ReqAt(h, "cas")
  /\ Trigger(h)
  /\ Answer(h)

TouchLast(h) ==
  /\ ReqAt(h, "touch")
  /\ Touch
  /\ ReqGoto(h, "proc")

TakeProcess(h) ==
  /\ ReqAt(h, "proc")
  /\ Lend(h)
  /\ ReqGoto(h, "cfg")

TakeConfig(h) ==
  /\ ReqAt(h, "cfg")
  /\ req' = [req EXCEPT ![h].pc = "send", ![h].label = config.model]
  /\ UNCHANGED vars

\* The POST reaches whichever llama-server listens on the port.
Send(h) ==
  /\ ReqAt(h, "send")
  /\ \E c \in Children :
       /\ os[c] = "listening"
       /\ req' = [req EXCEPT ![h].pc = "serving", ![h].srv = c]
  /\ UNCHANGED vars

\* Mutants: the handler retries for ever; the error path keeps the process.
RefusedRetries(h) ==
  /\ ReqAt(h, "send") /\ ~Listening
  /\ UNCHANGED gateVars

RefusedKeeps(h) ==
  /\ ReqAt(h, "send") /\ ~Listening
  /\ Answer(h)
  /\ UNCHANGED vars

\* Nobody listens: the handler fails with 500 and lets go of the process.
Refused(h) ==
  /\ ReqAt(h, "send") /\ ~Listening
  /\ Answer(h)
  /\ Return(h)

\* The stream begins: the handler returns, and lets go of the process, while the
\* tasks it spawned go on reading.
Stream(h) ==
  /\ ReqAt(h, "serving") /\ os[req[h].srv] = "listening"
  /\ ReqGoto(h, "streaming")
  /\ Return(h)

\* The response is complete, or cut off because the llama-server is gone or the
\* client went away.
Finish(h) ==
  /\ \/ ReqAt(h, "serving") /\ Return(h)
     \/ ReqAt(h, "streaming") /\ UNCHANGED vars
  /\ Answer(h)

RequestStep(h) ==
  \/ Gate(h) \/ Name(h) \/ FallThrough(h) \/ AskSwitch(h) \/ Switch(h)
  \/ TouchLast(h) \/ TakeProcess(h) \/ TakeConfig(h) \/ Send(h) \/ Refused(h)

-----------------------------------------------------------------------------
GateInit == Init /\ req = [h \in Clients |-> NoRequest]

GateNext ==
  \/ Supervise /\ UNCHANGED req
  \/ \E h \in Clients :
       \/ \E n \in Wanted : Arrive(h, n)
       \/ RequestStep(h) \/ Stream(h) \/ Finish(h)

\* llama-server finishes a generation or closes the connection when it exits,
\* and the runtime polls every handler; the supervision is as fair as in Supervisor.
GateFairness ==
  /\ \A j \in Jobs : WF_gateVars(JobStep(j) /\ UNCHANGED req)
                     /\ SF_gateVars(TimedOut(j) /\ UNCHANGED req)
  /\ \A c \in Children : WF_gateVars(c \in signalled /\ Exit(c) /\ UNCHANGED <<supVars, req>>)
                         /\ WF_gateVars(ReaderEof(c) /\ UNCHANGED <<supVars, req>>)
  /\ WF_gateVars(WdStep /\ UNCHANGED req)
  /\ \A h \in Clients : WF_gateVars(RequestStep(h)) /\ WF_gateVars(Finish(h))

GateSpec     == GateInit /\ [][GateNext]_gateVars
FairGateSpec == GateSpec /\ GateFairness

-----------------------------------------------------------------------------
(* Properties.                                                             *)

\* Every request is answered, with a response, a 503 or an error, whatever the
\* supervision does meanwhile.
RequestsAnswered == \A h \in Clients : ~ReqAt(h, "idle") ~> ReqAt(h, "idle")

\* Without admin requests and recoveries, a response that is under way loses its
\* llama-server to a switch, under the flag, and never because another handler
\* let go of a process: by then that process has no child (mod.rs:174,
\* llama_process.rs:239).
CutOnlyBySwitch ==
  [][\A h \in Clients :
       /\ req[h].srv # NoChild /\ req'[h].srv = req[h].srv
       /\ req[h].srv \in signalled' \ signalled
       => switching]_gateVars

\* The handlers that hold an answer of matches_current which no longer holds: the
\* model they are about to ask for has been published since (openai.rs:57).
Overtaken ==
  {h \in Clients : req[h].pc \in {"resolve", "cas"}
                   /\ Registered!MatchesCurrent(req[h].want, config.model)}

\* The comparison comes before the compare-exchange of the switch, so the model
\* that is published can be loaded again, but only for a handler overtaken that
\* way, which returns with it; and only the publication of another model overtakes
\* handlers: reloads do not make more of their kind.  Entries named after their
\* files (NamesFit): an alias reloads every time.
ReloadsAreSpent ==
  [][/\ config'.model = config.model => Overtaken' \subseteq Overtaken
     /\ \A t \in Tasks :
          ~Busy(t) /\ Busy(t)' /\ job'[t].kind = "switch" /\ job'[t].cfg.model = config.model
          => \E h \in Overtaken : h \notin Overtaken']_gateVars

-----------------------------------------------------------------------------
(* What documents say, and the code does not do.                           *)

\* "While switching, all requests return 503 until the new model passes
\* /health" (README.md:291): nothing is sent upstream while the flag is set.
GateHolds ==
  [][\A h \in Clients : ReqAt(h, "send") /\ ReqAt(h, "serving")' => ~switching]_gateVars

\* "Idle guard - prevents mid-session model switches" (README.md:45): with the
\* guard on, no switch kills a llama-server that is serving a request.
NoKillInFlight ==
  IdleGuard => \A h \in Clients : ReqAt(h, "serving") \/ ReqAt(h, "streaming") => req[h].srv \notin signalled

\* "If the client requested a specific model that differs from the loaded one"
\* (openai.rs:54): no request reloads the model that is loaded and ready.
NoReloadOfLoaded ==
  [][\A t \in Tasks : ~Busy(t) /\ Busy(t)' /\ job'[t].kind = "switch" =>
       job'[t].cfg.model # cfgOf[current].model \/ state[current] # "Ready"]_gateVars

\* "Ignored - model is always the one loaded in config" (types/anthropic.rs:122):
\* no request switches models.
ModelIgnored ==
  [][\A t \in Tasks : ~Busy(t) /\ Busy(t)' => job'[t].kind # "switch"]_gateVars

=============================================================================
