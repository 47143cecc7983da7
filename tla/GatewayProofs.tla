---------------------------- MODULE GatewayProofs ----------------------------
(***************************************************************************)
(* The supervision of the llama-server, and the request handlers above it. *)
(*                                                                         *)
(* Part one is about Supervisor, for every number of processes, tasks,     *)
(* admin requests and clients, and every setting: types, requests at the   *)
(* gate, the implementation of BackendSwap, and who owns which             *)
(* llama-server.                                                           *)
(*                                                                         *)
(* Part two is about Gateway, for every number of handlers, names and      *)
(* models, and every registry.  A handler does nothing to the AppState     *)
(* that Supervisor does not allow for, so Gateway implements Supervisor,   *)
(* and what part one proves holds there.  Each end of a handler has to put *)
(* back what it borrowed.                                                  *)
(***************************************************************************)
EXTENDS Gateway, FiniteSetTheorems, Sequences, TLAPS

USE DEF appVars, supVars, procVars

\* Which steps a job of each kind reaches, and what it holds there.
Starting == {"starting", "check", "poll", "late", "ready", "install"}

JobShape(j) ==
  /\ job[j].kind = "none" <=> job[j].pc = "idle"
  /\ j \in Tasks => job[j].kind \in {"none"} \cup TaskKinds
  /\ j \in Admins => job[j].kind \in {"none"} \cup AdminKinds
  /\ job[j].pc = "install" => job[j].kind # "recover"
  /\ job[j].pc = "release" => job[j].kind \in TaskKinds
  /\ job[j].pc = "config" => job[j].kind # "recover"
  /\ job[j].pc = "backoff" => job[j].kind = "recover" /\ job[j].attempt < MaxAttempts
  /\ job[j].pc \in Starting \cup {"kill", "mark"} => job[j].proc \in Procs
  /\ job[j].kind = "recover" => job[j].proc \in Procs
  /\ job[j].kind \in {"switch", "load", "restart"} => job[j].cfg \in Configs

JobsOK == \A j \in Jobs : JobShape(j)

-----------------------------------------------------------------------------
(* Type correctness.                                                       *)

\* A config with its model, and perhaps its context size, overridden is a config.
LEMMA OverrideType ==
  ASSUME NEW base \in Configs, NEW m \in Models, NEW ctx \in Ctxs \cup {NoCtx}
  PROVE  Override(base, m, ctx) \in Configs
BY DEF Override, Configs

\* Dropping the processes nobody refers to keeps the types of the process
\* variables.
LEMMA DropType ==
  ASSUME ProcTypeOK, NEW live, NEW st \in [Procs -> ProcessState], DropAllBut(live, st)
  PROVE  ProcTypeOK'
BY DEF ProcTypeOK, DropAllBut, ProcessState, ChildStatus

\* ChildStep keeps the types of the process variables.
LEMMA ChildStepType ==
  ASSUME ProcTypeOK, ChildStep
  PROVE  ProcTypeOK'
<1>1. ASSUME NEW c \in Children, ReaderEnds(c) PROVE ProcTypeOK'
  <2>1. reader[c] \in Procs
    BY <1>1 DEF ProcTypeOK, ReaderEnds
  <2>2. state' \in [Procs -> ProcessState]
    BY <1>1, <2>1 DEF ProcTypeOK, ReaderEnds, ProcessState
  <2>. QED
    BY <1>1, <2>2 DEF ProcTypeOK, ReaderEnds
<1>2. ASSUME NEW c \in Children, Boot(c) PROVE ProcTypeOK'
  BY <1>2 DEF ProcTypeOK, Boot, ChildStatus
<1>3. ASSUME NEW c \in Children, Exit(c) PROVE ProcTypeOK'
  BY <1>3 DEF ProcTypeOK, Exit, ChildStatus
<1>. QED
  BY <1>1, <1>2, <1>3 DEF ChildStep, ReaderEof, ReaderGivesUp

\* What Goto, Take and Done do to the job they are about, and to the others.
LEMMA GotoFacts ==
  ASSUME job \in [Jobs -> Job], NEW j \in Jobs, NEW s \in Steps, Goto(j, s)
  PROVE  /\ job' \in [Jobs -> Job]
         /\ job'[j].pc = s
         /\ job'[j].proc = job[j].proc
         /\ job'[j].kind = job[j].kind
         /\ job'[j].cfg = job[j].cfg
         /\ job'[j].attempt = job[j].attempt
         /\ \A k \in Jobs \ {j} : job'[k] = job[k]
<1>1. job' = [job EXCEPT ![j] = [job[j] EXCEPT !.pc = s]]
  BY DEF Goto
<1>2. job[j] \in Job
  OBVIOUS
<1>3. [job[j] EXCEPT !.pc = s] \in Job
  BY <1>2 DEF Job
<1>. QED
  BY <1>1, <1>2, <1>3 DEF Job

\* What Take does: it also gives the job a process to work on.
LEMMA TakeFacts ==
  ASSUME job \in [Jobs -> Job], NEW j \in Jobs, NEW s \in Steps,
         NEW p \in Procs \cup {NoProc}, Take(j, s, p)
  PROVE  /\ job' \in [Jobs -> Job]
         /\ job'[j].pc = s
         /\ job'[j].proc = p
         /\ job'[j].kind = job[j].kind
         /\ job'[j].cfg = job[j].cfg
         /\ job'[j].attempt = job[j].attempt
         /\ \A k \in Jobs \ {j} : job'[k] = job[k]
<1>1. job' = [job EXCEPT ![j] = [[job[j] EXCEPT !.pc = s] EXCEPT !.proc = p]]
  BY DEF Take
<1>2. job[j] \in Job
  OBVIOUS
<1>3. [[job[j] EXCEPT !.pc = s] EXCEPT !.proc = p] \in Job
  BY <1>2 DEF Job
<1>. QED
  BY <1>1, <1>2, <1>3 DEF Job

\* What Done does: the slot is empty again.
LEMMA DoneFacts ==
  ASSUME job \in [Jobs -> Job], NEW j \in Jobs, Done(j)
  PROVE  /\ job' \in [Jobs -> Job]
         /\ job'[j] = NoJob
         /\ \A k \in Jobs \ {j} : job'[k] = job[k]
<1>1. NoJob \in Job
  BY SettingsAssumption DEF NoJob, Job, Steps
<1>. QED
  BY <1>1 DEF Done

\* Only the shape of the job that moved has to be looked at again.
LEMMA KeepShape ==
  ASSUME JobsOK, NEW j \in Jobs, JobShape(j)',
         \A k \in Jobs \ {j} : job'[k] = job[k]
  PROVE  JobsOK'
BY DEF JobsOK, JobShape

\* A job that is over leaves a slot of the right shape.
LEMMA DoneType ==
  ASSUME job \in [Jobs -> Job], JobsOK, NEW j \in Jobs, Done(j)
  PROVE  job' \in [Jobs -> Job] /\ JobsOK'
<1>1. JobShape(j)'
  BY DoneFacts DEF NoJob, JobShape, Starting, TaskKinds, AdminKinds
<1>. QED
  BY <1>1, DoneFacts, KeepShape

\* Every step of a job keeps the types and the shape of the jobs.
LEMMA JobStepType ==
  ASSUME TypeOK, JobsOK, NEW j \in Jobs, JobStep(j) \/ Cancel(j)
  PROVE  TypeOK' /\ JobsOK'
<1>. USE DEF TypeOK, SupTypeOK
<1>s. /\ job[j] \in Job
      /\ JobShape(j)
  BY DEF JobsOK
<1>1. CASE Snap(j)
  <2>1. Take(j, "kill", current) /\ At(j, "snap")
    BY <1>1 DEF Snap
  <2>2. ProcTypeOK'
    BY <1>1 DEF Snap, ProcTypeOK
  <2>3. job' \in [Jobs -> Job] /\ JobShape(j)'
    BY <1>s, <2>1, TakeFacts DEF JobShape, At, Starting, Steps, TaskKinds, AdminKinds
  <2>4. JobsOK'
    BY <2>1, <2>3, TakeFacts, KeepShape DEF Steps
  <2>. QED
    BY <1>1, <2>2, <2>3, <2>4 DEF Snap
<1>2. CASE Kill(j)
  <2>1. Goto(j, "mark") /\ At(j, "kill")
    BY <1>2 DEF Kill
  <2>2. ProcTypeOK'
    BY <1>2 DEF Kill, KillSignal, ProcTypeOK, ProcessState, ChildStatus
  <2>3. job' \in [Jobs -> Job] /\ JobShape(j)'
    BY <1>s, <2>1, GotoFacts DEF JobShape, At, Starting, Steps, TaskKinds, AdminKinds
  <2>4. JobsOK'
    BY <2>1, <2>3, GotoFacts, KeepShape DEF Steps
  <2>. QED
    BY <1>2, <2>2, <2>3, <2>4 DEF Kill
<1>3. CASE Stop(j)
  <2>1. At(j, "mark") /\ DropAllBut(Live', [state EXCEPT ![job[j].proc] = "Stopped"])
    BY <1>3 DEF Stop
  <2>2. [state EXCEPT ![job[j].proc] = "Stopped"] \in [Procs -> ProcessState]
    BY DEF ProcTypeOK, ProcessState
  <2>3. ProcTypeOK'
    BY <2>1, <2>2, DropType
  <2>4. CASE job[j].kind = "recover"
    <3>1. Goto(j, "spawn")
      BY <1>3, <2>4 DEF Stop
    <3>2. job' \in [Jobs -> Job] /\ JobShape(j)'
      BY <1>s, <2>1, <2>4, <3>1, GotoFacts DEF JobShape, At, Starting, Steps, TaskKinds, AdminKinds
    <3>3. JobsOK'
      BY <3>1, <3>2, GotoFacts, KeepShape DEF Steps
    <3>. QED
      BY <1>3, <2>3, <3>2, <3>3 DEF Stop
  <2>5. CASE job[j].kind # "recover"
    <3>1. Take(j, "config", NoProc)
      BY <1>3, <2>5 DEF Stop
    <3>2. job' \in [Jobs -> Job] /\ JobShape(j)'
      BY <1>s, <2>1, <2>5, <3>1, TakeFacts DEF JobShape, At, Starting, Steps, TaskKinds, AdminKinds
    <3>3. JobsOK'
      BY <3>1, <3>2, TakeFacts, KeepShape DEF Steps
    <3>. QED
      BY <1>3, <2>3, <3>2, <3>3 DEF Stop
  <2>. QED
    BY <2>4, <2>5
<1>4. CASE Publish(j)
  <2>1. Goto(j, "spawn") /\ At(j, "config") /\ config' = job[j].cfg
    BY <1>4 DEF Publish
  <2>2. ProcTypeOK'
    BY <1>4 DEF Publish, ProcTypeOK
  <2>3. job[j].cfg \in Configs
    BY <1>s, <2>1 DEF JobShape, At, Job, TaskKinds, AdminKinds
  <2>4. job' \in [Jobs -> Job] /\ JobShape(j)'
    BY <1>s, <2>1, GotoFacts DEF JobShape, At, Starting, Steps, TaskKinds, AdminKinds
  <2>5. JobsOK'
    BY <2>1, <2>4, GotoFacts, KeepShape DEF Steps
  <2>. QED
    BY <1>4, <2>1, <2>2, <2>3, <2>4, <2>5 DEF Publish
<1>5. CASE SpawnNew(j)
  <2>1. PICK p \in Procs, c \in Children :
          StartSpawn(p, c, job[j].cfg) /\ Take(j, "starting", p)
    BY <1>5 DEF SpawnNew
  <2>2. At(j, "spawn") /\ job[j].cfg \in Configs \cup {NoConfig}
    BY <1>5, <1>s DEF SpawnNew, Job
  <2>3. ProcTypeOK'
    BY <2>1, <2>2 DEF StartSpawn, ProcTypeOK, ProcessState, ChildStatus
  <2>4. job' \in [Jobs -> Job] /\ JobShape(j)'
    BY <1>s, <2>1, <2>2, TakeFacts DEF JobShape, At, Starting, Steps, TaskKinds, AdminKinds
  <2>5. JobsOK'
    BY <2>1, <2>4, TakeFacts, KeepShape DEF Steps
  <2>. QED
    BY <1>5, <2>3, <2>4, <2>5 DEF SpawnNew
<1>6. CASE SpawnAgain(j)
  <2>1. PICK c \in Children : Respawn(job[j].proc, c)
    BY <1>6 DEF SpawnAgain
  <2>2. Goto(j, "starting") /\ At(j, "spawn") /\ job[j].kind = "recover"
    BY <1>6 DEF SpawnAgain
  <2>3. job[j].proc \in Procs
    BY <1>s, <2>2 DEF JobShape, At
  <2>4. ProcTypeOK'
    BY <2>1, <2>3 DEF Respawn, ProcTypeOK, ChildStatus
  <2>5. job' \in [Jobs -> Job] /\ JobShape(j)'
    BY <1>s, <2>2, <2>3, GotoFacts DEF JobShape, At, Starting, Steps, TaskKinds, AdminKinds
  <2>6. JobsOK'
    BY <2>2, <2>5, GotoFacts, KeepShape DEF Steps
  <2>. QED
    BY <1>6, <2>4, <2>5, <2>6 DEF SpawnAgain
<1>7. CASE SetStarting(j)
  <2>1. Goto(j, "check") /\ At(j, "starting")
    BY <1>7 DEF SetStarting
  <2>2. ProcTypeOK'
    BY <1>7 DEF SetStarting, MarkStarting, ProcTypeOK, ProcessState, ChildStatus
  <2>3. job' \in [Jobs -> Job] /\ JobShape(j)'
    BY <1>s, <2>1, GotoFacts DEF JobShape, At, Starting, Steps, TaskKinds, AdminKinds
  <2>4. JobsOK'
    BY <2>1, <2>3, GotoFacts, KeepShape DEF Steps
  <2>. QED
    BY <1>7, <2>2, <2>3, <2>4 DEF SetStarting
<1>8. CASE FoundAlive(j)
  <2>1. Goto(j, "poll") /\ At(j, "check")
    BY <1>8 DEF FoundAlive
  <2>2. ProcTypeOK'
    BY <1>8 DEF FoundAlive, ProcTypeOK
  <2>3. job' \in [Jobs -> Job] /\ JobShape(j)'
    BY <1>s, <2>1, GotoFacts DEF JobShape, At, Starting, Steps, TaskKinds, AdminKinds
  <2>4. JobsOK'
    BY <2>1, <2>3, GotoFacts, KeepShape DEF Steps
  <2>. QED
    BY <1>8, <2>2, <2>3, <2>4 DEF FoundAlive
<1>9. CASE PollOk(j)
  <2>1. Goto(j, "ready") /\ At(j, "poll")
    BY <1>9 DEF PollOk
  <2>2. ProcTypeOK'
    BY <1>9 DEF PollOk, ProcTypeOK
  <2>3. job' \in [Jobs -> Job] /\ JobShape(j)'
    BY <1>s, <2>1, GotoFacts DEF JobShape, At, Starting, Steps, TaskKinds, AdminKinds
  <2>4. JobsOK'
    BY <2>1, <2>3, GotoFacts, KeepShape DEF Steps
  <2>. QED
    BY <1>9, <2>2, <2>3, <2>4 DEF PollOk
<1>10. CASE PollFails(j)
  <2>1. Goto(j, "late") /\ At(j, "poll")
    BY <1>10 DEF PollFails
  <2>2. ProcTypeOK'
    BY <1>10 DEF PollFails, ProcTypeOK
  <2>3. job' \in [Jobs -> Job] /\ JobShape(j)'
    BY <1>s, <2>1, GotoFacts DEF JobShape, At, Starting, Steps, TaskKinds, AdminKinds
  <2>4. JobsOK'
    BY <2>1, <2>3, GotoFacts, KeepShape DEF Steps
  <2>. QED
    BY <1>10, <2>2, <2>3, <2>4 DEF PollFails
<1>11. CASE Sleep(j)
  <2>1. Goto(j, "check") /\ At(j, "late")
    BY <1>11 DEF Sleep
  <2>2. ProcTypeOK'
    BY <1>11 DEF Sleep, ProcTypeOK
  <2>3. job' \in [Jobs -> Job] /\ JobShape(j)'
    BY <1>s, <2>1, GotoFacts DEF JobShape, At, Starting, Steps, TaskKinds, AdminKinds
  <2>4. JobsOK'
    BY <2>1, <2>3, GotoFacts, KeepShape DEF Steps
  <2>. QED
    BY <1>11, <2>2, <2>3, <2>4 DEF Sleep
<1>12. CASE SetReady(j)
  <2>1. At(j, "ready") /\ MarkReady(job[j].proc)
        /\ Goto(j, IF job[j].kind = "recover" THEN "release" ELSE "install")
    BY <1>12 DEF SetReady
  <2>2. ProcTypeOK'
    BY <2>1 DEF MarkReady, ProcTypeOK, ProcessState
  <2>3. CASE job[j].kind = "recover"
    <3>1. Goto(j, "release")
      BY <2>1, <2>3
    <3>2. job' \in [Jobs -> Job] /\ JobShape(j)'
      BY <1>s, <2>1, <2>3, <3>1, GotoFacts DEF JobShape, At, Starting, Steps, TaskKinds, AdminKinds
    <3>3. JobsOK'
      BY <3>1, <3>2, GotoFacts, KeepShape DEF Steps
    <3>. QED
      BY <1>12, <2>2, <3>2, <3>3 DEF SetReady
  <2>4. CASE job[j].kind # "recover"
    <3>1. Goto(j, "install")
      BY <2>1, <2>4
    <3>2. job' \in [Jobs -> Job] /\ JobShape(j)'
      BY <1>s, <2>1, <2>4, <3>1, GotoFacts DEF JobShape, At, Starting, Steps, TaskKinds, AdminKinds
    <3>3. JobsOK'
      BY <3>1, <3>2, GotoFacts, KeepShape DEF Steps
    <3>. QED
      BY <1>12, <2>2, <3>2, <3>3 DEF SetReady
  <2>. QED
    BY <2>3, <2>4
<1>13. CASE Install(j)
  <2>1. At(j, "install") /\ current' = job[j].proc /\ DropAllBut(Live', state)
    BY <1>13 DEF Install
  <2>2. ProcTypeOK' /\ current' \in Procs
    BY <1>s, <2>1, DropType DEF ProcTypeOK, JobShape, At, Starting
  <2>3. CASE job[j].kind = "switch"
    <3>1. Take(j, "release", NoProc)
      BY <1>13, <2>3 DEF Install
    <3>2. job' \in [Jobs -> Job] /\ JobShape(j)'
      BY <1>s, <2>1, <2>3, <3>1, TakeFacts DEF JobShape, At, Starting, Steps, TaskKinds, AdminKinds
    <3>3. JobsOK'
      BY <3>1, <3>2, TakeFacts, KeepShape DEF Steps
    <3>. QED
      BY <1>13, <2>2, <3>2, <3>3 DEF Install
  <2>4. CASE job[j].kind # "switch"
    <3>1. Done(j)
      BY <1>13, <2>4 DEF Install
    <3>. QED
      BY <1>13, <2>2, <3>1, DoneType DEF Install
  <2>. QED
    BY <2>3, <2>4
<1>14. CASE Release(j)
  <2>1. ProcTypeOK'
    BY <1>14, DropType DEF Release, ProcTypeOK
  <2>. QED
    BY <1>14, <2>1, DoneType DEF Release
<1>15. CASE Backoff(j)
  <2>1. At(j, "backoff") /\ job' = [job EXCEPT ![j].pc = "kill", ![j].attempt = @ + 1]
    BY <1>15 DEF Backoff
  <2>2. job[j].kind = "recover" /\ job[j].attempt + 1 \in 0 .. MaxAttempts
    BY <1>s, <2>1, SettingsAssumption DEF JobShape, At, Job
  <2>3. /\ job' \in [Jobs -> Job]
        /\ job'[j].pc = "kill" /\ job'[j].kind = "recover" /\ job'[j].proc = job[j].proc
        /\ \A k \in Jobs \ {j} : job'[k] = job[k]
    <3>1. [[job[j] EXCEPT !.pc = "kill"] EXCEPT !.attempt = job[j].attempt + 1] \in Job
      BY <1>s, <2>2 DEF Job, Steps
    <3>2. job' = [job EXCEPT ![j] =
                   [[job[j] EXCEPT !.pc = "kill"] EXCEPT !.attempt = job[j].attempt + 1]]
      BY <2>1
    <3>. QED
      BY <1>s, <2>2, <3>1, <3>2 DEF Job
  <2>4. JobShape(j)'
    BY <1>s, <2>2, <2>3 DEF JobShape, At, Starting, Steps, TaskKinds, AdminKinds
  <2>. QED
    BY <1>15, <2>3, <2>4, KeepShape DEF Backoff, ProcTypeOK
<1>16. CASE Fail(j) /\ ~At(j, "idle")
  <2>1. ProcTypeOK'
    BY <1>16, DropType DEF Fail, ProcTypeOK
  <2>2. ASSUME job[j].kind = "recover", job[j].attempt < MaxAttempts, Goto(j, "backoff")
        PROVE  job' \in [Jobs -> Job] /\ JobsOK'
    <3>1. job' \in [Jobs -> Job] /\ JobShape(j)'
      BY <1>s, <2>2, GotoFacts DEF JobShape, At, Starting, Steps, TaskKinds, AdminKinds
    <3>. QED
      BY <2>2, <3>1, GotoFacts, KeepShape DEF Steps
  <2>3. ASSUME job[j].kind = "recover", Goto(j, "release")
        PROVE  job' \in [Jobs -> Job] /\ JobsOK'
    <3>1. job' \in [Jobs -> Job] /\ JobShape(j)'
      BY <1>s, <2>3, GotoFacts DEF JobShape, At, Starting, Steps, TaskKinds, AdminKinds
    <3>. QED
      BY <2>3, <3>1, GotoFacts, KeepShape DEF Steps
  <2>4. ASSUME job[j].kind = "switch", Take(j, "release", NoProc)
        PROVE  job' \in [Jobs -> Job] /\ JobsOK'
    <3>1. job' \in [Jobs -> Job] /\ JobShape(j)'
      BY <1>s, <2>4, TakeFacts DEF JobShape, At, Starting, Steps, TaskKinds, AdminKinds
    <3>. QED
      BY <2>4, <3>1, TakeFacts, KeepShape DEF Steps
  <2>. QED
    BY <1>16, <2>1, <2>2, <2>3, <2>4, DoneType DEF Fail
<1>17. CASE SpawnFails(j)
  BY <1>16, <1>17 DEF SpawnFails, At
<1>18. CASE FoundCrashed(j)
  BY <1>16, <1>18 DEF FoundCrashed, At
<1>19. CASE TimedOut(j)
  BY <1>16, <1>19 DEF TimedOut, At
<1>20. CASE Cancel(j)
  <2>1. ProcTypeOK'
    BY <1>20, DropType DEF Cancel, ProcTypeOK
  <2>. QED
    BY <1>20, <2>1, DoneType DEF Cancel
<1>. QED
  BY <1>1, <1>2, <1>3, <1>4, <1>5, <1>6, <1>7, <1>8, <1>9, <1>10, <1>11, <1>12, <1>13, <1>14,
     <1>15, <1>17, <1>18, <1>19, <1>20 DEF JobStep

\* Giving a free slot a record of the right shape keeps types and shapes.
LEMMA FillSlot ==
  ASSUME job \in [Jobs -> Job], JobsOK, NEW j \in Jobs, NEW r \in Job,
         job' = [job EXCEPT ![j] = r],
         r.kind \in (IF j \in Tasks THEN TaskKinds ELSE AdminKinds),
         r.pc \in {"snap", "kill", "spawn"},
         r.pc = "kill" => r.proc \in Procs,
         r.kind = "recover" => r.proc \in Procs,
         r.kind # "recover" => r.cfg \in Configs
  PROVE  job' \in [Jobs -> Job] /\ JobsOK'
<1>1. job' \in [Jobs -> Job] /\ job'[j] = r /\ \A k \in Jobs \ {j} : job'[k] = job[k]
  OBVIOUS
<1>2. JobShape(j)'
  BY <1>1, JobsAssumption DEF JobShape, Starting, TaskKinds, AdminKinds, Jobs
<1>. QED
  BY <1>1, <1>2, KeepShape

\* What starts a job keeps types and shapes too.
LEMMA BeginType ==
  ASSUME TypeOK, JobsOK,
         \/ \E h \in Clients : Trigger(h)
         \/ WdRecover
         \/ \E j \in Admins : AdminRestart(j)
         \/ \E j \in Admins, m \in Models, ctx \in Ctxs \cup {NoCtx} : AdminLoad(j, m, ctx)
  PROVE  TypeOK' /\ JobsOK'
<1>. USE DEF TypeOK, SupTypeOK
<1>1. ASSUME NEW h \in Clients, Trigger(h) PROVE TypeOK' /\ JobsOK'
  <2>1. CASE switching
    BY <1>1, <2>1 DEF Trigger, ProcTypeOK, JobsOK, JobShape
  <2>2. CASE ~switching
    <3>1. PICK t \in Tasks :
            job' = [job EXCEPT ![t] = [kind |-> "switch", pc |-> "snap", proc |-> NoProc,
                                       cfg |-> ask[h], attempt |-> 0]]
      BY <1>1, <2>2 DEF Trigger, Begin
    <3>2. ask[h] \in Configs
      BY <1>1 DEF Trigger
    <3>3. [kind |-> "switch", pc |-> "snap", proc |-> NoProc, cfg |-> ask[h], attempt |-> 0]
            \in Job
      BY <3>2, SettingsAssumption DEF Job, Steps, TaskKinds
    <3>4. job' \in [Jobs -> Job] /\ JobsOK'
      BY <3>1, <3>2, <3>3, FillSlot DEF Jobs, TaskKinds
    <3>. QED
      BY <1>1, <2>2, <3>4 DEF Trigger, ProcTypeOK
  <2>. QED
    BY <2>1, <2>2
<1>2. CASE WdRecover
  <2>1. wd.proc \in Procs
    BY <1>2 DEF WdRecover, Watchdog
  <2>2. PICK t \in Tasks :
          job' = [job EXCEPT ![t] = [kind |-> "recover", pc |-> "kill", proc |-> wd.proc,
                                     cfg |-> NoConfig, attempt |-> 1]]
    BY <1>2 DEF WdRecover, Begin
  <2>3. [kind |-> "recover", pc |-> "kill", proc |-> wd.proc, cfg |-> NoConfig, attempt |-> 1]
          \in Job
    BY <2>1, SettingsAssumption DEF Job, Steps, TaskKinds
  <2>4. job' \in [Jobs -> Job] /\ JobsOK'
    BY <2>1, <2>2, <2>3, FillSlot DEF Jobs, TaskKinds
  <2>. QED
    BY <1>2, <2>4 DEF WdRecover, WdForget, Watchdog, ProcTypeOK
<1>3. ASSUME NEW j \in Admins, AdminRestart(j) PROVE TypeOK' /\ JobsOK'
  <2>1. job' = [job EXCEPT ![j] = [kind |-> "restart", pc |-> "spawn", proc |-> NoProc,
                                   cfg |-> config, attempt |-> 0]]
    BY <1>3 DEF AdminRestart, Begin
  <2>2. [kind |-> "restart", pc |-> "spawn", proc |-> NoProc, cfg |-> config, attempt |-> 0]
          \in Job
    BY SettingsAssumption DEF Job, Steps, AdminKinds
  <2>3. job' \in [Jobs -> Job] /\ JobsOK'
    BY <2>1, <2>2, JobsAssumption, FillSlot DEF Jobs, AdminKinds
  <2>. QED
    BY <1>3, <2>3 DEF AdminRestart, ProcTypeOK
<1>4. ASSUME NEW j \in Admins, NEW m \in Models, NEW ctx \in Ctxs \cup {NoCtx},
             AdminLoad(j, m, ctx)
      PROVE  TypeOK' /\ JobsOK'
  <2>. DEFINE cfg == Override(config, m, ctx)
  <2>1. cfg \in Configs
    BY OverrideType
  <2>2. job' = [job EXCEPT ![j] = [kind |-> "load", pc |-> "snap", proc |-> NoProc,
                                   cfg |-> cfg, attempt |-> 0]]
    BY <1>4 DEF AdminLoad, Begin
  <2>. HIDE DEF cfg
  <2>3. [kind |-> "load", pc |-> "snap", proc |-> NoProc, cfg |-> cfg, attempt |-> 0] \in Job
    BY <2>1, SettingsAssumption DEF Job, Steps, AdminKinds
  <2>4. job' \in [Jobs -> Job] /\ JobsOK'
    BY <2>1, <2>2, <2>3, JobsAssumption, FillSlot DEF Jobs, AdminKinds
  <2>. QED
    BY <1>4, <2>4 DEF AdminLoad, ProcTypeOK
<1>. QED
  BY <1>1, <1>2, <1>3, <1>4

\* The steps that start and end no job.
LEMMA OtherType ==
  ASSUME TypeOK, JobsOK,
         \/ ChildStep /\ UNCHANGED supVars
         \/ WdTick \/ WdSnap \/ WdSeesCrash \/ WdSeesNoCrash \/ WdLosesCas
         \/ TimePasses \/ Touch
         \/ \E h \in Clients, m \in Models : Resolve(h, m)
         \/ \E h \in Borrowers : Lend(h) \/ Return(h)
         \/ UNCHANGED vars
  PROVE  TypeOK' /\ JobsOK'
<1>. USE DEF TypeOK, SupTypeOK, JobsOK, JobShape
<1>1. CASE ChildStep /\ UNCHANGED supVars
  BY <1>1, ChildStepType
<1>2. CASE WdTick
  BY <1>2 DEF WdTick, Watchdog, ProcTypeOK
<1>3. CASE WdSnap
  BY <1>3 DEF WdSnap, Watchdog, ProcTypeOK
<1>4. CASE WdSeesCrash
  BY <1>4 DEF WdSeesCrash, Watchdog, ProcTypeOK
<1>5. CASE WdSeesNoCrash
  <2>1. ProcTypeOK'
    BY <1>5, DropType DEF WdSeesNoCrash, ProcTypeOK
  <2>. QED
    BY <1>5, <2>1 DEF WdSeesNoCrash, WdForget, Watchdog
<1>6. CASE WdLosesCas
  <2>1. ProcTypeOK'
    BY <1>6, DropType DEF WdLosesCas, ProcTypeOK
  <2>. QED
    BY <1>6, <2>1 DEF WdLosesCas, WdForget, Watchdog
<1>7. CASE TimePasses \/ Touch
  BY <1>7 DEF TimePasses, Touch, ProcTypeOK
<1>8. ASSUME NEW h \in Clients, NEW m \in Models, Resolve(h, m) PROVE TypeOK' /\ JobsOK'
  <2>1. Override(config, m, Defs[m]) \in Configs
    BY CtxAssumption, OverrideType
  <2>. QED
    BY <1>8, <2>1 DEF Resolve, ProcTypeOK
<1>9. ASSUME NEW h \in Borrowers, Lend(h) PROVE TypeOK' /\ JobsOK'
  BY <1>9 DEF Lend, ProcTypeOK
<1>10. ASSUME NEW h \in Borrowers, Return(h) PROVE TypeOK' /\ JobsOK'
  <2>1. ProcTypeOK'
    BY <1>10, DropType DEF Return, ProcTypeOK
  <2>. QED
    BY <1>10, <2>1 DEF Return
<1>11. CASE UNCHANGED vars
  BY <1>11 DEF vars, ProcTypeOK
<1>. QED
  BY <1>1, <1>2, <1>3, <1>4, <1>5, <1>6, <1>7, <1>8, <1>9, <1>10, <1>11

\* The server starts in a well-typed state, with no job and the flag down.
LEMMA InitType ==
  ASSUME Init
  PROVE  TypeOK /\ JobsOK /\ FlagExclusive
<1>1. NoJob \in Job
  BY SettingsAssumption DEF NoJob, Job, Steps
<1>2. ProcTypeOK
  BY Config0Assumption DEF Init, ProcTypeOK, ProcessState, ChildStatus
<1>3. SupTypeOK
  BY <1>1, Config0Assumption DEF Init, SupTypeOK, Watchdog
<1>4. JobsOK
  BY DEF Init, JobsOK, JobShape, NoJob, Starting, TaskKinds, AdminKinds
<1>5. FlagExclusive
  BY DEF Init, FlagExclusive, Busy, NoJob, Jobs
<1>. QED
  BY <1>2, <1>3, <1>4, <1>5 DEF TypeOK

\* Every step keeps the types and the shape of the jobs.
LEMMA NextType ==
  ASSUME TypeOK, JobsOK, [Next]_vars
  PROVE  TypeOK' /\ JobsOK'
BY JobStepType, BeginType, OtherType DEF Next, Supervise, Handle, WdStep

\* Every reachable state has the types the module declares.
THEOREM TypeCorrect == Spec => []TypeOK
<1>1. Init => TypeOK /\ JobsOK
  BY InitType
<1>2. TypeOK /\ JobsOK /\ [Next]_vars => TypeOK' /\ JobsOK'
  BY NextType
<1>. QED
  BY <1>1, <1>2, PTL DEF Spec

-----------------------------------------------------------------------------
(* The flag is a lock.                                                     *)

\* A step of a job keeps the flag and the set of busy tasks, except that
\* Release clears the flag and ends the task.
LEMMA JobStepBusy ==
  ASSUME TypeOK, JobsOK, NEW j \in Jobs, JobStep(j) \/ Cancel(j)
  PROVE  \/ switching' = switching /\ \A t \in Tasks : Busy(t)' <=> Busy(t)
         \/ /\ j \in Tasks /\ Busy(j) /\ ~Busy(j)' /\ ~switching'
            /\ \A t \in Tasks \ {j} : Busy(t)' <=> Busy(t)
<1>. DEFINE Same == switching' = switching /\ \A t \in Tasks : Busy(t)' <=> Busy(t)
<1>t. job \in [Jobs -> Job] /\ job[j] \in Job /\ JobShape(j)
  BY DEF TypeOK, SupTypeOK, JobsOK
<1>1. ASSUME NEW s \in Steps, Goto(j, s), switching' = switching PROVE Same
  BY <1>t, <1>1, GotoFacts DEF Busy, Jobs
<1>2. ASSUME NEW s \in Steps, NEW p \in Procs \cup {NoProc}, Take(j, s, p), switching' = switching
      PROVE  Same
  BY <1>t, <1>2, TakeFacts DEF Busy, Jobs
<1>3. ASSUME Done(j), j \in Admins, switching' = switching PROVE Same
  BY <1>t, <1>3, DoneFacts, JobsAssumption DEF Busy, Jobs
<1>4. CASE Fail(j)
  <2>1. job[j].kind \in AdminKinds => j \in Admins
    BY <1>t DEF JobShape, Jobs, AdminKinds, TaskKinds
  <2>. QED
    BY <1>1, <1>2, <1>3, <1>4, <2>1 DEF Fail, Steps
<1>5. CASE Release(j)
  <2>1. At(j, "release") /\ Done(j) /\ ~switching'
    BY <1>5 DEF Release
  <2>2. j \in Tasks /\ Busy(j)
    BY <1>t, <2>1 DEF JobShape, At, Busy, Jobs, TaskKinds, AdminKinds
  <2>. QED
    BY <1>t, <2>1, <2>2, DoneFacts DEF Busy, NoJob, Jobs
<1>6. CASE Install(j)
  <2>1. job[j].kind # "switch" => j \in Admins
    BY <1>t, <1>6 DEF Install, At, JobShape, Jobs, AdminKinds, TaskKinds
  <2>. QED
    BY <1>2, <1>3, <1>6, <2>1 DEF Install, Steps
<1>7. CASE Cancel(j)
  BY <1>3, <1>7 DEF Cancel
<1>8. CASE Backoff(j)
  BY <1>t, <1>8 DEF Backoff, Busy, Jobs, Job
<1>9. CASE Snap(j)
  BY <1>2, <1>9 DEF Snap, Steps, TypeOK, SupTypeOK
<1>10. CASE Kill(j) \/ Publish(j) \/ SpawnAgain(j) \/ SetStarting(j) \/ FoundAlive(j)
            \/ PollOk(j) \/ PollFails(j) \/ Sleep(j)
  BY <1>1, <1>10 DEF Kill, Publish, SpawnAgain, SetStarting, FoundAlive, PollOk, PollFails,
                     Sleep, Steps
<1>11. CASE Stop(j)
  BY <1>1, <1>2, <1>11 DEF Stop, Steps
<1>12. CASE SpawnNew(j)
  BY <1>2, <1>12 DEF SpawnNew, Steps
<1>13. CASE SetReady(j)
  BY <1>1, <1>13 DEF SetReady, Steps
<1>. QED
  BY <1>4, <1>5, <1>6, <1>7, <1>8, <1>9, <1>10, <1>11, <1>12, <1>13
     DEF JobStep, SpawnFails, FoundCrashed, TimedOut

\* Every step keeps the flag the lock of the busy tasks: only a won CAS makes a
\* task busy, only Release frees one.
LEMMA FlagStep ==
  ASSUME TypeOK, JobsOK, FlagExclusive, [Next]_vars
  PROVE  FlagExclusive'
<1>. USE DEF FlagExclusive
<1>1. ASSUME switching' = switching, UNCHANGED job PROVE FlagExclusive'
  BY <1>1 DEF Busy
<1>2. ASSUME NEW j \in Jobs, JobStep(j) \/ Cancel(j) PROVE FlagExclusive'
  BY <1>2, JobStepBusy
<1>3. ASSUME NEW t \in Tasks, NEW kind \in TaskKinds, NEW pc, NEW p, NEW cfg,
             Begin(t, kind, pc, p, cfg), ~switching, switching' = TRUE
      PROVE  FlagExclusive'
  <2>1. Busy(t)' /\ \A u \in Tasks \ {t} : ~Busy(u)'
    BY <1>3 DEF Begin, Busy, TypeOK, SupTypeOK, Jobs, TaskKinds
  <2>. QED
    BY <1>3, <2>1
<1>4. ASSUME NEW j \in Admins, NEW kind, NEW pc, NEW p, NEW cfg,
             Begin(j, kind, pc, p, cfg), switching' = switching
      PROVE  FlagExclusive'
  BY <1>4, JobsAssumption DEF Begin, Busy, TypeOK, SupTypeOK, Jobs
<1>5. ASSUME NEW h \in Clients, Trigger(h) PROVE FlagExclusive'
  BY <1>1, <1>3, <1>5 DEF Trigger, TaskKinds
<1>6. CASE WdRecover
  BY <1>3, <1>6 DEF WdRecover, TaskKinds
<1>7. ASSUME NEW j \in Admins,
             AdminRestart(j) \/ \E m \in Models, ctx \in Ctxs \cup {NoCtx} : AdminLoad(j, m, ctx)
      PROVE  FlagExclusive'
  BY <1>4, <1>7 DEF AdminRestart, AdminLoad
<1>8. CASE \/ ChildStep /\ UNCHANGED supVars
           \/ WdTick \/ WdSnap \/ WdSeesCrash \/ WdSeesNoCrash \/ WdLosesCas
           \/ TimePasses \/ Touch
           \/ \E h \in Clients, m \in Models : Resolve(h, m)
           \/ \E h \in Borrowers : Lend(h) \/ Return(h)
           \/ UNCHANGED vars
  BY <1>1, <1>8 DEF WdTick, WdSnap, WdSeesCrash, WdSeesNoCrash, WdLosesCas, TimePasses, Touch,
                    Resolve, Lend, Return, vars
<1>. QED
  BY <1>2, <1>5, <1>6, <1>7, <1>8 DEF Next, Supervise, Handle, WdStep

\* At any time at most one switch or recovery is under way, and the flag says
\* exactly whether one is.
THEOREM FlagIsALock == Spec => []FlagExclusive
<1>1. Init => TypeOK /\ JobsOK /\ FlagExclusive
  BY InitType
<1>2. TypeOK /\ JobsOK /\ FlagExclusive /\ [Next]_vars
        => TypeOK' /\ JobsOK' /\ FlagExclusive'
  BY NextType, FlagStep
<1>. QED
  BY <1>1, <1>2, PTL DEF Spec

-----------------------------------------------------------------------------
(* What the flag promises.  The admin routes bypass the flag, so this part *)
(* is about a server whose admin routes are not used.                      *)

NoAdminJob == \A j \in Admins : job[j].kind = "none"

\* A job that steps is busy, and the other jobs stay as they are.
LEMMA JobStepAlone ==
  ASSUME TypeOK, JobsOK, NEW j \in Jobs, JobStep(j) \/ Cancel(j)
  PROVE  /\ Busy(j)
         /\ \A k \in Jobs \ {j} : job'[k] = job[k]
<1>t. job \in [Jobs -> Job] /\ job[j] \in Job /\ JobShape(j)
  BY DEF TypeOK, SupTypeOK, JobsOK
<1>1. job[j].pc # "idle"
  BY DEF JobStep, Cancel, Snap, Kill, Stop, Publish, SpawnNew, SpawnAgain, SpawnFails,
         SetStarting, FoundCrashed, FoundAlive, PollOk, PollFails, TimedOut, Sleep, SetReady,
         Install, Backoff, Release, At
<1>2. Busy(j)
  BY <1>t, <1>1 DEF JobShape, Busy
<1>3. ASSUME NEW s, Goto(j, s) PROVE \A k \in Jobs \ {j} : job'[k] = job[k]
  BY <1>t, <1>3 DEF Goto
<1>4. ASSUME NEW s, NEW p, Take(j, s, p) PROVE \A k \in Jobs \ {j} : job'[k] = job[k]
  BY <1>t, <1>4 DEF Take
<1>5. ASSUME Done(j) PROVE \A k \in Jobs \ {j} : job'[k] = job[k]
  BY <1>t, <1>5 DEF Done
<1>6. CASE Snap(j) \/ Kill(j) \/ Stop(j) \/ Publish(j) \/ SpawnNew(j) \/ SpawnAgain(j)
           \/ SetStarting(j)
  BY <1>2, <1>3, <1>4, <1>6 DEF Snap, Kill, Stop, Publish, SpawnNew, SpawnAgain, SetStarting
<1>7. CASE FoundAlive(j) \/ PollOk(j) \/ PollFails(j) \/ Sleep(j) \/ SetReady(j)
  BY <1>2, <1>3, <1>7 DEF FoundAlive, PollOk, PollFails, Sleep, SetReady
<1>8. CASE SpawnFails(j) \/ FoundCrashed(j) \/ TimedOut(j)
  BY <1>2, <1>3, <1>4, <1>5, <1>8 DEF SpawnFails, FoundCrashed, TimedOut, Fail
<1>9. CASE Install(j) \/ Release(j) \/ Cancel(j)
  BY <1>2, <1>4, <1>5, <1>9 DEF Install, Release, Cancel
<1>10. CASE Backoff(j)
  BY <1>t, <1>2, <1>10 DEF Backoff
<1>. QED
  BY <1>6, <1>7, <1>8, <1>9, <1>10 DEF JobStep

\* A new job takes one slot and leaves the others as they are.
LEMMA BeginAlone ==
  ASSUME TypeOK, NEW j \in Jobs, NEW kind, NEW pc, NEW p, NEW cfg, Begin(j, kind, pc, p, cfg)
  PROVE  /\ job'[j].kind = kind /\ job'[j].pc = pc
         /\ \A k \in Jobs \ {j} : job'[k] = job[k]
BY DEF Begin, TypeOK, SupTypeOK

\* The steps that leave the jobs and the published state alone.
Aside ==
  \/ ChildStep /\ UNCHANGED supVars
  \/ WdTick \/ WdSnap \/ WdSeesCrash \/ WdSeesNoCrash \/ WdLosesCas
  \/ TimePasses \/ Touch
  \/ \E h \in Clients : (Trigger(h) /\ switching) \/ \E m \in Models : Resolve(h, m)
  \/ \E h \in Borrowers : Lend(h) \/ Return(h)
  \/ UNCHANGED vars

\* A win of the flag's compare-exchange, by a switch or by a recovery.
Wins(t) ==
  /\ ~switching /\ switching' = TRUE
  /\ \/ wd' = wd /\ \E cfg \in Configs : Begin(t, "switch", "snap", NoProc, cfg)
     \/ wd.pc = "cas" /\ Begin(t, "recover", "kill", wd.proc, NoConfig)
  /\ UNCHANGED <<procVars, current, config>>

\* Without the admin routes only a task steps, a task begins, or something else does.
LEMMA WithoutAdmins ==
  ASSUME TypeOK, JobsOK, NoAdminJob, AdminOps = {}, [Next]_vars
  PROVE  \/ \E t \in Tasks : JobStep(t)
         \/ \E t \in Tasks : Wins(t)
         \/ Aside
<1>1. ASSUME NEW j \in Jobs, JobStep(j) \/ Cancel(j) PROVE j \in Tasks /\ JobStep(j)
  <2>1. j \notin Admins
    BY <1>1, JobStepAlone DEF NoAdminJob, Busy
  <2>. QED
    BY <1>1, <2>1 DEF Jobs, Cancel
<1>2. ASSUME NEW h \in Clients, Trigger(h), ~switching PROVE \E t \in Tasks : Wins(t)
  BY <1>2 DEF Trigger, Wins, TypeOK, SupTypeOK
<1>3. CASE WdRecover
  BY <1>3 DEF WdRecover, Wins
<1>4. ASSUME NEW j \in Admins PROVE ~AdminRestart(j) /\ \A m, ctx : ~AdminLoad(j, m, ctx)
  BY DEF AdminRestart, AdminLoad
<1>. QED
  BY <1>1, <1>2, <1>3, <1>4 DEF Next, Supervise, Handle, WdStep, Aside

\* Nothing puts a job into an admin slot.
LEMMA AdminsStayAway ==
  ASSUME TypeOK, JobsOK, NoAdminJob, AdminOps = {}, [Next]_vars
  PROVE  NoAdminJob'
<1>1. ASSUME NEW t \in Tasks, JobStep(t) PROVE NoAdminJob'
  BY <1>1, JobStepAlone, JobsAssumption DEF NoAdminJob, Jobs
<1>2. ASSUME NEW t \in Tasks, Wins(t) PROVE NoAdminJob'
  <2>1. \A k \in Jobs \ {t} : job'[k] = job[k]
    BY <1>2, BeginAlone DEF Wins, Jobs
  <2>. QED
    BY <2>1, JobsAssumption DEF NoAdminJob, Jobs
<1>3. CASE Aside
  BY <1>3 DEF Aside, WdTick, WdSnap, WdSeesCrash, WdSeesNoCrash, WdLosesCas, TimePasses, Touch,
              Trigger, Resolve, Lend, Return, vars, NoAdminJob
<1>. QED
  BY <1>1, <1>2, <1>3, WithoutAdmins

\* How far the task t, which holds the flag, has come.
Stage(t) ==
  IF At(t, "release") THEN "done"
  ELSE IF job[t].kind = "switch" /\ ~(job[t].pc \in {"snap", "kill", "mark", "config"})
       THEN "published" ELSE "held"

\* While t is busy nobody else is, and the phase is the stage of t.
LEMMA StageIsPhase ==
  ASSUME FlagExclusive, NEW t \in Tasks, Busy(t)
  PROVE  {u \in Tasks : Busy(u)} = {t} /\ Phase = Stage(t)
<1>1. \A u \in Tasks : Busy(u) => u = t
  BY DEF FlagExclusive
<1>2. {u \in Tasks : Busy(u)} = {t}
  BY <1>1
<1>3. \A u \in Tasks : job[u].kind = "switch" => u = t
  BY <1>1 DEF Busy
<1>4. Phase = Stage(t)
  BY <1>1, <1>3 DEF Phase, Stage
<1>. QED
  BY <1>2, <1>4

\* While nobody is busy the phase is free.
LEMMA FreePhase ==
  ASSUME \A t \in Tasks : ~Busy(t)
  PROVE  {u \in Tasks : Busy(u)} = {} /\ Phase = "free"
<1>1. \A t \in Tasks : job[t].kind # "switch"
  BY DEF Busy
<1>. QED
  BY <1>1 DEF Phase

\* Every step of a task is a step of BackendSwap or leaves its view alone.
LEMMA TaskStepSwaps ==
  ASSUME TypeOK, JobsOK, FlagExclusive, FlagExclusive', NEW t \in Tasks, JobStep(t)
  PROVE  Swap!Next \/ UNCHANGED Swap!vars
<1>. DEFINE Seen == config' = config /\ current' = current
<1>t. /\ t \in Jobs /\ job \in [Jobs -> Job] /\ job[t] \in Job /\ JobShape(t)
      /\ job[t].kind \in {"none", "switch", "recover"}
      /\ current \in Procs /\ job[t].cfg \in Configs \cup {NoConfig}
  BY DEF TypeOK, SupTypeOK, JobsOK, JobShape, Jobs, TaskKinds, Job
<1>b. Busy(t)
  BY <1>t, JobStepAlone
<1>k. job[t].kind \in {"switch", "recover"}
  BY <1>t, <1>b DEF Busy
<1>h. {u \in Tasks : Busy(u)} = {t} /\ Phase = Stage(t)
  BY <1>b, StageIsPhase
<1>n. ASSUME Busy(t)'
      PROVE  {u \in Tasks : Busy(u)}' = {t} /\ Phase' = Stage(t)'
  <2>1. \A u \in Tasks : Busy(u)' => u = t
    BY <1>n DEF FlagExclusive
  <2>2. {u \in Tasks : Busy(u)}' = {t}
    BY <1>n, <2>1
  <2>3. \A u \in Tasks : job'[u].kind = "switch" => u = t
    BY <2>1 DEF Busy
  <2>4. Phase' = Stage(t)'
    BY <1>n, <2>1, <2>3 DEF Phase, Stage
  <2>. QED
    BY <2>2, <2>4
<1>s. ASSUME Busy(t)', Stage(t)' = Stage(t), Seen PROVE UNCHANGED Swap!vars
  BY <1>h, <1>n, <1>s DEF Swap!vars
<1>f. ASSUME Busy(t)', Stage(t) \in {"held", "published"}, Stage(t)' = "done", Seen
      PROVE  Swap!Next
  BY <1>h, <1>n, <1>f DEF Swap!Next, Swap!Finish
<1>1. CASE Snap(t)
  BY <1>s, <1>t, <1>k, <1>1, TakeFacts DEF Snap, Stage, At, Busy, Steps
<1>2. CASE Kill(t) \/ SpawnAgain(t) \/ SetStarting(t) \/ FoundAlive(t)
           \/ PollOk(t) \/ PollFails(t) \/ Sleep(t)
  <2>1. /\ Seen
        /\ \E s \in Steps : Goto(t, s) /\ s # "release"
             /\ \/ job[t].kind = "recover"
                \/ s = "mark" /\ At(t, "kill")
                \/ /\ ~(s \in {"snap", "kill", "mark", "config"})
                   /\ ~(job[t].pc \in {"snap", "kill", "mark", "config", "release"})
    BY <1>2 DEF Kill, SpawnAgain, SetStarting, FoundAlive, PollOk, PollFails, Sleep, Steps, At
  <2>2. ~At(t, "release")
    BY <1>2 DEF Kill, SpawnAgain, SetStarting, FoundAlive, PollOk, PollFails, Sleep, At
  <2>. QED
    BY <1>s, <1>t, <1>k, <2>1, <2>2, GotoFacts DEF Stage, At, Busy
<1>3. CASE Stop(t)
  <2>1. CASE job[t].kind = "recover"
    BY <1>s, <1>t, <1>3, <2>1, GotoFacts DEF Stop, Stage, At, Busy, Steps
  <2>2. CASE job[t].kind = "switch"
    BY <1>s, <1>t, <1>3, <2>2, TakeFacts DEF Stop, Stage, At, Busy, Steps
  <2>. QED
    BY <1>k, <2>1, <2>2
<1>4. CASE Publish(t)
  <2>1. job[t].kind = "switch" /\ job[t].cfg \in Configs
    BY <1>t, <1>k, <1>4 DEF Publish, At, JobShape
  <2>2. Stage(t) = "held" /\ Busy(t)' /\ Stage(t)' = "published"
    BY <1>t, <1>4, <2>1, GotoFacts DEF Publish, Stage, At, Busy, Steps
  <2>3. config' \in Configs /\ current' = current
    BY <1>4, <2>1 DEF Publish
  <2>. QED
    BY <1>h, <1>n, <2>2, <2>3 DEF Swap!Next, Swap!Publish
<1>5. CASE SpawnNew(t)
  BY <1>s, <1>t, <1>k, <1>5, TakeFacts DEF SpawnNew, Stage, At, Busy, Steps
<1>6. CASE SpawnFails(t) \/ FoundCrashed(t) \/ TimedOut(t)
  <2>1. Fail(t) /\ job[t].pc \in {"spawn", "check", "late"}
    BY <1>6 DEF SpawnFails, FoundCrashed, TimedOut, At
  <2>2. CASE job[t].kind = "recover"
    <3>1. Goto(t, "backoff") \/ Goto(t, "release")
      BY <2>1, <2>2 DEF Fail, AdminKinds
    <3>2. Stage(t) = "held" /\ Seen
      BY <2>1, <2>2 DEF Stage, At, Fail
    <3>3. CASE Goto(t, "backoff")
      BY <1>s, <1>t, <2>2, <3>2, <3>3, GotoFacts DEF Stage, At, Busy, Steps
    <3>4. CASE Goto(t, "release")
      BY <1>f, <1>t, <2>2, <3>2, <3>4, GotoFacts DEF Stage, At, Busy, Steps
    <3>. QED
      BY <3>1, <3>3, <3>4
  <2>3. CASE job[t].kind = "switch"
    <3>1. Take(t, "release", NoProc) /\ Seen
      BY <2>1, <2>3 DEF Fail, AdminKinds
    <3>2. Stage(t) = "published"
      BY <2>1, <2>3 DEF Stage, At
    <3>3. Busy(t)' /\ Stage(t)' = "done"
      BY <1>t, <2>3, <3>1, TakeFacts DEF Stage, At, Busy, Steps
    <3>. QED
      BY <1>f, <3>1, <3>2, <3>3
  <2>. QED
    BY <1>k, <2>2, <2>3
<1>7. CASE SetReady(t)
  <2>1. At(t, "ready") /\ Seen
    BY <1>7 DEF SetReady
  <2>2. CASE job[t].kind = "recover"
    <3>1. Goto(t, "release") /\ Stage(t) = "held"
      BY <1>7, <2>1, <2>2 DEF SetReady, Stage, At
    <3>2. Busy(t)' /\ Stage(t)' = "done"
      BY <1>t, <2>2, <3>1, GotoFacts DEF Stage, At, Busy, Steps
    <3>. QED
      BY <1>f, <2>1, <3>1, <3>2
  <2>3. CASE job[t].kind = "switch"
    <3>1. Goto(t, "install") /\ Stage(t) = "published"
      BY <1>7, <2>1, <2>3 DEF SetReady, Stage, At
    <3>2. Busy(t)' /\ Stage(t)' = "published"
      BY <1>t, <2>3, <3>1, GotoFacts DEF Stage, At, Busy, Steps
    <3>. QED
      BY <1>s, <2>1, <3>1, <3>2
  <2>. QED
    BY <1>k, <2>2, <2>3
<1>8. CASE Install(t)
  <2>1. /\ job[t].kind = "switch" /\ job[t].proc \in Procs
        /\ current' = job[t].proc /\ config' = config /\ Take(t, "release", NoProc)
    BY <1>t, <1>k, <1>8 DEF Install, At, JobShape, Starting
  <2>2. Stage(t) = "published"
    BY <1>8, <2>1 DEF Install, Stage, At
  <2>3. Busy(t)' /\ Stage(t)' = "done"
    BY <1>t, <2>1, TakeFacts DEF Stage, At, Busy, Steps
  <2>. QED
    BY <1>h, <1>n, <2>1, <2>2, <2>3 DEF Swap!Next, Swap!Install
<1>9. CASE Backoff(t)
  <2>1. job[t].kind = "recover" /\ At(t, "backoff") /\ Seen
    BY <1>t, <1>9 DEF Backoff, At, JobShape
  <2>2. job'[t].kind = "recover" /\ job'[t].pc = "kill"
    BY <1>t, <1>9, <2>1 DEF Backoff, Job
  <2>. QED
    BY <1>s, <2>1, <2>2 DEF Stage, At, Busy
<1>10. CASE Release(t)
  <2>1. At(t, "release") /\ Done(t) /\ Seen
    BY <1>10 DEF Release
  <2>2. \A u \in Tasks : ~Busy(u)'
    BY <1>t, <1>h, <2>1, DoneFacts DEF Busy, NoJob, Jobs
  <2>3. {u \in Tasks : Busy(u)}' = {} /\ Phase' = "free"
    <3>1. \A u \in Tasks : job'[u].kind # "switch"
      BY <2>2 DEF Busy
    <3>. QED
      BY <2>2, <3>1 DEF Phase
  <2>4. Stage(t) = "done"
    BY <2>1 DEF Stage
  <2>. QED
    BY <1>h, <2>1, <2>3, <2>4 DEF Swap!Next, Swap!Release
<1>. QED
  BY <1>1, <1>2, <1>3, <1>4, <1>5, <1>6, <1>7, <1>8, <1>9, <1>10 DEF JobStep

\* A task that wins the flag acquires it.
LEMMA WinsAcquires ==
  ASSUME TypeOK, FlagExclusive, FlagExclusive', NEW t \in Tasks, Wins(t)
  PROVE  Swap!Next
<1>1. {u \in Tasks : Busy(u)} = {}
  BY DEF FlagExclusive, Wins
<1>2. job'[t].kind \in {"switch", "recover"} /\ job'[t].pc \in {"snap", "kill"}
  BY BeginAlone DEF Wins, Jobs
<1>3. \A u \in Tasks : Busy(u)' => u = t
  BY <1>2 DEF FlagExclusive, Busy
<1>4. {u \in Tasks : Busy(u)}' = {t}
  BY <1>2, <1>3 DEF Busy
<1>5. Phase' = "held"
  BY <1>2, <1>3 DEF Phase, Busy, At
<1>6. config' = config /\ current' = current
  BY DEF Wins
<1>. QED
  BY <1>1, <1>4, <1>5, <1>6 DEF Swap!Next, Swap!Acquire

\* Everything else is a stutter of BackendSwap.
LEMMA AsideStutters ==
  ASSUME Aside
  PROVE  UNCHANGED Swap!vars
<1>1. UNCHANGED <<job, config, current>>
  BY DEF Aside, WdTick, WdSnap, WdSeesCrash, WdSeesNoCrash, WdLosesCas, TimePasses, Touch,
         Trigger, Resolve, Lend, Return, vars
<1>2. {u \in Tasks : Busy(u)}' = {u \in Tasks : Busy(u)} /\ Phase' = Phase
  BY <1>1 DEF Busy, Phase, At
<1>. QED
  BY <1>1, <1>2 DEF Swap!vars

\* What the proofs below need of every state.
SwapInv == TypeOK /\ JobsOK /\ FlagExclusive /\ NoAdminJob

\* It holds at the start, with every slot empty.
LEMMA SwapInvInit ==
  ASSUME Init
  PROVE  SwapInv
<1>1. NoAdminJob
  BY DEF Init, NoAdminJob, NoJob, Jobs
<1>. QED
  BY <1>1, InitType DEF SwapInv

\* Every step keeps it.
LEMMA SwapInvStep ==
  ASSUME AdminOps = {}, SwapInv, [Next]_vars
  PROVE  SwapInv'
BY NextType, FlagStep, AdminsStayAway DEF SwapInv

\* Switches and recoveries implement BackendSwap: one holder of the flag at a
\* time, which publishes at most once and installs at most once, in this order;
\* nobody else writes the configuration or the process (mod.rs:136 to 190).
THEOREM SwapsKeepThePromise ==
  ASSUME AdminOps = {}
  PROVE  Spec => SwapSpec
<1>1. Init => SwapInv
  BY SwapInvInit
<1>2. SwapInv /\ [Next]_vars => SwapInv'
  BY SwapInvStep
<1>3. Init => Swap!Init
  <2>. SUFFICES ASSUME Init PROVE Swap!Init
    OBVIOUS
  <2>1. \A t \in Tasks : ~Busy(t)
    BY DEF Init, Busy, NoJob, Jobs
  <2>. QED
    BY <2>1, FreePhase, Config0Assumption DEF Init, Swap!Init
<1>4. SwapInv /\ SwapInv' /\ [Next]_vars => [Swap!Next]_(Swap!vars)
  BY WithoutAdmins, TaskStepSwaps, WinsAcquires, AsideStutters DEF SwapInv
<1>. QED
  BY <1>1, <1>2, <1>3, <1>4, PTL DEF Spec, SwapSpec, Swap!Spec

\* While the flag is down nobody swaps the process or takes its child away: what
\* is dropped then is never the current process.
THEOREM ServedUndisturbed ==
  ASSUME AdminOps = {}
  PROVE  Spec => ServingUndisturbed
<1>1. Init => SwapInv
  BY SwapInvInit
<1>2. SwapInv /\ [Next]_vars => SwapInv'
  BY SwapInvStep
<1>. DEFINE Quiet == ~switching /\ ~switching' => current' = current /\ child'[current] = child[current]
<1>3. ASSUME SwapInv, [Next]_vars, ~switching, ~switching'
      PROVE  current' = current /\ child'[current] = child[current]
  <2>t. current \in Procs /\ current # NoProc /\ child \in [Procs -> Children \cup {NoChild}]
    BY <1>3, NoProcAssumption DEF SwapInv, TypeOK, SupTypeOK, ProcTypeOK
  <2>1. Aside
    <3>1. ASSUME NEW t \in Tasks PROVE ~JobStep(t) /\ ~Wins(t)
      BY <1>3, JobStepAlone DEF SwapInv, FlagExclusive, Wins, Jobs
    <3>. QED
      BY <1>3, <3>1, WithoutAdmins DEF SwapInv
  <2>2. ASSUME NEW st, DropAllBut(Live', st), current' = current
        PROVE  child'[current] = child[current]
    BY <2>t, <2>2 DEF DropAllBut, Live
  <2>3. CASE WdSeesNoCrash \/ WdLosesCas \/ \E h \in Borrowers : Return(h)
    BY <2>2, <2>3 DEF WdSeesNoCrash, WdLosesCas, Return
  <2>4. CASE ChildStep /\ UNCHANGED supVars
    BY <2>4 DEF ChildStep, ReaderEof, ReaderGivesUp, ReaderEnds, Boot, Exit
  <2>. QED
    BY <2>1, <2>3, <2>4 DEF Aside, WdTick, WdSnap, WdSeesCrash, TimePasses, Touch, Trigger, Resolve,
                      Lend, vars
<1>4. SwapInv /\ [Next]_vars => [Quiet]_vars
  BY <1>3
<1>. QED
  BY <1>1, <1>2, <1>4, PTL DEF Spec, ServingUndisturbed

-----------------------------------------------------------------------------
(***************************************************************************)
(* Who owns which llama-server: no step of Supervisor leaves a running     *)
(* child without an owner, or with two.                                    *)
(*                                                                         *)
(* NoOrphan and HandlesSound are not inductive.  The invariant below adds  *)
(* that a slot nothing refers to is empty, that every referenced slot is   *)
(* taken, that only living children are marked as signalled, that a job    *)
(* holds no process where its next step overwrites the reference, and that *)
(* a recovery has no child where its next step overwrites the handle.      *)
(* The last part shows that at most one llama-server runs at a time.       *)
(***************************************************************************)


Owned ==
  /\ \A p \in Procs \ Live : child[p] = NoChild /\ cfgOf[p] = NoConfig
  /\ \A p \in Procs \cap Live : cfgOf[p] # NoConfig
  /\ \A p \in Procs : child[p] # NoChild => child[p] \notin signalled
  /\ \A p, q \in Procs : child[p] # NoChild /\ child[q] = child[p] => q = p
  /\ \A c \in Children : Alive(c) /\ c \notin signalled => \E p \in Procs : child[p] = c
  /\ \A c \in signalled : Alive(c)

EmptyHanded(j) ==
  job[j].pc \in {"idle", "snap"} \/ (job[j].pc \in {"config", "spawn"} /\ job[j].kind # "recover")
    => job[j].proc = NoProc

Bare(j) ==
  job[j].kind = "recover" /\ job[j].pc \in {"mark", "spawn"} => child[job[j].proc] = NoChild

RefsOK == \A j \in Jobs : EmptyHanded(j) /\ Bare(j)

OwnInv == TypeOK /\ JobsOK /\ FlagExclusive /\ Owned /\ RefsOK

-----------------------------------------------------------------------------
(* The references.                                                         *)

\* The references are to processes.
LEMMA LiveProcs ==
  ASSUME TypeOK
  PROVE  Live \subseteq Procs
BY NoProcAssumption DEF TypeOK, SupTypeOK, Live, Job, Watchdog

\* The processes in use change only when a reference does.
LEMMA LiveSame ==
  ASSUME UNCHANGED <<current, wd, lent>>, \A k \in Jobs : job'[k].proc = job[k].proc
  PROVE  Live' = Live
BY DEF Live

\* A job that moves without touching its reference.
LEMMA LiveGoto ==
  ASSUME TypeOK, NEW j \in Jobs, NEW s \in Steps, Goto(j, s), UNCHANGED <<current, wd, lent>>
  PROVE  Live' = Live
BY GotoFacts, LiveSame DEF TypeOK, SupTypeOK

-----------------------------------------------------------------------------
(* Owned under each of the operations on a LlamaProcess.                   *)

\* A step that touches neither references, handles nor the operating system.
LEMMA OwnedKeep ==
  ASSUME Owned, Live' = Live, UNCHANGED <<child, cfgOf, os, signalled>>
  PROVE  Owned'
BY DEF Owned, Alive

\* The last reference to some processes goes: their children are told to exit.
LEMMA OwnedDrop ==
  ASSUME TypeOK, Owned, Live' \subseteq Live, NEW st, DropAllBut(Live', st)
  PROVE  Owned'
<1>. DEFINE L == Live'
<1>1. /\ signalled' = signalled \cup
            {c \in Children : Alive(c) /\ \E p \in Procs \ L : child[p] = c}
      /\ child' = [p \in Procs |-> IF p \in L THEN child[p] ELSE NoChild]
      /\ cfgOf' = [p \in Procs |-> IF p \in L THEN cfgOf[p] ELSE NoConfig]
      /\ os' = os
  BY DEF DropAllBut
<1>2. \A p \in Procs \ L : child'[p] = NoChild /\ cfgOf'[p] = NoConfig
  BY <1>1
<1>3. \A p \in Procs \cap L : child'[p] = child[p] /\ cfgOf'[p] = cfgOf[p]
  BY <1>1
<1>4. \A c \in signalled' \ signalled : Alive(c) /\ \E p \in Procs \ L : child[p] = c
  BY <1>1
<1>5. \A p \in Procs : child'[p] # NoChild => child'[p] \notin signalled'
  <2>. SUFFICES ASSUME NEW p \in Procs, child'[p] # NoChild PROVE child'[p] \notin signalled'
    OBVIOUS
  <2>1. p \in L /\ child'[p] = child[p]
    BY <1>2, <1>3
  <2>2. child[p] \notin signalled
    BY <2>1 DEF Owned
  <2>3. \A q \in Procs \ L : child[q] # child[p]
    BY <2>1 DEF Owned
  <2>. QED
    BY <2>1, <2>2, <2>3, <1>4
<1>6. \A p, q \in Procs : child'[p] # NoChild /\ child'[q] = child'[p] => q = p
  BY <1>2, <1>3 DEF Owned
<1>7. ASSUME NEW c \in Children, Alive(c), c \notin signalled'
      PROVE  \E p \in Procs : child'[p] = c
  <2>1. PICK p \in Procs : child[p] = c
    BY <1>1, <1>7 DEF Owned
  <2>2. p \in L
    BY <1>1, <1>7, <2>1
  <2>. QED
    BY <1>3, <2>1, <2>2
<1>8. \A c \in signalled' : Alive(c)
  BY <1>4 DEF Owned
<1>. QED
  BY <1>1, <1>2, <1>3, <1>5, <1>6, <1>7, <1>8 DEF Owned, Alive

\* A child boots or exits, or a stderr reader ends.
LEMMA OwnedChild ==
  ASSUME TypeOK, Owned, Live' = Live, ChildStep
  PROVE  Owned'
<1>1. ASSUME NEW c \in Children, ReaderEnds(c) PROVE Owned'
  BY <1>1, OwnedKeep DEF ReaderEnds
<1>2. ASSUME NEW c \in Children, Boot(c) PROVE Owned'
  BY <1>2 DEF Boot, Owned, Alive, TypeOK, ProcTypeOK
<1>3. ASSUME NEW c \in Children, Exit(c) PROVE Owned'
  BY <1>3 DEF Exit, Owned, Alive, TypeOK, ProcTypeOK
<1>. QED
  BY <1>1, <1>2, <1>3 DEF ChildStep, ReaderEof, ReaderGivesUp

\* kill() gives the handle up and tells the child to exit.
LEMMA OwnedKill ==
  ASSUME TypeOK, Owned, Live' = Live, NEW p \in Procs, KillSignal(p)
  PROVE  Owned'
BY DEF KillSignal, Owned, Alive, TypeOK, ProcTypeOK

\* start() makes a process in use that owns a child nobody owned.
LEMMA OwnedStart ==
  ASSUME TypeOK, Owned, NEW p \in Procs, NEW c \in Children, NEW cfg \in Configs,
         StartSpawn(p, c, cfg), Live' = Live \cup {p}
  PROVE  Owned'
<1>1. p \notin Live /\ child[p] = NoChild
  BY DEF StartSpawn, FreshProc, Owned
<1>2. c \notin signalled /\ \A q \in Procs : child[q] # c
  BY NoChildAssumption DEF StartSpawn, FreshChild, Owned, Handles
<1>. QED
  BY <1>1, <1>2, NoChildAssumption, NoConfigAssumption
     DEF StartSpawn, Owned, Alive, TypeOK, ProcTypeOK

\* restart() gives a process that has no child a child nobody owned.
LEMMA OwnedRespawn ==
  ASSUME TypeOK, Owned, NEW p \in Procs, p \in Live, child[p] = NoChild, NEW c \in Children,
         Respawn(p, c), Live' = Live
  PROVE  Owned'
<1>1. c \notin signalled /\ \A q \in Procs : child[q] # c
  BY NoChildAssumption DEF Respawn, FreshChild, Owned, Handles
<1>. QED
  BY <1>1, NoChildAssumption DEF Respawn, Owned, Alive, TypeOK, ProcTypeOK

-----------------------------------------------------------------------------
(* The steps of a job.                                                     *)

\* Every step of a job keeps the ownership of the children.
LEMMA JobStepOwned ==
  ASSUME OwnInv, NEW j \in Jobs, JobStep(j) \/ Cancel(j)
  PROVE  Owned'
<1>. USE DEF OwnInv
<1>t. /\ job \in [Jobs -> Job] /\ job[j] \in Job
      /\ JobShape(j) /\ EmptyHanded(j) /\ Bare(j)
      /\ current \in Procs
      /\ Live \subseteq Procs
  BY LiveProcs DEF TypeOK, SupTypeOK, JobsOK, RefsOK
<1>l. job[j].proc \in Procs => job[j].proc \in Live
  BY NoProcAssumption DEF Live
<1>1. CASE FoundAlive(j) \/ PollOk(j) \/ PollFails(j) \/ Sleep(j) \/ Publish(j)
           \/ SetStarting(j) \/ SetReady(j)
  <2>1. Live' = Live
    BY <1>1, LiveGoto DEF FoundAlive, PollOk, PollFails, Sleep, Publish, SetStarting, SetReady,
                          Steps
  <2>. QED
    BY <1>1, <2>1, OwnedKeep DEF FoundAlive, PollOk, PollFails, Sleep, Publish, SetStarting,
                                 SetReady, MarkStarting, MarkReady
<1>2. CASE Snap(j)
  <2>1. Live' = Live
    <3>1. job[j].proc = NoProc /\ job'[j].proc = current
          /\ \A k \in Jobs \ {j} : job'[k] = job[k]
      BY <1>t, <1>2, TakeFacts DEF Snap, At, EmptyHanded, Steps
    <3>. QED
      BY <1>2, <3>1 DEF Snap, Live
  <2>. QED
    BY <1>2, <2>1, OwnedKeep DEF Snap
<1>3. CASE Kill(j)
  <2>1. Live' = Live
    BY <1>3, LiveGoto DEF Kill, Steps
  <2>2. job[j].proc \in Procs
    BY <1>t, <1>3 DEF Kill, At, JobShape
  <2>. QED
    BY <1>3, <2>1, <2>2, OwnedKill DEF Kill
<1>4. CASE SpawnNew(j)
  <2>1. PICK p \in Procs, c \in Children :
          StartSpawn(p, c, job[j].cfg) /\ Take(j, "starting", p)
    BY <1>4 DEF SpawnNew
  <2>2. At(j, "spawn") /\ job[j].kind # "recover" /\ UNCHANGED <<current, wd, lent>>
    BY <1>4 DEF SpawnNew
  <2>3. job[j].cfg \in Configs
    BY <1>t, <2>2 DEF JobShape, At, Job, TaskKinds, AdminKinds
  <2>4. Live' = Live \cup {p}
    <3>1. job[j].proc = NoProc /\ job'[j].proc = p
          /\ \A k \in Jobs \ {j} : job'[k] = job[k]
      BY <1>t, <2>1, <2>2, TakeFacts DEF At, EmptyHanded, Steps
    <3>. QED
      BY <2>2, <3>1, NoProcAssumption DEF Live
  <2>. QED
    BY <2>1, <2>3, <2>4, OwnedStart
<1>5. CASE SpawnAgain(j)
  <2>1. PICK c \in Children : Respawn(job[j].proc, c)
    BY <1>5 DEF SpawnAgain
  <2>2. Live' = Live
    BY <1>5, LiveGoto DEF SpawnAgain, Steps
  <2>3. job[j].proc \in Procs /\ child[job[j].proc] = NoChild
    BY <1>t, <1>5 DEF SpawnAgain, At, JobShape, Bare
  <2>. QED
    BY <1>l, <2>1, <2>2, <2>3, OwnedRespawn
<1>6. CASE Backoff(j)
  <2>1. \A k \in Jobs : job'[k].proc = job[k].proc
    BY <1>t, <1>6 DEF Backoff, Job
  <2>. QED
    BY <1>6, <2>1, LiveSame, OwnedKeep DEF Backoff
<1>7. ASSUME NEW st, DropAllBut(Live', st), UNCHANGED <<current, wd, lent>>,
             \/ \E s \in Steps : Goto(j, s) \/ Take(j, s, NoProc)
             \/ Done(j)
      PROVE  Owned'
  <2>1. /\ job'[j].proc \in {job[j].proc, NoProc}
        /\ \A k \in Jobs \ {j} : job'[k] = job[k]
    BY <1>t, <1>7, GotoFacts, TakeFacts, DoneFacts DEF NoJob
  <2>2. Live' \subseteq Live
    BY <1>7, <2>1 DEF Live
  <2>. QED
    BY <1>7, <2>2, OwnedDrop
<1>8. CASE Stop(j)
  BY <1>7, <1>8 DEF Stop, Steps
<1>9. CASE Fail(j)
  BY <1>7, <1>9 DEF Fail, Steps
<1>10. CASE Release(j) \/ Cancel(j)
  BY <1>7, <1>10 DEF Release, Cancel
<1>11. CASE Install(j)
  <2>1. /\ current' = job[j].proc /\ job[j].proc \in Procs
        /\ UNCHANGED <<wd, lent>> /\ DropAllBut(Live', state)
    BY <1>t, <1>11 DEF Install, At, JobShape, Starting
  <2>2. /\ job'[j].proc = NoProc
        /\ \A k \in Jobs \ {j} : job'[k] = job[k]
    BY <1>t, <1>11, TakeFacts, DoneFacts DEF Install, NoJob, Steps
  <2>3. Live' \subseteq Live
    BY <2>1, <2>2 DEF Live
  <2>. QED
    BY <2>1, <2>3, OwnedDrop
<1>. QED
  BY <1>1, <1>2, <1>3, <1>4, <1>5, <1>6, <1>8, <1>9, <1>10, <1>11
     DEF JobStep, SpawnFails, FoundCrashed, TimedOut

\* The steps outside jobs.
LEMMA OtherOwned ==
  ASSUME OwnInv, Next, ~ \E j \in Jobs : JobStep(j) \/ Cancel(j)
  PROVE  Owned'
<1>. USE DEF OwnInv
<1>t. job \in [Jobs -> Job] /\ wd \in Watchdog /\ Live \subseteq Procs
  BY LiveProcs DEF TypeOK, SupTypeOK
<1>1. ASSUME NEW j \in Jobs, NEW kind, NEW pc, NEW cfg, Begin(j, kind, pc, NoProc, cfg),
             UNCHANGED <<procVars, current, wd, lent>>
      PROVE  Owned'
  <2>1. \A k \in Jobs : job'[k].proc = job[k].proc
    BY <1>t, <1>1 DEF Begin, NoJob
  <2>. QED
    BY <1>1, <2>1, LiveSame, OwnedKeep
<1>2. ASSUME NEW h \in Clients, Trigger(h) PROVE Owned'
  <2>1. CASE switching
    BY <1>2, <2>1, LiveSame, OwnedKeep DEF Trigger
  <2>2. CASE ~switching
    BY <1>1, <1>2, <2>2 DEF Trigger, Jobs
  <2>. QED
    BY <2>1, <2>2
<1>3. ASSUME NEW j \in Admins, AdminRestart(j) PROVE Owned'
  BY <1>1, <1>3 DEF AdminRestart, Jobs
<1>4. ASSUME NEW j \in Admins, NEW m \in Models, NEW ctx \in Ctxs \cup {NoCtx},
             AdminLoad(j, m, ctx)
      PROVE  Owned'
  BY <1>1, <1>4 DEF AdminLoad, Jobs
<1>5. CASE WdRecover
  <2>1. PICK t \in Tasks : Begin(t, "recover", "kill", wd.proc, NoConfig)
    BY <1>5 DEF WdRecover
  <2>2. /\ job[t].proc = NoProc /\ job'[t].proc = wd.proc
        /\ \A k \in Jobs \ {t} : job'[k] = job[k]
    BY <1>t, <2>1 DEF Begin, NoJob, Jobs
  <2>3. UNCHANGED <<procVars, current, lent>> /\ wd'.proc = NoProc
    BY <1>5 DEF WdRecover, WdForget
  <2>4. Live' = Live
    BY <2>2, <2>3 DEF Live, Jobs
  <2>. QED
    BY <2>3, <2>4, OwnedKeep
<1>6. CASE WdTick \/ WdSeesCrash
  <2>1. wd'.proc = wd.proc /\ UNCHANGED <<procVars, current, job, lent>>
    BY <1>t, <1>6 DEF WdTick, WdSeesCrash, Watchdog
  <2>2. Live' = Live
    BY <2>1 DEF Live
  <2>. QED
    BY <2>1, <2>2, OwnedKeep
<1>7. CASE WdSnap
  <2>1. wd.proc = NoProc /\ wd'.proc = current /\ UNCHANGED <<procVars, current, job, lent>>
    BY <1>t, <1>7 DEF WdSnap, Watchdog
  <2>2. Live' = Live
    BY <2>1 DEF Live
  <2>. QED
    BY <2>1, <2>2, OwnedKeep
<1>8. CASE WdSeesNoCrash \/ WdLosesCas
  <2>1. /\ wd'.proc = NoProc /\ UNCHANGED <<current, job, lent>>
        /\ DropAllBut(Live', state)
    BY <1>8 DEF WdSeesNoCrash, WdLosesCas, WdForget
  <2>2. Live' \subseteq Live
    BY <2>1 DEF Live
  <2>. QED
    BY <2>1, <2>2, OwnedDrop
<1>9. ASSUME NEW h \in Borrowers, Lend(h) PROVE Owned'
  <2>1. /\ lent[h] = NoProc /\ lent' = [lent EXCEPT ![h] = current]
        /\ UNCHANGED <<procVars, current, job, wd>>
    BY <1>9 DEF Lend
  <2>2. Live' = Live
    BY <2>1 DEF Live, TypeOK, SupTypeOK
  <2>. QED
    BY <2>1, <2>2, OwnedKeep
<1>10. ASSUME NEW h \in Borrowers, Return(h) PROVE Owned'
  <2>1. /\ lent' = [lent EXCEPT ![h] = NoProc]
        /\ UNCHANGED <<current, job, wd>> /\ DropAllBut(Live', state)
    BY <1>10 DEF Return
  <2>2. Live' \subseteq Live
    BY <2>1 DEF Live, TypeOK, SupTypeOK
  <2>. QED
    BY <2>1, <2>2, OwnedDrop
<1>11. CASE ChildStep /\ UNCHANGED supVars
  BY <1>11, LiveSame, OwnedChild
<1>12. CASE TimePasses \/ Touch \/ \E h \in Clients, m \in Models : Resolve(h, m)
  BY <1>12, LiveSame, OwnedKeep DEF TimePasses, Touch, Resolve
<1>. QED
  BY <1>2, <1>3, <1>4, <1>5, <1>6, <1>7, <1>8, <1>9, <1>10, <1>11, <1>12
     DEF Next, Supervise, Handle, WdStep

-----------------------------------------------------------------------------
(* What jobs hold before they overwrite it.                                *)

\* No step gives a child to a bare process, but the respawn of its recovery:
\* the process is referenced, and no other task recovers it.
LEMMA BareKept ==
  ASSUME OwnInv, Next, NEW k \in Jobs, Bare(k),
         job[k].kind = "recover", job[k].pc \in {"mark", "spawn"},
         ~ SpawnAgain(k)
  PROVE  child'[job[k].proc] = NoChild
<1>. DEFINE p == job[k].proc
<1>p. p \in Procs /\ p \in Live /\ child[p] = NoChild
  <2>1. p \in Procs
    BY DEF OwnInv, JobsOK, JobShape
  <2>. QED
    BY <2>1, NoProcAssumption DEF Bare, Live
<1>. HIDE DEF p
<1>. USE DEF OwnInv, TypeOK, ProcTypeOK
<1>1. ASSUME UNCHANGED child PROVE child'[p] = NoChild
  BY <1>1, <1>p
<1>2. ASSUME NEW live, NEW st, DropAllBut(live, st) PROVE child'[p] = NoChild
  BY <1>2, <1>p DEF DropAllBut
<1>3. ASSUME NEW q, KillSignal(q) PROVE child'[p] = NoChild
  BY <1>3, <1>p DEF KillSignal
<1>4. ASSUME NEW q \in Procs, NEW c, NEW cfg, StartSpawn(q, c, cfg) PROVE child'[p] = NoChild
  <2>1. q # p
    BY <1>4, <1>p DEF StartSpawn, FreshProc, Owned
  <2>. QED
    BY <1>4, <1>p, <2>1 DEF StartSpawn
<1>5. ASSUME NEW j \in Jobs, SpawnAgain(j) PROVE FALSE
  <2>1. j \in Tasks /\ k \in Tasks /\ Busy(j) /\ Busy(k)
    BY <1>5 DEF SpawnAgain, JobsOK, JobShape, Busy, Jobs, AdminKinds
  <2>. QED
    BY <1>5, <2>1 DEF FlagExclusive
<1>6. ASSUME NEW j \in Jobs, JobStep(j) \/ Cancel(j) PROVE child'[p] = NoChild
  BY <1>1, <1>2, <1>3, <1>4, <1>5, <1>6
     DEF JobStep, Snap, Kill, Stop, Publish, SpawnNew, SpawnFails, SetStarting, FoundCrashed,
         FoundAlive, PollOk, PollFails, TimedOut, Sleep, SetReady, Install, Backoff, Release,
         Cancel, Fail, MarkStarting, MarkReady
<1>7. ASSUME ChildStep PROVE child'[p] = NoChild
  BY <1>1, <1>7 DEF ChildStep, ReaderEof, ReaderGivesUp, ReaderEnds, Boot, Exit
<1>8. ASSUME WdStep PROVE child'[p] = NoChild
  BY <1>1, <1>2, <1>8 DEF WdStep, WdTick, WdSnap, WdSeesCrash, WdSeesNoCrash, WdRecover, WdLosesCas
<1>9. ASSUME Handle \/ TimePasses PROVE child'[p] = NoChild
  BY <1>1, <1>2, <1>9 DEF Handle, Resolve, Trigger, Touch, Lend, Return, TimePasses
<1>10. ASSUME NEW j \in Admins,
              AdminRestart(j) \/ \E m \in Models, ctx \in Ctxs \cup {NoCtx} : AdminLoad(j, m, ctx)
       PROVE  child'[p] = NoChild
  BY <1>1, <1>10 DEF AdminRestart, AdminLoad
<1>. QED
  BY <1>6, <1>7, <1>8, <1>9, <1>10 DEF Next, Supervise, p

\* The job that moves.
LEMMA JobStepRefs ==
  ASSUME OwnInv, NEW j \in Jobs, JobStep(j) \/ Cancel(j)
  PROVE  EmptyHanded(j)' /\ Bare(j)' /\ \A k \in Jobs \ {j} : job'[k] = job[k]
<1>t. /\ job \in [Jobs -> Job] /\ job[j] \in Job
      /\ JobShape(j) /\ EmptyHanded(j) /\ Bare(j)
      /\ current \in Procs
  BY DEF OwnInv, TypeOK, SupTypeOK, JobsOK, RefsOK
<1>1. ASSUME NEW s \in Steps \ {"idle", "snap", "config", "spawn", "mark"}, Goto(j, s)
      PROVE  EmptyHanded(j)' /\ Bare(j)' /\ \A k \in Jobs \ {j} : job'[k] = job[k]
  BY <1>t, <1>1, GotoFacts DEF EmptyHanded, Bare
<1>2. ASSUME NEW s \in Steps \ {"idle", "snap", "config", "spawn", "mark"},
             NEW p \in Procs \cup {NoProc}, Take(j, s, p)
      PROVE  EmptyHanded(j)' /\ Bare(j)' /\ \A k \in Jobs \ {j} : job'[k] = job[k]
  BY <1>t, <1>2, TakeFacts DEF EmptyHanded, Bare
<1>3. ASSUME Done(j)
      PROVE  EmptyHanded(j)' /\ Bare(j)' /\ \A k \in Jobs \ {j} : job'[k] = job[k]
  BY <1>t, <1>3, DoneFacts DEF EmptyHanded, Bare, NoJob
<1>4. CASE Snap(j)
  BY <1>t, <1>2, <1>4 DEF Snap, Steps
<1>5. CASE SpawnAgain(j) \/ SetStarting(j) \/ FoundAlive(j) \/ PollOk(j) \/ PollFails(j) \/ Sleep(j)
  BY <1>1, <1>5 DEF SpawnAgain, SetStarting, FoundAlive, PollOk, PollFails, Sleep, Steps
<1>6. CASE SetReady(j)
  BY <1>1, <1>6 DEF SetReady, Steps
<1>7. CASE SpawnNew(j)
  BY <1>2, <1>7 DEF SpawnNew, Steps
<1>8. CASE Install(j)
  BY <1>2, <1>3, <1>8 DEF Install, Steps
<1>9. CASE Fail(j)
  BY <1>1, <1>2, <1>3, <1>9 DEF Fail, Steps
<1>10. CASE Release(j) \/ Cancel(j)
  BY <1>3, <1>10 DEF Release, Cancel
<1>11. CASE Kill(j)
  <2>1. At(j, "kill") /\ Goto(j, "mark") /\ KillSignal(job[j].proc)
    BY <1>11 DEF Kill
  <2>2. job[j].proc \in Procs
    BY <1>t, <2>1 DEF At, JobShape
  <2>3. child'[job[j].proc] = NoChild
    BY <2>1, <2>2 DEF KillSignal, OwnInv, TypeOK, ProcTypeOK
  <2>. QED
    BY <1>t, <2>1, <2>3, GotoFacts DEF EmptyHanded, Bare, Steps
<1>12. CASE Stop(j)
  <2>1. CASE job[j].kind = "recover"
    <3>1. Goto(j, "spawn") /\ At(j, "mark") /\ DropAllBut(Live', [state EXCEPT ![job[j].proc] = "Stopped"])
      BY <1>12, <2>1 DEF Stop
    <3>2. job[j].proc \in Procs /\ child[job[j].proc] = NoChild
      BY <1>t, <2>1, <3>1 DEF At, JobShape, Bare
    <3>3. child'[job[j].proc] = NoChild
      BY <3>1, <3>2 DEF DropAllBut
    <3>. QED
      BY <1>t, <2>1, <3>1, <3>3, GotoFacts DEF EmptyHanded, Bare, Steps
  <2>2. CASE job[j].kind # "recover"
    <3>1. Take(j, "config", NoProc)
      BY <1>12, <2>2 DEF Stop
    <3>. QED
      BY <1>t, <2>2, <3>1, TakeFacts DEF EmptyHanded, Bare, Steps
  <2>. QED
    BY <2>1, <2>2
<1>13. CASE Publish(j)
  <2>1. Goto(j, "spawn") /\ At(j, "config")
    BY <1>13 DEF Publish
  <2>. QED
    BY <1>t, <2>1, GotoFacts DEF At, EmptyHanded, Bare, JobShape, Steps
<1>14. CASE Backoff(j)
  <2>1. /\ job'[j].pc = "kill"
        /\ \A k \in Jobs \ {j} : job'[k] = job[k]
    BY <1>t, <1>14 DEF Backoff, Job
  <2>. QED
    BY <2>1 DEF EmptyHanded, Bare
<1>. QED
  BY <1>4, <1>5, <1>6, <1>7, <1>8, <1>9, <1>10, <1>11, <1>12, <1>13, <1>14
     DEF JobStep, SpawnFails, FoundCrashed, TimedOut

\* Every step keeps the jobs' references as their program counters say.
LEMMA NextRefs ==
  ASSUME OwnInv, Next
  PROVE  RefsOK'
<1>. SUFFICES ASSUME NEW k \in Jobs PROVE EmptyHanded(k)' /\ Bare(k)'
  BY DEF RefsOK
<1>t. /\ job \in [Jobs -> Job] /\ wd \in Watchdog
      /\ EmptyHanded(k) /\ Bare(k)
  BY DEF OwnInv, TypeOK, SupTypeOK, RefsOK
<1>1. ASSUME job'[k] = job[k], ~ SpawnAgain(k) PROVE EmptyHanded(k)' /\ Bare(k)'
  BY <1>t, <1>1, BareKept DEF EmptyHanded, Bare
<1>2. CASE JobStep(k) \/ Cancel(k)
  BY <1>2, JobStepRefs
<1>3. ASSUME ~(JobStep(k) \/ Cancel(k)), NEW j \in Jobs, JobStep(j) \/ Cancel(j)
      PROVE  EmptyHanded(k)' /\ Bare(k)'
  <2>1. job'[k] = job[k]
    BY <1>3, JobStepRefs
  <2>. QED
    BY <1>1, <1>3, <2>1 DEF JobStep
<1>4. ASSUME ~(\E j \in Jobs : JobStep(j) \/ Cancel(j)), UNCHANGED job
      PROVE  EmptyHanded(k)' /\ Bare(k)'
  BY <1>1, <1>4 DEF JobStep
<1>5. ASSUME ~(\E j \in Jobs : JobStep(j) \/ Cancel(j)), NEW j \in Jobs,
             NEW kind, NEW pc, NEW p, NEW cfg, Begin(j, kind, pc, p, cfg),
             pc \in {"snap", "spawn", "kill"}, pc # "kill" => p = NoProc,
             pc = "spawn" => kind # "recover"
      PROVE  EmptyHanded(k)' /\ Bare(k)'
  <2>1. CASE k = j
    BY <1>t, <1>5, <2>1 DEF Begin, EmptyHanded, Bare
  <2>2. CASE k # j
    BY <1>t, <1>1, <1>5, <2>2 DEF Begin, JobStep
  <2>. QED
    BY <2>1, <2>2
<1>6. ASSUME ~(\E j \in Jobs : JobStep(j) \/ Cancel(j)), NEW h \in Clients, Trigger(h)
      PROVE  EmptyHanded(k)' /\ Bare(k)'
  BY <1>4, <1>5, <1>6 DEF Trigger, Jobs
<1>7. ASSUME ~(\E j \in Jobs : JobStep(j) \/ Cancel(j)), WdStep
      PROVE  EmptyHanded(k)' /\ Bare(k)'
  <2>1. CASE WdRecover
    BY <1>5, <1>7, <2>1 DEF WdRecover, Jobs
  <2>2. CASE ~WdRecover
    BY <1>4, <1>7, <2>2 DEF WdStep, WdTick, WdSnap, WdSeesCrash, WdSeesNoCrash, WdLosesCas
  <2>. QED
    BY <2>1, <2>2
<1>8. ASSUME ~(\E j \in Jobs : JobStep(j) \/ Cancel(j)), NEW j \in Admins,
             AdminRestart(j) \/ \E m \in Models, ctx \in Ctxs \cup {NoCtx} : AdminLoad(j, m, ctx)
      PROVE  EmptyHanded(k)' /\ Bare(k)'
  BY <1>5, <1>8 DEF AdminRestart, AdminLoad, Jobs
<1>9. ASSUME ~(\E j \in Jobs : JobStep(j) \/ Cancel(j)),
             \/ ChildStep /\ UNCHANGED supVars
             \/ TimePasses \/ Touch
             \/ \E h \in Clients, m \in Models : Resolve(h, m)
             \/ \E h \in Borrowers : Lend(h) \/ Return(h)
      PROVE  EmptyHanded(k)' /\ Bare(k)'
  BY <1>4, <1>9 DEF TimePasses, Touch, Resolve, Lend, Return
<1>. QED
  BY <1>2, <1>3, <1>6, <1>7, <1>8, <1>9 DEF Next, Supervise, Handle

-----------------------------------------------------------------------------
(* The theorems.                                                           *)

\* The server starts with its first process owning the one child that runs.
LEMMA OwnInit == Init => OwnInv
<1>. SUFFICES ASSUME Init PROVE OwnInv
  OBVIOUS
<1>1. TypeOK /\ JobsOK /\ FlagExclusive
  BY InitType
<1>2. \A j \in Jobs : job[j] = NoJob
  BY DEF Init
<1>3. RefsOK
  BY <1>2 DEF RefsOK, EmptyHanded, Bare, NoJob
<1>4. current \in Procs /\ Live = {current}
  BY <1>2, NoProcAssumption DEF Init, Live, NoJob
<1>5. PICK c \in Children :
        /\ child = [p \in Procs |-> IF p = current THEN c ELSE NoChild]
        /\ os = [d \in Children |-> IF d = c THEN "listening" ELSE "exited"]
  BY DEF Init
<1>6. Owned
  BY <1>4, <1>5, Config0Assumption, NoConfigAssumption, NoChildAssumption
     DEF Init, Owned, Alive
<1>. QED
  BY <1>1, <1>3, <1>6 DEF OwnInv

\* The strengthened invariant is inductive.
LEMMA OwnNext == OwnInv /\ [Next]_vars => OwnInv'
<1>. SUFFICES ASSUME OwnInv, [Next]_vars PROVE OwnInv'
  OBVIOUS
<1>1. TypeOK' /\ JobsOK' /\ FlagExclusive'
  BY NextType, FlagStep DEF OwnInv
<1>2. CASE Next
  <2>1. Owned'
    BY <1>2, JobStepOwned, OtherOwned
  <2>. QED
    BY <1>1, <1>2, <2>1, NextRefs DEF OwnInv
<1>3. CASE UNCHANGED vars
  <2>1. Owned'
    BY <1>3, LiveSame, OwnedKeep DEF vars, OwnInv
  <2>2. RefsOK'
    BY <1>3 DEF vars, OwnInv, RefsOK, EmptyHanded, Bare
  <2>. QED
    BY <1>1, <2>1, <2>2 DEF OwnInv
<1>. QED
  BY <1>2, <1>3

\* Whatever fails, times out, is cancelled or is swapped: a llama-server that
\* runs and was not told to exit is the child of a process still in use.
THEOREM NothingOrphaned == Spec => []NoOrphan
<1>1. OwnInv => NoOrphan
  BY LiveProcs, NoChildAssumption DEF OwnInv, Owned, NoOrphan
<1>. QED
  BY <1>1, OwnInit, OwnNext, PTL DEF Spec

\* A handle belongs to one process in use, and names a child that has not been
\* told to exit.
THEOREM HandlesAreSound == Spec => []HandlesSound
<1>1. OwnInv => HandlesSound
  BY DEF OwnInv, Owned, HandlesSound
<1>. QED
  BY <1>1, OwnInit, OwnNext, PTL DEF Spec

-----------------------------------------------------------------------------
(* One llama-server, and its config.  This needs that nothing restarts a   *)
(* process behind the flag: no admin requests, and no recovery, which may  *)
(* be of a process that was replaced meanwhile.                            *)

\* A handle is the current process's or that of the one a switch is starting.
Sole ==
  \A p \in Procs : child[p] # NoChild =>
    p = current \/ \E t \in Tasks : job[t].pc \in Starting /\ job[t].proc = p

\* What a switch has done to the current process, and what it holds.
Swapping(t) ==
  /\ job[t].pc \in {"kill", "mark"} => job[t].proc = current
  /\ job[t].pc \in {"mark", "config", "spawn"} \cup Starting => child[current] = NoChild
  /\ job[t].pc \in {"config", "spawn"} \cup Starting => state[current] = "Stopped"
  /\ job[t].pc \in {"spawn"} \cup Starting => config = job[t].cfg
  /\ job[t].pc \in Starting =>
       /\ cfgOf[job[t].proc] = job[t].cfg
       /\ job[t].proc # current /\ \A h \in Borrowers : lent[h] # job[t].proc

SwitchesOnly == wd.pc = "tick" /\ \A t \in Tasks : job[t].kind # "recover"

Fitting == state[current] = "Stopped" \/ config = cfgOf[current]

SoleInv ==
  OwnInv /\ NoAdminJob /\ SwitchesOnly /\ Sole /\ Fitting /\ \A t \in Tasks : Swapping(t)

\* Dropping processes takes handles away, and leaves those in use as they were.
LEMMA DropLeaves ==
  ASSUME TypeOK, NEW live, NEW st, DropAllBut(live, st)
  PROVE  /\ \A p \in Procs : child'[p] # NoChild => child'[p] = child[p] /\ p \in live
         /\ \A p \in Procs \cap live :
              child'[p] = child[p] /\ cfgOf'[p] = cfgOf[p] /\ state'[p] = st[p]
BY DEF DropAllBut

\* The current process is in use, and so is what a job holds.
LEMMA InUse ==
  ASSUME TypeOK
  PROVE  /\ current \in Procs /\ current \in Live
         /\ \A j \in Jobs : job[j].proc \in Procs => job[j].proc \in Live
         /\ \A h \in Borrowers : lent[h] \in Procs => lent[h] \in Live
BY NoProcAssumption DEF TypeOK, SupTypeOK, Live

\* While one task is busy the others are idle and hold nothing.
LEMMA OthersIdle ==
  ASSUME JobsOK, FlagExclusive, RefsOK, NEW t \in Tasks, Busy(t), NEW u \in Tasks, u # t
  PROVE  job[u].pc = "idle" /\ job[u].proc = NoProc
<1>1. ~Busy(u)
  BY DEF FlagExclusive
<1>2. job[u].pc = "idle"
  BY <1>1 DEF JobsOK, JobShape, Busy, Jobs
<1>. QED
  BY <1>2 DEF RefsOK, EmptyHanded, Jobs

\* Every step of a switch keeps what is said of it, of the handles and of the
\* published config.
LEMMA SwitchSoles ==
  ASSUME SoleInv, TypeOK', NEW t \in Tasks, JobStep(t)
  PROVE  SwitchesOnly' /\ Sole' /\ Fitting' /\ \A u \in Tasks : Swapping(u)'
<1>t. /\ t \in Jobs /\ job \in [Jobs -> Job] /\ job[t] \in Job /\ JobShape(t)
      /\ TypeOK /\ JobsOK /\ FlagExclusive /\ RefsOK /\ Owned /\ ProcTypeOK
  BY DEF SoleInv, OwnInv, TypeOK, SupTypeOK, JobsOK, Jobs
<1>b. Busy(t) /\ \A k \in Jobs \ {t} : job'[k] = job[k]
  BY <1>t, JobStepAlone
<1>k. job[t].kind = "switch" /\ job[t].cfg \in Configs
  BY <1>t, <1>b DEF JobShape, Busy, SoleInv, SwitchesOnly, TaskKinds
<1>o. \A u \in Tasks \ {t} : job'[u] = job[u] /\ job[u].pc = "idle" /\ job[u].proc = NoProc
  BY <1>t, <1>b, OthersIdle DEF Jobs
<1>u. /\ current \in Procs /\ current \in Live /\ cfgOf[current] # NoConfig
      /\ Sole /\ Fitting /\ Swapping(t) /\ SwitchesOnly
  BY <1>t, InUse DEF SoleInv, Owned
<1>w. \A u \in Tasks \ {t} : Swapping(u)'
  BY <1>o DEF Swapping, Starting
<1>s. \A p \in Procs : child[p] # NoChild =>
        p = current \/ (job[t].pc \in Starting /\ job[t].proc = p)
  BY <1>o, <1>u DEF Sole, Starting
\* What is left to show of a step, once its job is known.
<1>j. ASSUME job'[t].kind = "switch", wd' = wd, Fitting', Swapping(t)',
             \A p \in Procs : child'[p] # NoChild =>
                p = current' \/ (job'[t].pc \in Starting /\ job'[t].proc = p)
      PROVE  SwitchesOnly' /\ Sole' /\ Fitting' /\ \A u \in Tasks : Swapping(u)'
  <2>1. SwitchesOnly'
    BY <1>j, <1>o, <1>u DEF SwitchesOnly
  <2>2. Sole'
    BY <1>j DEF Sole
  <2>. QED
    BY <1>j, <1>w, <2>1, <2>2
<1>1. CASE Snap(t)
  <2>1. /\ job'[t].pc = "kill" /\ job'[t].proc = current /\ job'[t].kind = "switch"
        /\ job[t].pc = "snap" /\ UNCHANGED <<procVars, appVars, wd, lent>>
    BY <1>t, <1>k, <1>u, <1>1, TakeFacts DEF Snap, Steps, At
  <2>2. Swapping(t)' /\ Fitting'
    BY <1>u, <2>1 DEF Swapping, Starting, Fitting
  <2>. QED
    BY <1>j, <1>s, <2>1, <2>2 DEF Starting
<1>2. CASE Kill(t)
  <2>1. /\ job'[t].pc = "mark" /\ job'[t].proc = job[t].proc /\ job'[t].kind = "switch"
        /\ job[t].pc = "kill" /\ UNCHANGED <<appVars, wd, lent, state, cfgOf>>
        /\ child' = [child EXCEPT ![job[t].proc] = NoChild]
    BY <1>t, <1>k, <1>2, GotoFacts DEF Kill, KillSignal, Steps, At
  <2>2. job[t].proc = current /\ child'[current] = NoChild
    BY <1>t, <1>u, <2>1 DEF Swapping, ProcTypeOK
  <2>3. Swapping(t)' /\ Fitting'
    BY <1>u, <2>1, <2>2 DEF Swapping, Starting, Fitting
  <2>4. \A p \in Procs : child'[p] # NoChild => child[p] # NoChild
    BY <1>t, <2>1 DEF ProcTypeOK
  <2>. QED
    BY <1>j, <1>s, <2>1, <2>3, <2>4 DEF Starting
<1>3. CASE Stop(t)
  <2>. DEFINE st == [state EXCEPT ![job[t].proc] = "Stopped"]
  <2>1. /\ job'[t].pc = "config" /\ job'[t].kind = "switch" /\ job[t].pc = "mark"
        /\ UNCHANGED <<appVars, wd, lent>> /\ DropAllBut(Live', st)
    BY <1>t, <1>k, <1>3, TakeFacts DEF Stop, Steps, At
  <2>2. job[t].proc = current /\ child[current] = NoChild /\ current \in Live'
    BY <1>u, <2>1, InUse, NoProcAssumption DEF Swapping, Live
  <2>3. st[current] = "Stopped"
    BY <1>t, <1>u, <2>2 DEF ProcTypeOK
  <2>. HIDE DEF st
  <2>4. /\ child'[current] = NoChild /\ state'[current] = "Stopped"
        /\ \A p \in Procs : child'[p] # NoChild => child[p] # NoChild
    BY <1>t, <1>u, <2>1, <2>2, <2>3, DropLeaves
  <2>5. Swapping(t)' /\ Fitting'
    BY <1>u, <2>1, <2>4 DEF Swapping, Starting, Fitting
  <2>. QED
    BY <1>j, <1>s, <2>1, <2>4, <2>5 DEF Starting
<1>4. CASE Publish(t)
  <2>1. /\ job'[t].pc = "spawn" /\ job'[t].kind = "switch" /\ job'[t].cfg = job[t].cfg
        /\ job[t].pc = "config" /\ config' = job[t].cfg
        /\ UNCHANGED <<procVars, current, wd, lent>>
    BY <1>t, <1>k, <1>4, GotoFacts DEF Publish, Steps, At
  <2>2. Swapping(t)' /\ Fitting'
    BY <1>u, <2>1 DEF Swapping, Starting, Fitting
  <2>. QED
    BY <1>j, <1>s, <2>1, <2>2 DEF Starting
<1>5. CASE SpawnNew(t)
  <2>1. PICK p \in Procs, c \in Children :
          StartSpawn(p, c, job[t].cfg) /\ Take(t, "starting", p)
    BY <1>5 DEF SpawnNew
  <2>2. /\ job'[t].pc = "starting" /\ job'[t].proc = p /\ job'[t].kind = "switch"
        /\ job'[t].cfg = job[t].cfg /\ job[t].pc = "spawn" /\ UNCHANGED <<appVars, wd, lent>>
    BY <1>t, <1>k, <1>5, <2>1, TakeFacts DEF SpawnNew, Steps, At
  <2>3. p \notin Live /\ p # current /\ \A h \in Borrowers : lent[h] # p
    BY <1>t, <1>u, <2>1, InUse DEF StartSpawn, FreshProc, Owned
  <2>4. /\ cfgOf'[p] = job[t].cfg /\ state'[current] = state[current]
        /\ cfgOf'[current] = cfgOf[current] /\ child'[current] = child[current]
        /\ \A q \in Procs \ {p} : child'[q] = child[q]
    BY <1>t, <1>u, <2>1, <2>3 DEF StartSpawn, ProcTypeOK
  <2>5. Swapping(t)' /\ Fitting'
    BY <1>u, <2>2, <2>3, <2>4 DEF Swapping, Starting, Fitting
  <2>. QED
    BY <1>j, <1>s, <2>2, <2>4, <2>5 DEF Starting
<1>6. CASE SetStarting(t) \/ FoundAlive(t) \/ PollOk(t) \/ PollFails(t) \/ Sleep(t) \/ SetReady(t)
  <2>1. \E s \in Starting : Goto(t, s)
    BY <1>k, <1>6 DEF SetStarting, FoundAlive, PollOk, PollFails, Sleep, SetReady, Starting
  <2>2. /\ job'[t].pc \in Starting /\ job'[t].proc = job[t].proc /\ job'[t].kind = "switch"
        /\ job'[t].cfg = job[t].cfg
    BY <1>t, <1>k, <2>1, GotoFacts DEF Steps, Starting
  <2>3. job[t].pc \in Starting /\ UNCHANGED <<appVars, wd, lent, child, cfgOf>>
    BY <1>6 DEF SetStarting, FoundAlive, PollOk, PollFails, Sleep, SetReady, Starting, At,
                MarkStarting, MarkReady
  <2>4. state' = state \/ state' = [state EXCEPT ![job[t].proc] = "Starting"]
        \/ state' = [state EXCEPT ![job[t].proc] = "Ready"]
    BY <1>6 DEF SetStarting, FoundAlive, PollOk, PollFails, Sleep, SetReady, MarkStarting, MarkReady
  <2>5. state'[current] = state[current]
    BY <1>t, <1>u, <2>3, <2>4 DEF Swapping, ProcTypeOK
  <2>6. Swapping(t)' /\ Fitting'
    BY <1>u, <2>2, <2>3, <2>5 DEF Swapping, Starting, Fitting
  <2>. QED
    BY <1>j, <1>s, <2>2, <2>3, <2>6
<1>7. CASE SpawnFails(t) \/ FoundCrashed(t) \/ TimedOut(t)
  <2>1. /\ Take(t, "release", NoProc) /\ DropAllBut(Live', state)
        /\ UNCHANGED <<appVars, wd, lent>> /\ job[t].pc \in {"spawn", "check", "late"}
    BY <1>k, <1>7 DEF SpawnFails, FoundCrashed, TimedOut, Fail, AdminKinds, At
  <2>2. job'[t].pc = "release" /\ job'[t].kind = "switch" /\ job'[t].proc = NoProc
    BY <1>t, <1>k, <2>1, TakeFacts DEF Steps
  <2>3. current \in Live'
    BY <1>u, <2>1, NoProcAssumption DEF Live
  <2>4. /\ child'[current] = child[current] /\ state'[current] = state[current]
        /\ cfgOf'[current] = cfgOf[current]
        /\ \A p \in Procs : child'[p] # NoChild => child[p] # NoChild /\ p \in Live'
    BY <1>t, <1>u, <2>1, <2>3, DropLeaves
  <2>5. \A p \in Procs : p \in Live' /\ job[t].proc = p /\ job[t].pc \in Starting => FALSE
    <3>. SUFFICES ASSUME NEW p \in Procs, p \in Live', job[t].proc = p, job[t].pc \in Starting
                  PROVE  FALSE
      OBVIOUS
    <3>1. p # current /\ \A h \in Borrowers : lent[h] # p
      BY <1>u DEF Swapping
    <3>2. \A j \in Jobs : job'[j].proc = NoProc
      <4>. SUFFICES ASSUME NEW j \in Jobs PROVE job'[j].proc = NoProc
        OBVIOUS
      <4>1. CASE j \in Tasks
        BY <1>o, <2>2, <4>1
      <4>2. CASE j \in Admins /\ j \notin Tasks
        <5>1. job[j].pc = "idle"
          BY <1>t, <4>2 DEF SoleInv, NoAdminJob, JobsOK, JobShape
        <5>2. job[j].proc = NoProc
          BY <1>t, <5>1 DEF RefsOK, EmptyHanded
        <5>. QED
          BY <1>b, <1>t, <4>2, <5>2 DEF Jobs
      <4>. QED
        BY <4>1, <4>2 DEF Jobs
    <3>3. wd'.proc = NoProc
      BY <1>t, <1>u, <2>1 DEF SwitchesOnly, TypeOK, SupTypeOK, Watchdog
    <3>. QED
      BY <2>1, <3>1, <3>2, <3>3, NoProcAssumption DEF Live
  <2>6. Swapping(t)' /\ Fitting'
    BY <1>u, <2>1, <2>2, <2>4 DEF Swapping, Starting, Fitting
  <2>. QED
    BY <1>j, <1>s, <2>1, <2>2, <2>4, <2>5, <2>6
<1>8. CASE Install(t)
  <2>1. /\ Take(t, "release", NoProc) /\ DropAllBut(Live', state) /\ current' = job[t].proc
        /\ UNCHANGED <<config, wd, lent>> /\ job[t].pc = "install"
    BY <1>k, <1>8 DEF Install, At
  <2>2. job'[t].pc = "release" /\ job'[t].kind = "switch"
    BY <1>t, <1>k, <2>1, TakeFacts DEF Steps
  <2>3. current' \in Procs /\ current' \in Live'
    BY <1>t, <2>1, NoProcAssumption DEF JobShape, Starting, Live
  <2>4. /\ cfgOf'[current'] = cfgOf[current']
        /\ \A p \in Procs : child'[p] # NoChild => child[p] # NoChild
    BY <1>t, <2>1, <2>3, DropLeaves
  <2>5. config' = cfgOf'[current'] /\ child[current] = NoChild
    BY <1>u, <2>1, <2>4 DEF Swapping, Starting
  <2>6. Swapping(t)' /\ Fitting'
    BY <2>2, <2>5 DEF Swapping, Starting, Fitting
  <2>. QED
    BY <1>j, <1>s, <2>1, <2>2, <2>4, <2>5, <2>6
<1>9. CASE Release(t)
  <2>1. Done(t) /\ DropAllBut(Live', state) /\ UNCHANGED <<current, config, wd, lent>>
        /\ job[t].pc = "release"
    BY <1>9 DEF Release, At
  <2>2. job'[t].pc = "idle" /\ job'[t].kind = "none"
    BY <1>t, <2>1, DoneFacts DEF NoJob
  <2>3. current \in Live'
    BY <1>u, <2>1, NoProcAssumption DEF Live
  <2>4. /\ state'[current] = state[current] /\ cfgOf'[current] = cfgOf[current]
        /\ \A p \in Procs : child'[p] # NoChild => child[p] # NoChild
    BY <1>t, <1>u, <2>1, <2>3, DropLeaves
  <2>5. Swapping(t)' /\ Fitting' /\ SwitchesOnly'
    BY <1>o, <1>u, <2>1, <2>2, <2>4 DEF Swapping, Starting, Fitting, SwitchesOnly
  <2>6. Sole'
    BY <1>s, <2>1, <2>4 DEF Sole, Starting
  <2>. QED
    BY <1>w, <2>5, <2>6
<1>10. CASE SpawnAgain(t) \/ Backoff(t)
  BY <1>t, <1>k, <1>10 DEF SpawnAgain, Backoff, At, JobShape
<1>. QED
  BY <1>1, <1>2, <1>3, <1>4, <1>5, <1>6, <1>7, <1>8, <1>9, <1>10 DEF JobStep

\* Winning the flag takes no process; it is a switch that wins it.
LEMMA WinSoles ==
  ASSUME SoleInv, NEW t \in Tasks, Wins(t)
  PROVE  SwitchesOnly' /\ Sole' /\ Fitting' /\ \A u \in Tasks : Swapping(u)'
<1>1. /\ job'[t].kind = "switch" /\ job'[t].pc = "snap"
      /\ \A u \in Tasks \ {t} : job'[u] = job[u]
      /\ UNCHANGED <<procVars, current, config, wd>>
  BY BeginAlone DEF Wins, Jobs, SoleInv, OwnInv, SwitchesOnly
<1>2. \A u \in Tasks : ~Busy(u)
  BY DEF Wins, SoleInv, OwnInv, FlagExclusive
<1>3. \A u \in Tasks : job[u].pc = "idle"
  BY <1>2 DEF SoleInv, OwnInv, JobsOK, JobShape, Busy, Jobs
<1>4. \A u \in Tasks : Swapping(u)'
  BY <1>1, <1>3 DEF Swapping, Starting
<1>5. Sole' /\ Fitting'
  BY <1>1, <1>3 DEF SoleInv, Sole, Fitting, Starting
<1>6. SwitchesOnly'
  BY <1>1 DEF SoleInv, SwitchesOnly
<1>. QED
  BY <1>4, <1>5, <1>6

\* Nothing else takes a handle, the current process or a job away.
LEMMA AsideSoles ==
  ASSUME SoleInv, RestartOnCrash = FALSE, Aside
  PROVE  SwitchesOnly' /\ Sole' /\ Fitting' /\ \A u \in Tasks : Swapping(u)'
<1>t. /\ TypeOK /\ ProcTypeOK /\ current \in Procs /\ wd.pc = "tick"
      /\ Sole /\ Fitting /\ SwitchesOnly /\ \A u \in Tasks : Swapping(u)
      /\ \A u \in Tasks : job[u].pc \in Starting => job[u].proc # current /\ job[u].proc \in Procs
  BY DEF SoleInv, OwnInv, TypeOK, SupTypeOK, SwitchesOnly, Swapping, JobsOK, JobShape, Jobs
<1>1. ~WdTick /\ ~WdSnap /\ ~WdSeesCrash /\ ~WdSeesNoCrash /\ ~WdLosesCas
  BY <1>t DEF WdTick, WdSnap, WdSeesCrash, WdSeesNoCrash, WdLosesCas
<1>2. CASE ChildStep /\ UNCHANGED supVars
  <2>1. UNCHANGED <<child, cfgOf>>
    BY <1>2 DEF ChildStep, ReaderEof, ReaderGivesUp, ReaderEnds, Boot, Exit
  <2>2. state[current] = "Stopped" => state'[current] = "Stopped"
    BY <1>t, <1>2 DEF ChildStep, ReaderEof, ReaderGivesUp, ReaderEnds, Boot, Exit, ProcTypeOK
  <2>. QED
    BY <1>t, <1>2, <2>1, <2>2 DEF SwitchesOnly, Sole, Fitting, Swapping
<1>3. ASSUME NEW h \in Borrowers, Return(h)
      PROVE  SwitchesOnly' /\ Sole' /\ Fitting' /\ \A u \in Tasks : Swapping(u)'
  <2>1. /\ DropAllBut(Live', state) /\ UNCHANGED <<appVars, job, wd>>
        /\ lent' = [lent EXCEPT ![h] = NoProc]
    BY <1>3 DEF Return
  <2>2. current \in Live' /\ \A u \in Tasks : job[u].pc \in Starting => job[u].proc \in Live'
    BY <1>t, <2>1, NoProcAssumption DEF Live, Jobs
  <2>3. /\ child'[current] = child[current] /\ state'[current] = state[current]
        /\ cfgOf'[current] = cfgOf[current]
        /\ \A p \in Procs : child'[p] # NoChild => child[p] # NoChild
        /\ \A u \in Tasks : job[u].pc \in Starting => cfgOf'[job[u].proc] = cfgOf[job[u].proc]
    BY <1>t, <2>1, <2>2, DropLeaves
  <2>4. \A g \in Borrowers, u \in Tasks :
          job[u].pc \in Starting /\ lent[g] # job[u].proc => lent'[g] # job[u].proc
    BY <1>t, <2>1, NoProcAssumption DEF TypeOK, SupTypeOK
  <2>. QED
    BY <1>t, <2>1, <2>3, <2>4 DEF SwitchesOnly, Sole, Fitting, Swapping
<1>4. ASSUME NEW h \in Borrowers, Lend(h)
      PROVE  SwitchesOnly' /\ Sole' /\ Fitting' /\ \A u \in Tasks : Swapping(u)'
  <2>1. UNCHANGED <<procVars, appVars, job, wd>> /\ lent' = [lent EXCEPT ![h] = current]
    BY <1>4 DEF Lend
  <2>2. \A g \in Borrowers, u \in Tasks :
          job[u].pc \in Starting /\ lent[g] # job[u].proc => lent'[g] # job[u].proc
    BY <1>t, <2>1 DEF TypeOK, SupTypeOK
  <2>. QED
    BY <1>t, <2>1, <2>2 DEF SwitchesOnly, Sole, Fitting, Swapping
<1>5. CASE UNCHANGED <<procVars, current, config, job, wd, lent>>
  BY <1>t, <1>5 DEF SwitchesOnly, Sole, Fitting, Swapping
<1>. QED
  BY <1>1, <1>2, <1>3, <1>4, <1>5 DEF Aside, TimePasses, Touch, Trigger, Resolve, vars

\* It holds at the start: there is one process, and no job.
LEMMA SoleInit ==
  ASSUME Init
  PROVE  SoleInv
<1>1. OwnInv /\ SwapInv
  BY OwnInit, SwapInvInit
<1>2. \A t \in Tasks : job[t].pc = "idle" /\ job[t].kind = "none"
  BY DEF Init, NoJob, Jobs
<1>3. SwitchesOnly /\ Fitting /\ Sole
  BY <1>2 DEF Init, SwitchesOnly, Fitting, Sole
<1>4. \A t \in Tasks : Swapping(t)
  BY <1>2 DEF Swapping, Starting
<1>. QED
  BY <1>1, <1>3, <1>4 DEF SoleInv, SwapInv

\* Every step keeps it.
LEMMA SoleNext ==
  ASSUME AdminOps = {}, RestartOnCrash = FALSE, SoleInv, [Next]_vars
  PROVE  SoleInv'
<1>1. OwnInv' /\ NoAdminJob' /\ TypeOK' /\ TypeOK /\ JobsOK
  BY OwnNext, AdminsStayAway DEF SoleInv, OwnInv
<1>2. ASSUME NEW t \in Tasks, JobStep(t) PROVE SoleInv'
  BY <1>1, <1>2, SwitchSoles DEF SoleInv
<1>3. ASSUME NEW t \in Tasks, Wins(t) PROVE SoleInv'
  BY <1>1, <1>3, WinSoles DEF SoleInv
<1>4. CASE Aside
  BY <1>1, <1>4, AsideSoles DEF SoleInv
<1>. QED
  BY <1>1, <1>2, <1>3, <1>4, WithoutAdmins DEF SoleInv

\* Without admin requests and recoveries, one llama-server runs at a time, next
\* to those that were told to exit.
THEOREM OneBackend ==
  ASSUME AdminOps = {}, RestartOnCrash = FALSE
  PROVE  Spec => []SingleBackend
<1>1. SoleInv => SingleBackend
  <2>. SUFFICES ASSUME SoleInv, NEW c \in Children, NEW d \in Children,
                       Alive(c), Alive(d), c \notin signalled, d \notin signalled
                PROVE  c = d
    BY DEF SingleBackend
  <2>1. PICK p \in Procs, q \in Procs : child[p] = c /\ child[q] = d
    BY DEF SoleInv, OwnInv, Owned
  <2>2. p = current \/ \E t \in Tasks : job[t].pc \in Starting /\ job[t].proc = p
    BY <2>1, NoChildAssumption DEF SoleInv, Sole
  <2>3. q = current \/ \E t \in Tasks : job[t].pc \in Starting /\ job[t].proc = q
    BY <2>1, NoChildAssumption DEF SoleInv, Sole
  <2>4. \A t \in Tasks : job[t].pc \in Starting => child[current] = NoChild /\ Busy(t)
    BY DEF SoleInv, Swapping, OwnInv, JobsOK, JobShape, Busy, Starting, Jobs
  <2>5. \A t, u \in Tasks : job[t].pc \in Starting /\ job[u].pc \in Starting => t = u
    BY <2>4 DEF SoleInv, OwnInv, FlagExclusive
  <2>. QED
    BY <2>1, <2>2, <2>3, <2>4, <2>5, NoChildAssumption
<1>2. Init => SoleInv
  BY SoleInit
<1>3. SoleInv /\ [Next]_vars => SoleInv'
  BY SoleNext
<1>. QED
  BY <1>1, <1>2, <1>3, PTL DEF Spec

\* ... and the published config is its own, unless a failed switch has left it
\* stopped.
THEOREM ConfigIsItsOwn ==
  ASSUME AdminOps = {}, RestartOnCrash = FALSE
  PROVE  Spec => []ConfigMatchesProcess
<1>1. SoleInv => ConfigMatchesProcess
  BY DEF SoleInv, Fitting, ConfigMatchesProcess
<1>2. Init => SoleInv
  BY SoleInit
<1>3. SoleInv /\ [Next]_vars => SoleInv'
  BY SoleNext
<1>. QED
  BY <1>1, <1>2, <1>3, PTL DEF Spec

-----------------------------------------------------------------------------
(* Part two: the request handlers.                                         *)

GateInv ==
  /\ TypeOK /\ JobsOK
  /\ GateTypeOK
  /\ ~IdleGuard => idle = FALSE

-----------------------------------------------------------------------------
(* Names.                                                                  *)

\* A set of numbers that is not empty has a least one: of the intervals up to
\* its members, which are finite, one is inside all others.
LEMMA HasLeast ==
  ASSUME NEW S \in SUBSET Nat, S # {}
  PROVE  Registered!Least(S) \in S
<1>. DEFINE Upto == {1 .. n : n \in S}
<1>1a. Upto \subseteq FiniteSubsetsOf(Nat)
  <2>1. ASSUME NEW n \in S PROVE 1 .. n \in SUBSET Nat /\ IsFiniteSet(1 .. n)
    BY FS_Interval
  <2>. QED
    BY <2>1, Zenon DEF FiniteSubsetsOf
<1>1b. Upto # {}
  OBVIOUS
<1>2. \E x \in Upto : \A y \in Upto : <<y, x>> \notin StrictSubsetOrdering(Nat)
  <2>. HIDE DEF Upto
  <2>. QED
    BY <1>1a, <1>1b, FS_StrictSubsetOrderingWellFounded, WFMin
<1>3. PICK n \in S : \A m \in S : <<1 .. m, 1 .. n>> \notin StrictSubsetOrdering(Nat)
  BY <1>2
<1>4. ASSUME NEW m \in S, m < n PROVE FALSE
  <2>1. 1 .. m \subseteq 1 .. n /\ 1 .. m # 1 .. n
    BY <1>4
  <2>2. 1 .. m \in SUBSET Nat /\ 1 .. n \in SUBSET Nat
    OBVIOUS
  <2>3. \A a, b \in SUBSET Nat : a \subseteq b /\ a # b => <<a, b>> \in StrictSubsetOrdering(Nat)
    BY DEF StrictSubsetOrdering
  <2>. QED
    BY ONLY <1>3, <2>1, <2>2, <2>3
<1>5. \A m \in S : n <= m
  BY <1>4
<1>. QED
  BY <1>5 DEF Registered!Least

LEMMA SeqEntry ==
  ASSUME NEW S, NEW s \in Seq(S), NEW i \in DOMAIN s
  PROVE  s[i] \in S
  OBVIOUS

\* A known name stands for a model.
LEMMA ResolveType ==
  ASSUME NEW n, Registered!Resolve(n) # NoModel
  PROVE  Registered!Resolve(n) \in Models
<1>. USE NamesAssumption DEF Registered!NamesOK
<1>1. ASSUME Registered!Exact(n) # {} PROVE Registered!Resolve(n) \in Models
  <2>1. Registered!Exact(n) \in SUBSET Nat /\ Registered!Exact(n) \subseteq DOMAIN Defined
    BY DEF Registered!Exact
  <2>2. Registered!Least(Registered!Exact(n)) \in DOMAIN Defined
    BY <1>1, <2>1, HasLeast
  <2>3. Registered!Resolve(n) = Defined[Registered!Least(Registered!Exact(n))].file
    BY <1>1 DEF Registered!Resolve
  <2>4. Defined[Registered!Least(Registered!Exact(n))] \in [name : Names, file : Models]
    BY <2>2, SeqEntry
  <2>5. Defined[Registered!Least(Registered!Exact(n))].file \in Models
    BY ONLY <2>4
  <2>. QED
    BY ONLY <2>3, <2>5
<1>2. ASSUME Registered!Exact(n) = {}, Registered!Partial(n) # {}
      PROVE  Registered!Resolve(n) \in Models
  <2>1. Registered!Partial(n) \in SUBSET Nat /\ Registered!Partial(n) \subseteq DOMAIN Defined
    BY DEF Registered!Partial
  <2>2. Registered!Least(Registered!Partial(n)) \in DOMAIN Defined
    BY <1>2, <2>1, HasLeast
  <2>3. Registered!Resolve(n) = Defined[Registered!Least(Registered!Partial(n))].file
    BY <1>2 DEF Registered!Resolve
  <2>4. Defined[Registered!Least(Registered!Partial(n))] \in [name : Names, file : Models]
    BY <2>2, SeqEntry
  <2>5. Defined[Registered!Least(Registered!Partial(n))].file \in Models
    BY ONLY <2>4
  <2>. QED
    BY ONLY <2>3, <2>5
<1>3. ASSUME Registered!Exact(n) = {}, Registered!Partial(n) = {}, Registered!Stems(n) # {}
      PROVE  Registered!Resolve(n) \in Models
  <2>1. Registered!Stems(n) \in SUBSET Nat /\ Registered!Stems(n) \subseteq DOMAIN Found
    BY DEF Registered!Stems
  <2>2. Registered!Least(Registered!Stems(n)) \in DOMAIN Found
    BY <1>3, <2>1, HasLeast
  <2>3. Registered!Resolve(n) = Found[Registered!Least(Registered!Stems(n))]
    BY <1>3 DEF Registered!Resolve
  <2>4. \A i \in DOMAIN Found : Found[i] \in Models
    OBVIOUS
  <2>. QED
    BY ONLY <2>2, <2>3, <2>4
<1>. QED
  BY <1>1, <1>2, <1>3 DEF Registered!Resolve

\* If every [[models]] entry is named after its file or a part of its name, the
\* loaded model answers to every name it was loaded by, so that the next request
\* with that name does not load it again.
THEOREM LoadedNameIsServed ==
  ASSUME Registered!NamesFit, NEW n \in Names, Registered!Resolve(n) # NoModel
  PROVE  Registered!MatchesCurrent(n, Registered!Resolve(n))
<1>. USE NamesAssumption DEF Registered!NamesOK, Registered!MatchesCurrent
<1>1. \A i \in DOMAIN Defined :
         <<n, Defined[i].name>> \in Part => <<n, Stem[Defined[i].file]>> \in Part
  <2>. SUFFICES ASSUME NEW i \in DOMAIN Defined, <<n, Defined[i].name>> \in Part
                PROVE  <<n, Stem[Defined[i].file]>> \in Part
    OBVIOUS
  <2>1. <<Defined[i].name, Stem[Defined[i].file]>> \in Part
    BY DEF Registered!NamesFit
  <2>. QED
    BY <2>1
<1>2. ASSUME Registered!Exact(n) # {}
      PROVE  Registered!MatchesCurrent(n, Registered!Resolve(n))
  <2>. DEFINE i == Registered!Least(Registered!Exact(n))
  <2>1. Registered!Exact(n) \in SUBSET Nat
    BY DEF Registered!Exact
  <2>2. i \in DOMAIN Defined /\ Defined[i].name = n
    BY <1>2, <2>1, HasLeast DEF Registered!Exact
  <2>3. Registered!Resolve(n) = Defined[i].file
    BY <1>2 DEF Registered!Resolve
  <2>. QED
    BY <1>1, <2>2, <2>3
<1>3. ASSUME Registered!Exact(n) = {}, Registered!Partial(n) # {}
      PROVE  Registered!MatchesCurrent(n, Registered!Resolve(n))
  <2>. DEFINE i == Registered!Least(Registered!Partial(n))
  <2>1. Registered!Partial(n) \in SUBSET Nat
    BY DEF Registered!Partial
  <2>2. i \in DOMAIN Defined /\ <<n, Defined[i].name>> \in Part
    BY <1>3, <2>1, HasLeast DEF Registered!Partial
  <2>3. Registered!Resolve(n) = Defined[i].file
    BY <1>3 DEF Registered!Resolve
  <2>. QED
    BY <1>1, <2>2, <2>3
<1>4. ASSUME Registered!Exact(n) = {}, Registered!Partial(n) = {}, Registered!Stems(n) # {}
      PROVE  Registered!MatchesCurrent(n, Registered!Resolve(n))
  <2>. DEFINE i == Registered!Least(Registered!Stems(n))
  <2>1. Registered!Stems(n) \in SUBSET Nat
    BY DEF Registered!Stems
  <2>2. i \in DOMAIN Found /\ <<n, Stem[Found[i]]>> \in Part
    BY <1>4, <2>1, HasLeast DEF Registered!Stems
  <2>3. Registered!Resolve(n) = Found[i]
    BY <1>4 DEF Registered!Resolve
  <2>. QED
    BY <2>2, <2>3
<1>. QED
  BY <1>2, <1>3, <1>4 DEF Registered!Resolve

-----------------------------------------------------------------------------
(* The steps.                                                              *)

\* What ReqGoto and Answer do to a handler, and to the others.
LEMMA ReqGotoFacts ==
  ASSUME req \in [Clients -> Request], NEW h \in Clients, NEW s \in RequestSteps, ReqGoto(h, s)
  PROVE  /\ req' \in [Clients -> Request] /\ req'[h].pc = s
         /\ \A g \in Clients \ {h} : req'[g] = req[g]
<1>1. req' = [req EXCEPT ![h] = [req[h] EXCEPT !.pc = s]]
  BY DEF ReqGoto
<1>2. [req[h] EXCEPT !.pc = s] \in Request
  BY DEF Request
<1>. QED
  BY <1>1, <1>2 DEF Request

\* The handler is over.
LEMMA AnswerFacts ==
  ASSUME req \in [Clients -> Request], NEW h \in Clients, Answer(h)
  PROVE  /\ req' \in [Clients -> Request] /\ req'[h].pc = "idle"
         /\ \A g \in Clients \ {h} : req'[g] = req[g]
BY DEF Answer, NoRequest, Request, RequestSteps

\* The supervision leaves alone what is the handlers'.
LEMMA SuperviseApart ==
  ASSUME TypeOK, Supervise
  PROVE  UNCHANGED <<ask, lent>> /\ (~IdleGuard => idle' = idle)
<1>1. ASSUME NEW j \in Jobs, JobStep(j) \/ Cancel(j) PROVE UNCHANGED <<ask, lent, idle>>
  BY <1>1 DEF JobStep, Cancel, Snap, Kill, Stop, Publish, SpawnNew, SpawnAgain, SpawnFails,
              SetStarting, FoundCrashed, FoundAlive, PollOk, PollFails, TimedOut, Sleep, SetReady,
              Install, Backoff, Release, Fail
<1>2. ASSUME WdStep PROVE UNCHANGED <<ask, lent, idle>>
  BY <1>2 DEF WdStep, WdTick, WdSnap, WdSeesCrash, WdSeesNoCrash, WdRecover, WdLosesCas
<1>. QED
  BY <1>1, <1>2 DEF Supervise, AdminRestart, AdminLoad, TimePasses

\* What a step of a handler is to the supervision: nothing, or one of the steps
\* Supervisor has for handlers.
LEMMA GateStepIs ==
  ASSUME GateInv, GateNext \/ UNCHANGED gateVars
  PROVE  [Next]_vars
<1>1. ASSUME NEW h \in Clients, TouchLast(h) PROVE [Next]_vars
  <2>1. Touch
    BY <1>1 DEF TouchLast
  <2>2. CASE IdleGuard
    BY <2>1, <2>2 DEF Next, Handle
  <2>3. CASE ~IdleGuard
    BY <2>1, <2>3 DEF Touch, GateInv, vars
  <2>. QED
    BY <2>2, <2>3
<1>2. ASSUME NEW h \in Clients, AskSwitch(h) PROVE [Next]_vars
  <2>1. Registered!Resolve(req[h].want) \in Models
    BY <1>2, ResolveType DEF AskSwitch
  <2>. QED
    BY <1>2, <2>1 DEF AskSwitch, Next, Handle
<1>3. ASSUME NEW h \in Clients, Switch(h) PROVE [Next]_vars
  BY <1>3 DEF Switch, Next, Handle
<1>4. ASSUME NEW h \in Clients, TakeProcess(h) \/ Refused(h) \/ Stream(h) \/ Finish(h)
      PROVE  [Next]_vars
  <2>1. h \in Borrowers
    BY NamesAssumption
  <2>. QED
    BY <1>4, <2>1 DEF TakeProcess, Refused, Stream, Finish, Next, Handle
<1>5. ASSUME NEW h \in Clients, NEW n \in Wanted,
             Arrive(h, n) \/ Gate(h) \/ Name(h) \/ FallThrough(h) \/ TakeConfig(h) \/ Send(h)
      PROVE  [Next]_vars
  BY <1>5 DEF Arrive, Gate, Name, FallThrough, TakeConfig, Send
<1>6. ASSUME NEW h \in Clients, Gate(h) \/ Name(h) \/ FallThrough(h) \/ TakeConfig(h) \/ Send(h)
      PROVE  [Next]_vars
  BY <1>6 DEF Gate, Name, FallThrough, TakeConfig, Send
<1>. QED
  BY <1>1, <1>2, <1>3, <1>4, <1>5, <1>6 DEF GateNext, RequestStep, Next, gateVars, vars

\* A handler that moves keeps to what its place says of its Arc and of its
\* pending config.
LEMMA HandlerKeeps ==
  ASSUME GateInv, NEW h \in Clients,
         req' \in [Clients -> Request], \A g \in Clients \ {h} : req'[g] = req[g],
         \A g \in Clients \ {h} : lent'[g] = lent[g] /\ ask'[g] = ask[g],
         lent'[h] # NoProc <=> req'[h].pc \in {"cfg", "send", "serving"},
         ask'[h] # NoConfig <=> req'[h].pc = "cas"
  PROVE  GateTypeOK'
BY DEF GateInv, GateTypeOK

\* Every step of a handler keeps this.
LEMMA HandlerStep ==
  ASSUME GateInv, NEW h \in Clients,
         RequestStep(h) \/ Stream(h) \/ Finish(h) \/ \E n \in Wanted : Arrive(h, n)
  PROVE  GateTypeOK'
<1>t. /\ req \in [Clients -> Request] /\ req[h] \in Request /\ h \in Borrowers
      /\ lent \in [Clients -> Procs \cup {NoProc}] /\ ask \in [Clients -> Configs \cup {NoConfig}]
      /\ current \in Procs /\ config \in Configs
      /\ lent[h] # NoProc <=> req[h].pc \in {"cfg", "send", "serving"}
      /\ ask[h] # NoConfig <=> req[h].pc = "cas"
  BY NamesAssumption DEF GateInv, GateTypeOK, TypeOK, SupTypeOK
\* Three ways to end a step: nothing borrowed changes, the Arc is taken or given
\* back.
<1>a. ASSUME NEW s \in RequestSteps, ReqGoto(h, s), UNCHANGED <<lent, ask>>,
             req[h].pc \in {"cfg", "send", "serving"} <=> s \in {"cfg", "send", "serving"},
             req[h].pc # "cas", s # "cas"
      PROVE  GateTypeOK'
  BY <1>t, <1>a, ReqGotoFacts, HandlerKeeps
<1>b. ASSUME Answer(h), UNCHANGED <<lent, ask>>,
             req[h].pc \notin {"cfg", "send", "serving", "cas"}
      PROVE  GateTypeOK'
  BY <1>t, <1>b, AnswerFacts, HandlerKeeps
<1>c. ASSUME Answer(h) \/ ReqGoto(h, "streaming"), Return(h), req[h].pc # "cas"
      PROVE  GateTypeOK'
  <2>1. req' \in [Clients -> Request] /\ req'[h].pc \in {"idle", "streaming"}
        /\ \A g \in Clients \ {h} : req'[g] = req[g]
    BY <1>t, <1>c, AnswerFacts, ReqGotoFacts DEF RequestSteps
  <2>2. lent'[h] = NoProc /\ ask' = ask /\ \A g \in Clients \ {h} : lent'[g] = lent[g]
    BY <1>t, <1>c DEF Return
  <2>. QED
    BY <1>t, <1>c, <2>1, <2>2, HandlerKeeps
<1>1. ASSUME NEW n \in Wanted, Arrive(h, n) PROVE GateTypeOK'
  <2>1. req' \in [Clients -> Request] /\ req'[h].pc = "gate"
        /\ \A g \in Clients \ {h} : req'[g] = req[g]
    <3>1. req' = [req EXCEPT ![h] = [[req[h] EXCEPT !.pc = "gate"] EXCEPT !.want = n]]
      BY <1>1 DEF Arrive
    <3>2. [[req[h] EXCEPT !.pc = "gate"] EXCEPT !.want = n] \in Request
      BY <1>t DEF Request, RequestSteps
    <3>. QED
      BY <1>t, <3>1, <3>2 DEF Request
  <2>2. UNCHANGED <<lent, ask>> /\ req[h].pc = "idle"
    BY <1>1 DEF Arrive, ReqAt, vars
  <2>. QED
    BY <1>t, <2>1, <2>2, HandlerKeeps
<1>2. CASE Gate(h)
  BY <1>a, <1>b, <1>2 DEF Gate, ReqAt, RequestSteps, vars
<1>3. CASE Name(h)
  BY <1>a, <1>3 DEF Name, ReqAt, RequestSteps, vars
<1>4. CASE FallThrough(h)
  BY <1>a, <1>4 DEF FallThrough, ReqAt, RequestSteps, vars
<1>5. CASE AskSwitch(h)
  <2>1. PICK m \in Models : Resolve(h, m)
    BY <1>5, ResolveType DEF AskSwitch
  <2>2. Override(config, m, Defs[m]) \in Configs
    BY <1>t, CtxAssumption, OverrideType
  <2>3. ask'[h] # NoConfig /\ UNCHANGED lent /\ \A g \in Clients \ {h} : ask'[g] = ask[g]
    BY <1>t, <2>1, <2>2, NoConfigAssumption DEF Resolve
  <2>4. /\ req' \in [Clients -> Request] /\ req'[h].pc = "cas" /\ req[h].pc = "resolve"
        /\ \A g \in Clients \ {h} : req'[g] = req[g]
    BY <1>t, <1>5, ReqGotoFacts DEF AskSwitch, ReqAt, RequestSteps
  <2>. QED
    BY <1>t, <2>3, <2>4, HandlerKeeps
<1>6. CASE Switch(h)
  <2>1. ask'[h] = NoConfig /\ UNCHANGED lent /\ \A g \in Clients \ {h} : ask'[g] = ask[g]
    BY <1>t, <1>6 DEF Switch, Trigger
  <2>2. req[h].pc = "cas" /\ Answer(h)
    BY <1>6 DEF Switch, ReqAt
  <2>. QED
    BY <1>t, <2>1, <2>2, AnswerFacts, HandlerKeeps
<1>7. CASE TouchLast(h)
  BY <1>a, <1>7 DEF TouchLast, Touch, ReqAt, RequestSteps
<1>8. CASE TakeProcess(h)
  <2>1. lent'[h] = current /\ ask' = ask /\ \A g \in Clients \ {h} : lent'[g] = lent[g]
    BY <1>t, <1>8 DEF TakeProcess, Lend
  <2>2. /\ req' \in [Clients -> Request] /\ req'[h].pc = "cfg" /\ req[h].pc = "proc"
        /\ \A g \in Clients \ {h} : req'[g] = req[g]
    BY <1>t, <1>8, ReqGotoFacts DEF TakeProcess, ReqAt, RequestSteps
  <2>. QED
    BY <1>t, <2>1, <2>2, NoProcAssumption, HandlerKeeps
<1>9. CASE TakeConfig(h)
  <2>1. req' \in [Clients -> Request] /\ req'[h].pc = "send"
        /\ \A g \in Clients \ {h} : req'[g] = req[g]
    <3>1. req' = [req EXCEPT ![h] = [[req[h] EXCEPT !.pc = "send"] EXCEPT !.label = config.model]]
      BY <1>9 DEF TakeConfig
    <3>2. [[req[h] EXCEPT !.pc = "send"] EXCEPT !.label = config.model] \in Request
      BY <1>t DEF Request, RequestSteps, Configs
    <3>. QED
      BY <1>t, <3>1, <3>2 DEF Request
  <2>2. UNCHANGED <<lent, ask>> /\ req[h].pc = "cfg"
    BY <1>9 DEF TakeConfig, ReqAt, vars
  <2>. QED
    BY <1>t, <2>1, <2>2, HandlerKeeps
<1>10. CASE Send(h)
  <2>1. PICK c \in Children : req' = [req EXCEPT ![h].pc = "serving", ![h].srv = c]
    BY <1>10 DEF Send
  <2>2. req' \in [Clients -> Request] /\ req'[h].pc = "serving"
        /\ \A g \in Clients \ {h} : req'[g] = req[g]
    <3>1. req' = [req EXCEPT ![h] = [[req[h] EXCEPT !.pc = "serving"] EXCEPT !.srv = c]]
      BY <2>1
    <3>2. [[req[h] EXCEPT !.pc = "serving"] EXCEPT !.srv = c] \in Request
      BY <1>t DEF Request, RequestSteps
    <3>. QED
      BY <1>t, <3>1, <3>2 DEF Request
  <2>3. UNCHANGED <<lent, ask>> /\ req[h].pc = "send"
    BY <1>10 DEF Send, ReqAt, vars
  <2>. QED
    BY <1>t, <2>2, <2>3, HandlerKeeps
<1>11. CASE Refused(h)
  BY <1>c, <1>11 DEF Refused, ReqAt
<1>12. CASE Stream(h)
  BY <1>c, <1>12 DEF Stream, ReqAt
<1>13. CASE Finish(h)
  BY <1>b, <1>c, <1>13 DEF Finish, ReqAt, vars
<1>. QED
  BY <1>1, <1>2, <1>3, <1>4, <1>5, <1>6, <1>7, <1>8, <1>9, <1>10, <1>11, <1>12, <1>13
     DEF RequestStep

\* Without the idle guard nothing sets `idle`.
LEMMA IdleKept ==
  ASSUME GateInv, GateNext \/ UNCHANGED gateVars, ~IdleGuard
  PROVE  idle' = FALSE
<1>1. ASSUME NEW h \in Clients,
             RequestStep(h) \/ Stream(h) \/ Finish(h) \/ \E n \in Wanted : Arrive(h, n)
      PROVE  idle' = FALSE
  BY <1>1 DEF GateInv, RequestStep, Gate, Name, FallThrough, AskSwitch, Resolve, Switch, Trigger,
              TouchLast, Touch, TakeProcess, Lend, TakeConfig, Send, Refused, Return, Stream,
              Finish, Arrive, vars
<1>2. CASE Supervise
  BY <1>2, SuperviseApart DEF GateInv
<1>3. CASE UNCHANGED gateVars
  BY <1>3 DEF GateInv, gateVars, vars
<1>. QED
  BY <1>1, <1>2, <1>3 DEF GateNext

\* Nobody has asked for anything at the start.
LEMMA GateStart == GateInit => GateInv /\ Init
<1>. SUFFICES ASSUME GateInit PROVE GateInv /\ Init
  OBVIOUS
<1>1. Init /\ TypeOK /\ JobsOK
  BY InitType DEF GateInit
<1>2. req = [h \in Clients |-> NoRequest] /\ NoRequest \in Request
  BY DEF GateInit, NoRequest, Request, RequestSteps
<1>3. \A h \in Clients : lent[h] = NoProc /\ ask[h] = NoConfig
  BY <1>1, NamesAssumption DEF Init
<1>4. GateTypeOK
  BY <1>2, <1>3 DEF GateTypeOK, NoRequest
<1>. QED
  BY <1>1, <1>4 DEF GateInv, Init

\* Handlers and supervision keep it between them.
LEMMA GateStep == GateInv /\ [GateNext]_gateVars => GateInv' /\ [Next]_vars
<1>. SUFFICES ASSUME GateInv, GateNext \/ UNCHANGED gateVars PROVE GateInv' /\ [Next]_vars
  OBVIOUS
<1>1. [Next]_vars
  BY GateStepIs
<1>2. TypeOK' /\ JobsOK'
  BY <1>1, NextType DEF GateInv
<1>3. GateTypeOK'
  <2>1. CASE Supervise /\ UNCHANGED req
    BY <2>1, SuperviseApart DEF GateInv, GateTypeOK
  <2>2. CASE UNCHANGED gateVars
    BY <2>2 DEF GateInv, GateTypeOK, gateVars, vars
  <2>. QED
    BY <2>1, <2>2, HandlerStep DEF GateNext
<1>4. ~IdleGuard => idle' = FALSE
  BY IdleKept
<1>. QED
  BY <1>1, <1>2, <1>3, <1>4 DEF GateInv

-----------------------------------------------------------------------------
(* The theorems.                                                           *)

\* The handlers do nothing to the shared state that Supervisor does not allow
\* for: every theorem about Supervisor holds of the whole gateway.
THEOREM GateIsSupervised == GateSpec => Spec
<1>1. GateInit => GateInv /\ Init
  BY GateStart
<1>2. GateInv /\ [GateNext]_gateVars => GateInv' /\ [Next]_vars
  BY GateStep
<1>. QED
  BY <1>1, <1>2, PTL DEF GateSpec, Spec

\* On every path a handler gives its Arc and its pending config back, and holds
\* them for no longer than its place says.
THEOREM NothingKept == GateSpec => []GateTypeOK
<1>1. GateInit => GateInv
  BY GateStart
<1>2. GateInv /\ [GateNext]_gateVars => GateInv'
  BY GateStep
<1>3. GateInv => GateTypeOK
  BY DEF GateInv
<1>. QED
  BY <1>1, <1>2, <1>3, PTL DEF GateSpec

\* While the flag is down no running child is told to exit: the process a handler
\* is the last to hold has none.
LEMMA NoneCutOutside ==
  ASSUME AdminOps = {}, RestartOnCrash = FALSE, SoleInv, [Next]_vars, ~switching
  PROVE  signalled' \subseteq signalled
<1>t. TypeOK /\ ProcTypeOK /\ JobsOK /\ FlagExclusive /\ current \in Procs /\ wd.pc = "tick"
  BY DEF SoleInv, OwnInv, TypeOK, SupTypeOK, SwitchesOnly
<1>1. \A t \in Tasks : ~Busy(t) /\ job[t].pc = "idle"
  BY <1>t DEF FlagExclusive, JobsOK, JobShape, Busy, Jobs
<1>2. ASSUME NEW t \in Tasks PROVE ~JobStep(t)
  BY <1>t, <1>1, <1>2, JobStepAlone DEF Jobs
<1>3. \A p \in Procs : child[p] # NoChild => p = current
  BY <1>1 DEF SoleInv, Sole, Starting
<1>4. ASSUME NEW h \in Borrowers, Return(h) PROVE signalled' \subseteq signalled
  <2>1. current \in Live'
    BY <1>t, <1>4, NoProcAssumption DEF Return, Live
  <2>. QED
    BY <1>3, <1>4, <2>1, NoChildAssumption DEF Return, DropAllBut
<1>5. CASE ChildStep
  BY <1>5 DEF ChildStep, ReaderEof, ReaderGivesUp, ReaderEnds, Boot, Exit
<1>6. ~WdTick /\ ~WdSnap /\ ~WdSeesCrash /\ ~WdSeesNoCrash /\ ~WdLosesCas
  BY <1>t DEF WdTick, WdSnap, WdSeesCrash, WdSeesNoCrash, WdLosesCas
<1>7. CASE Aside
  BY <1>4, <1>5, <1>6, <1>7 DEF Aside, TimePasses, Touch, Trigger, Resolve, Lend, vars
<1>8. ASSUME NEW t \in Tasks, Wins(t) PROVE signalled' \subseteq signalled
  BY <1>8 DEF Wins
<1>. QED
  BY <1>t, <1>2, <1>7, <1>8, WithoutAdmins DEF SoleInv

\* Without admin requests and recoveries, a response loses its llama-server to a
\* switch under the flag, and never to a handler that lets go of a process.
THEOREM OnlySwitchesCut ==
  ASSUME AdminOps = {}, RestartOnCrash = FALSE
  PROVE  GateSpec => CutOnlyBySwitch
<1>1. GateInit => GateInv /\ SoleInv
  BY GateStart, SoleInit
<1>2. GateInv /\ SoleInv /\ [GateNext]_gateVars => GateInv' /\ SoleInv'
  BY GateStep, SoleNext
<1>. DEFINE Cut == \A h \in Clients :
       /\ req[h].srv # NoChild /\ req'[h].srv = req[h].srv
       /\ req[h].srv \in signalled' \ signalled
       => switching
<1>3. GateInv /\ SoleInv /\ [GateNext]_gateVars => [Cut]_gateVars
  BY GateStep, NoneCutOutside
<1>. QED
  BY <1>1, <1>2, <1>3, PTL DEF GateSpec, CutOnlyBySwitch

-----------------------------------------------------------------------------
(* A name compared before the switch it asks for.                          *)

\* A handler keeps the name it came with, and asks for the file of that name.
Asks(h) ==
  /\ req[h].pc # "idle" => req[h].want \in Wanted
  /\ req[h].pc = "cas" =>
       /\ Registered!Resolve(req[h].want) # NoModel
       /\ ask[h].model = Registered!Resolve(req[h].want)

AsksInv == GateInv /\ \A h \in Clients : Asks(h)

\* Where a step of a handler leads: out, past the comparison, to it with a name
\* that does not match, or from it to the compare-exchange.
Leads(h) ==
  \/ req'[h].pc = "idle"
  \/ req'[h].pc \notin {"resolve", "cas"} /\ req'[h].want \in Wanted
  \/ /\ req'[h].pc = "resolve" /\ req'[h].want = req[h].want /\ req[h].pc # "idle"
     /\ ~Registered!MatchesCurrent(req[h].want, config.model)
  \/ /\ req[h].pc = "resolve" /\ req'[h].pc = "cas" /\ req'[h].want = req[h].want
     /\ Registered!Resolve(req[h].want) # NoModel
     /\ ask'[h].model = Registered!Resolve(req[h].want)

\* A step of a handler leaves the other handlers and the published config alone.
LEMMA HandlerMoves ==
  ASSUME GateInv, NEW h \in Clients, Asks(h),
         RequestStep(h) \/ Stream(h) \/ Finish(h) \/ \E n \in Wanted : Arrive(h, n)
  PROVE  /\ config' = config /\ Leads(h)
         /\ \A g \in Clients \ {h} : req'[g] = req[g] /\ ask'[g] = ask[g]
<1>t. /\ req \in [Clients -> Request] /\ req[h] \in Request
      /\ ask \in [Clients -> Configs \cup {NoConfig}]
  BY DEF GateInv, GateTypeOK, TypeOK, SupTypeOK
<1>w. req[h].pc # "idle" => req[h].want \in Wanted
  BY DEF Asks
<1>g. ASSUME NEW s, ReqGoto(h, s)
      PROVE  /\ req'[h].pc = s /\ req'[h].want = req[h].want
             /\ \A g \in Clients \ {h} : req'[g] = req[g]
  BY <1>t, <1>g DEF ReqGoto, Request
<1>a. ASSUME Answer(h) PROVE Leads(h) /\ \A g \in Clients \ {h} : req'[g] = req[g]
  BY <1>t, <1>a DEF Answer, NoRequest, Leads
<1>s. ASSUME NEW s \in RequestSteps, ReqGoto(h, s), s \notin {"resolve", "cas"}, req[h].pc # "idle"
      PROVE  Leads(h) /\ \A g \in Clients \ {h} : req'[g] = req[g]
  BY <1>s, <1>g, <1>w DEF Leads
<1>1. ASSUME NEW n \in Wanted, Arrive(h, n)
      PROVE  Leads(h) /\ UNCHANGED <<config, ask>> /\ \A g \in Clients \ {h} : req'[g] = req[g]
  <2>1. req' = [req EXCEPT ![h] = [[req[h] EXCEPT !.pc = "gate"] EXCEPT !.want = n]]
    BY <1>1 DEF Arrive
  <2>2. /\ req'[h].pc = "gate" /\ req'[h].want = n
        /\ \A g \in Clients \ {h} : req'[g] = req[g]
    BY <1>t, <2>1 DEF Request
  <2>. QED
    BY <1>1, <2>2 DEF Leads, Arrive, vars
<1>2. CASE Gate(h)
  BY <1>2, <1>a, <1>s DEF Gate, ReqAt, RequestSteps, vars
<1>3. CASE Name(h)
  <2>1. CASE Registered!MatchesCurrent(req[h].want, config.model)
    BY <1>3, <1>s, <2>1 DEF Name, ReqAt, RequestSteps, vars
  <2>2. CASE ~Registered!MatchesCurrent(req[h].want, config.model)
    <3>1. ReqGoto(h, "resolve") /\ req[h].pc = "name" /\ UNCHANGED <<config, ask>>
      BY <1>3, <2>2 DEF Name, ReqAt, vars
    <3>. QED
      BY <1>g, <2>2, <3>1 DEF Leads
  <2>. QED
    BY <2>1, <2>2
<1>4. CASE AskSwitch(h)
  <2>. DEFINE m == Registered!Resolve(req[h].want)
  <2>1. m # NoModel /\ Resolve(h, m) /\ ReqGoto(h, "cas") /\ req[h].pc = "resolve"
    BY <1>4 DEF AskSwitch, ReqAt
  <2>2. ask'[h].model = m /\ config' = config /\ \A g \in Clients \ {h} : ask'[g] = ask[g]
    BY <1>t, <2>1 DEF Resolve, Override
  <2>. QED
    BY <1>g, <2>1, <2>2 DEF Leads
<1>5. CASE Switch(h)
  <2>1. Answer(h) /\ config' = config /\ \A g \in Clients \ {h} : ask'[g] = ask[g]
    BY <1>5, <1>t DEF Switch, Trigger
  <2>. QED
    BY <2>1, <1>a
<1>6. CASE FallThrough(h) \/ TouchLast(h) \/ TakeProcess(h) \/ Stream(h)
  BY <1>6, <1>s DEF FallThrough, TouchLast, Touch, TakeProcess, Lend, Stream, Return, ReqAt,
                    RequestSteps, vars
<1>7. CASE TakeConfig(h)
  <2>1. req' = [req EXCEPT ![h] = [[req[h] EXCEPT !.pc = "send"] EXCEPT !.label = config.model]]
    BY <1>7 DEF TakeConfig
  <2>2. /\ req'[h].pc = "send" /\ req'[h].want = req[h].want
        /\ \A g \in Clients \ {h} : req'[g] = req[g]
    BY <1>t, <2>1 DEF Request
  <2>. QED
    BY <1>7, <1>w, <2>2 DEF Leads, TakeConfig, ReqAt, vars
<1>8. CASE Send(h)
  <2>1. PICK c \in Children :
          req' = [req EXCEPT ![h] = [[req[h] EXCEPT !.pc = "serving"] EXCEPT !.srv = c]]
    BY <1>8 DEF Send
  <2>2. /\ req'[h].pc = "serving" /\ req'[h].want = req[h].want
        /\ \A g \in Clients \ {h} : req'[g] = req[g]
    BY <1>t, <2>1 DEF Request
  <2>. QED
    BY <1>8, <1>w, <2>2 DEF Leads, Send, ReqAt, vars
<1>9. CASE Refused(h) \/ Finish(h)
  BY <1>9, <1>a DEF Refused, Finish, Return, vars
<1>. QED
  BY <1>1, <1>2, <1>3, <1>4, <1>5, <1>6, <1>7, <1>8, <1>9 DEF RequestStep

\* Handlers and supervision keep what a handler asks for.
LEMMA AsksStep == AsksInv /\ [GateNext]_gateVars => AsksInv'
<1>. SUFFICES ASSUME AsksInv, [GateNext]_gateVars PROVE AsksInv'
  OBVIOUS
<1>1. GateInv /\ GateInv'
  BY GateStep DEF AsksInv
<1>2. ASSUME NEW h \in Clients PROVE Asks(h)'
  <2>1. Asks(h)
    BY DEF AsksInv
  <2>2. ASSUME req'[h] = req[h], ask'[h] = ask[h] PROVE Asks(h)'
    BY <2>1, <2>2 DEF Asks
  <2>3. CASE (Supervise /\ UNCHANGED req) \/ UNCHANGED gateVars
    BY <1>1, <2>2, <2>3, SuperviseApart DEF GateInv, gateVars, vars
  <2>4. ASSUME NEW g \in Clients,
               RequestStep(g) \/ Stream(g) \/ Finish(g) \/ \E n \in Wanted : Arrive(g, n)
        PROVE  Asks(h)'
    <3>1. Leads(g) /\ \A f \in Clients \ {g} : req'[f] = req[f] /\ ask'[f] = ask[f]
      BY <1>1, <2>4, HandlerMoves DEF AsksInv
    <3>2. CASE g = h
      BY <2>1, <3>1, <3>2 DEF Leads, Asks
    <3>3. CASE g # h
      BY <2>2, <3>1, <3>3
    <3>. QED
      BY <3>2, <3>3
  <2>. QED
    BY <2>3, <2>4 DEF GateNext
<1>. QED
  BY <1>1, <1>2 DEF AsksInv

\* Only the publication of another model overtakes handlers.
LEMMA FewerOvertaken ==
  ASSUME AsksInv, GateNext, config'.model = config.model
  PROVE  Overtaken' \subseteq Overtaken
<1>1. CASE Supervise /\ UNCHANGED req
  BY <1>1 DEF Overtaken
<1>2. ASSUME NEW h \in Clients,
             RequestStep(h) \/ Stream(h) \/ Finish(h) \/ \E n \in Wanted : Arrive(h, n),
             NEW g \in Overtaken'
      PROVE  g \in Overtaken
  <2>1. /\ config' = config /\ Leads(h)
        /\ \A f \in Clients \ {h} : req'[f] = req[f]
    BY <1>2, HandlerMoves DEF AsksInv
  <2>2. g \in Clients /\ req'[g].pc \in {"resolve", "cas"}
        /\ Registered!MatchesCurrent(req'[g].want, config.model)
    BY <1>2, <2>1 DEF Overtaken
  <2>3. CASE g = h
    <3>1. req[h].pc = "resolve" /\ req'[h].want = req[h].want
      BY <2>1, <2>2, <2>3 DEF Leads
    <3>. QED
      BY <2>2, <2>3, <3>1 DEF Overtaken
  <2>4. CASE g # h
    BY <2>1, <2>2, <2>4 DEF Overtaken
  <2>. QED
    BY <2>3, <2>4
<1>. QED
  BY <1>1, <1>2 DEF GateNext

\* Whoever begins a switch to the published model was overtaken, and returns.
LEMMA ReloaderWasOvertaken ==
  ASSUME Registered!NamesFit, AsksInv, GateNext,
         NEW t \in Tasks, ~Busy(t), Busy(t)', job'[t].kind = "switch",
         job'[t].cfg.model = config.model
  PROVE  \E h \in Overtaken : h \notin Overtaken'
<1>t. /\ TypeOK /\ JobsOK /\ job \in [Jobs -> Job] /\ t \in Jobs /\ req \in [Clients -> Request]
  BY DEF AsksInv, GateInv, GateTypeOK, TypeOK, SupTypeOK, Jobs
<1>0. job'[t] # job[t]
  BY DEF Busy
<1>1. ASSUME NEW h \in Clients, Switch(h) PROVE h \in Overtaken /\ h \notin Overtaken'
  <2>1. req[h].pc = "cas" /\ Trigger(h) /\ Answer(h)
    BY <1>1 DEF Switch, ReqAt
  <2>2. PICK u \in Tasks : Begin(u, "switch", "snap", NoProc, ask[h])
    BY <1>0, <2>1 DEF Trigger
  <2>3. u = t
    BY <2>2, <1>0, <1>t, BeginAlone DEF Jobs
  <2>4. job'[t].cfg = ask[h]
    BY <2>2, <2>3, <1>t DEF Begin
  <2>5. /\ req[h].want \in Names /\ Registered!Resolve(req[h].want) # NoModel
        /\ ask[h].model = Registered!Resolve(req[h].want)
    BY <2>1, NamesAssumption DEF AsksInv, Asks
  <2>6. Registered!MatchesCurrent(req[h].want, Registered!Resolve(req[h].want))
    BY <2>5, LoadedNameIsServed
  <2>7. req'[h].pc = "idle"
    BY <1>t, <2>1, AnswerFacts
  <2>. QED
    BY <2>1, <2>4, <2>5, <2>6, <2>7 DEF Overtaken
<1>2. ASSUME NEW h \in Clients,
             Gate(h) \/ Name(h) \/ FallThrough(h) \/ AskSwitch(h) \/ TouchLast(h) \/ TakeProcess(h)
               \/ TakeConfig(h) \/ Send(h) \/ Refused(h) \/ Stream(h) \/ Finish(h)
               \/ \E n \in Wanted : Arrive(h, n)
      PROVE  FALSE
  BY <1>0, <1>2 DEF Gate, Name, FallThrough, AskSwitch, Resolve, TouchLast, Touch, TakeProcess,
                    Lend, TakeConfig, Send, Refused, Return, Stream, Finish, Arrive, vars
<1>3. ASSUME Supervise PROVE FALSE
  <2>1. ASSUME NEW j \in Jobs, JobStep(j) \/ Cancel(j) PROVE FALSE
    BY <2>1, <1>t, <1>0, JobStepAlone
  <2>2. ASSUME NEW j \in Jobs, NEW kind \in {"load", "restart", "recover"}, NEW pc, NEW p, NEW cfg,
               Begin(j, kind, pc, p, cfg)
        PROVE  FALSE
    BY <2>2, <1>t, <1>0, BeginAlone
  <2>3. ASSUME NEW j \in Admins, AdminRestart(j) \/ \E m \in Models, ctx \in Ctxs \cup {NoCtx} : AdminLoad(j, m, ctx)
        PROVE  FALSE
    BY <2>2, <2>3 DEF AdminRestart, AdminLoad, Jobs
  <2>4. ASSUME WdRecover PROVE FALSE
    BY <2>2, <2>4 DEF WdRecover, Jobs
  <2>5. ASSUME (ChildStep /\ UNCHANGED supVars) \/ WdTick \/ WdSnap \/ WdSeesCrash \/ WdSeesNoCrash
                 \/ WdLosesCas \/ TimePasses
        PROVE  FALSE
    BY <2>5, <1>0 DEF WdTick, WdSnap, WdSeesCrash, WdSeesNoCrash, WdLosesCas, TimePasses
  <2>. QED
    BY <1>3, <2>1, <2>3, <2>4, <2>5 DEF Supervise, WdStep
<1>. QED
  BY <1>1, <1>2, <1>3 DEF GateNext, RequestStep

\* Any number of clients, with admin requests and recoveries: the published model
\* is loaded again only for a handler that was overtaken between its look and its
\* compare-exchange, and no reload makes another.  Without NamesFit an alias
\* reloads every time.
THEOREM ReloadsSpendThemselves ==
  ASSUME Registered!NamesFit
  PROVE  GateSpec => ReloadsAreSpent
<1>1. GateInit => AsksInv
  <2>1. GateInit => \A h \in Clients : Asks(h)
    BY DEF GateInit, Asks, NoRequest
  <2>. QED
    BY <2>1, GateStart DEF AsksInv
<1>2. AsksInv /\ [GateNext]_gateVars => AsksInv'
  BY AsksStep
<1>. DEFINE Spends ==
       /\ config'.model = config.model => Overtaken' \subseteq Overtaken
       /\ \A t \in Tasks :
            ~Busy(t) /\ Busy(t)' /\ job'[t].kind = "switch" /\ job'[t].cfg.model = config.model
            => \E h \in Overtaken : h \notin Overtaken'
<1>3. AsksInv /\ [GateNext]_gateVars => [Spends]_gateVars
  BY FewerOvertaken, ReloaderWasOvertaken
<1>. QED
  BY <1>1, <1>2, <1>3, PTL DEF GateSpec, ReloadsAreSpent

=============================================================================
