---------------------------- MODULE LlamaProcess ----------------------------
(***************************************************************************)
(* The supervised llama-server subprocess: server/llama_process.rs.        *)
(*                                                                         *)
(* A LlamaProcess value ("proc") owns a state cell and at most one child   *)
(* handle.  Every spawn starts a stderr reader task that outlives the      *)
(* handle: it holds the state cell of its proc and writes to it when the   *)
(* stream ends.  All children are told to listen on the one internal port, *)
(* so a health poll is answered by whichever child is listening.           *)
(*                                                                         *)
(* The steps of `start`, `restart`, `kill` and `drop` are operators; the   *)
(* module Supervisor gives them the control flow of their callers.         *)
(***************************************************************************)
EXTENDS Naturals, FiniteSets

CONSTANTS
  Procs,         \* slots for LlamaProcess values
  Children,      \* slots for operating system processes
  NoProc,        \* no LlamaProcess
  NoChild,       \* Option<Child>::None
  Models,        \* what model_path tells apart
  Ctxs,          \* what context_size (and the other per-model fields) tell apart
  NoConfig,      \* the config of a slot that holds no LlamaProcess
  GarbledStderr  \* may llama-server write a line that is not UTF-8 ?

ASSUME NoProcAssumption  == NoProc \notin Procs
ASSUME NoChildAssumption == NoChild \notin Children
ASSUME GarbledAssumption == GarbledStderr \in BOOLEAN

Configs == [model : Models, ctx : Ctxs]

ASSUME NoConfigAssumption == NoConfig \notin Configs

ProcessState == {"Starting", "Ready", "Crashed", "Stopped"}

\* An operating system process: loading, answering on the port, or gone.
ChildStatus == {"booting", "listening", "exited"}

VARIABLES
  state,      \* the state cell of each LlamaProcess
  child,      \* the handle each LlamaProcess holds
  cfgOf,      \* the config each LlamaProcess was built with
  os,         \* what the operating system knows of each child
  signalled,  \* children that were sent the kill signal and are not gone yet
  reader      \* the LlamaProcess whose state cell the child's stderr reader holds

procVars == <<state, child, cfgOf, os, signalled, reader>>

ProcTypeOK ==
  /\ state \in [Procs -> ProcessState]
  /\ child \in [Procs -> Children \cup {NoChild}]
  /\ cfgOf \in [Procs -> Configs \cup {NoConfig}]
  /\ os \in [Children -> ChildStatus]
  /\ signalled \in SUBSET Children
  /\ reader \in [Children -> Procs \cup {NoProc}]

Alive(c) == os[c] # "exited"

\* The port answers /health with 200: whose child it is, nobody asks.
Listening == \E c \in Children : os[c] = "listening"

Handles == {child[p] : p \in Procs} \ {NoChild}

\* Slots nothing refers to any more stand for the unbounded supply.
FreshChild(c) == ~Alive(c) /\ reader[c] = NoProc /\ c \notin Handles
FreshProc(p)  == cfgOf[p] = NoConfig /\ \A c \in Children : reader[c] # p

-----------------------------------------------------------------------------
(* Operations on a LlamaProcess.                                           *)

\* `start` builds a new LlamaProcess and spawns its child (spawn_child up to
\* the assignment of the handle; nothing else can refer to p yet).
StartSpawn(p, c, cfg) ==
  /\ FreshProc(p) /\ FreshChild(c)
  /\ cfgOf'  = [cfgOf EXCEPT ![p] = cfg]
  /\ state'  = [state EXCEPT ![p] = "Starting"]
  /\ child'  = [child EXCEPT ![p] = c]
  /\ os'     = [os EXCEPT ![c] = "booting"]
  /\ reader' = [reader EXCEPT ![c] = p]
  /\ UNCHANGED signalled

\* spawn_child inside `restart`: the state cell keeps what it held until
\* MarkStarting, although the new reader is already running.
Respawn(p, c) ==
  /\ FreshChild(c)
  /\ child'  = [child EXCEPT ![p] = c]
  /\ os'     = [os EXCEPT ![c] = "booting"]
  /\ reader' = [reader EXCEPT ![c] = p]
  /\ UNCHANGED <<state, cfgOf, signalled>>

\* The last assignment of spawn_child; it does not look at what it overwrites.
MarkStarting(p) ==
  /\ state' = [state EXCEPT ![p] = "Starting"]
  /\ UNCHANGED <<child, cfgOf, os, signalled, reader>>

\* A successful poll sets Ready; it does not look at what it overwrites.
MarkReady(p) ==
  /\ state' = [state EXCEPT ![p] = "Ready"]
  /\ UNCHANGED <<child, cfgOf, os, signalled, reader>>

\* Mutant: the handle is forgotten unsignalled.
KillForgets(p) ==
  /\ child' = [child EXCEPT ![p] = NoChild]
  /\ UNCHANGED <<state, cfgOf, os, signalled, reader>>

\* kill, up to `*guard = None`: the signal is sent, the exit is not awaited.
KillSignal(p) ==
  /\ signalled' = signalled \cup {c \in Children : c = child[p] /\ Alive(c)}
  /\ child' = [child EXCEPT ![p] = NoChild]
  /\ UNCHANGED <<state, cfgOf, os, reader>>

\* Drop of every LlamaProcess but those of `live`: the child is signalled and
\* the slot cleared.  st is the state function the step leaves behind.
DropAllBut(live, st) ==
  /\ signalled' = signalled \cup
                    {c \in Children : Alive(c) /\ \E p \in Procs \ live : child[p] = c}
  /\ child' = [p \in Procs |-> IF p \in live THEN child[p] ELSE NoChild]
  /\ cfgOf' = [p \in Procs |-> IF p \in live THEN cfgOf[p] ELSE NoConfig]
  /\ state' = [p \in Procs |-> IF p \in live THEN st[p] ELSE "Stopped"]
  /\ UNCHANGED <<os, reader>>

\* The stderr reader of c ends: Ready and Starting become Crashed.
ReaderEnds(c) ==
  /\ reader[c] # NoProc
  /\ state' = [state EXCEPT ![reader[c]] =
                 IF @ \in {"Ready", "Starting"} /\ cfgOf[reader[c]] # NoConfig
                 THEN "Crashed" ELSE @]
  /\ reader' = [reader EXCEPT ![c] = NoProc]
  /\ UNCHANGED <<child, cfgOf, os, signalled>>

\* End of file: the child is gone.
ReaderEof(c) == ~Alive(c) /\ ReaderEnds(c)

\* next_line returns Err on bytes that are not UTF-8, and the loop ends too.
ReaderGivesUp(c) == GarbledStderr /\ Alive(c) /\ ReaderEnds(c)

-----------------------------------------------------------------------------
(* The children themselves (external: llama-server and the kernel).        *)

\* The model is loaded: the child answers, or dies if the port is taken.
Boot(c) ==
  /\ os[c] = "booting"
  /\ os' = [os EXCEPT ![c] = IF Listening THEN "exited" ELSE "listening"]
  /\ signalled' = IF Listening THEN signalled \ {c} ELSE signalled
  /\ UNCHANGED <<state, child, cfgOf, reader>>

\* The child exits, because it was told to or because it crashed.
Exit(c) ==
  /\ Alive(c)
  /\ os' = [os EXCEPT ![c] = "exited"]
  /\ signalled' = signalled \ {c}
  /\ UNCHANGED <<state, child, cfgOf, reader>>

ChildStep ==
  \E c \in Children : ReaderEof(c) \/ ReaderGivesUp(c) \/ Boot(c) \/ Exit(c)
=============================================================================
