---------------------------- MODULE BackendSwap -----------------------------
(***************************************************************************)
(* What the `switching` flag promises, without processes or health polls:  *)
(* one holder at a time; a holder publishes a configuration at most once,  *)
(* and only after that may it install a process, at most once; nobody else *)
(* writes the configuration or the process pointer.                        *)
(***************************************************************************)
CONSTANTS Workers, Configs, Procs

VARIABLES
  holders,  \* who holds the flag
  phase,    \* how far the holder has come
  config,   \* the published configuration
  current   \* the installed process

vars == <<holders, phase, config, current>>

Init ==
  /\ holders = {}
  /\ phase = "free"
  /\ config \in Configs
  /\ current \in Procs

Acquire(w) ==
  /\ holders = {}
  /\ holders' = {w}
  /\ phase' = "held"
  /\ UNCHANGED <<config, current>>

Publish ==
  /\ phase = "held"
  /\ phase' = "published"
  /\ config' \in Configs
  /\ UNCHANGED <<holders, current>>

Install ==
  /\ phase = "published"
  /\ phase' = "done"
  /\ current' \in Procs
  /\ UNCHANGED <<holders, config>>

\* A failed switch ends after it published; a recovery never publishes.
Finish ==
  /\ phase \in {"held", "published"}
  /\ phase' = "done"
  /\ UNCHANGED <<holders, config, current>>

Release ==
  /\ phase = "done"
  /\ holders' = {}
  /\ phase' = "free"
  /\ UNCHANGED <<config, current>>

Next == (\E w \in Workers : Acquire(w)) \/ Publish \/ Install \/ Finish \/ Release

Spec == Init /\ [][Next]_vars
=============================================================================
