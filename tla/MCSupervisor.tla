---------------------------- MODULE MCSupervisor ----------------------------
(***************************************************************************)
(* Small instances of Supervisor.                                          *)
(***************************************************************************)
EXTENDS Supervisor, TLC

\* Model "a" has no override of its own; "b" asks for a larger context.
MCConfig0 == [model |-> "a", ctx |-> "small"]
MCDefs    == [m \in Models |-> IF m = "b" THEN "large" ELSE NoCtx]

Symmetry ==
  UNION {Permutations(S) : S \in {Procs, Children, Tasks, Admins, Clients, Borrowers}}
=============================================================================
