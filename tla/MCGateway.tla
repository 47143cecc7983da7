----------------------------- MODULE MCGateway ------------------------------
(***************************************************************************)
(* Small instances of Gateway.  "a" and "b" are files; "alias" is an entry *)
(* for the file of "b" whose name is no part of the file name, "part" is   *)
(* part of that name, "other" is unknown.                                  *)
(***************************************************************************)
EXTENDS Gateway, TLC

MCConfig0 == [model |-> "a", ctx |-> "small"]
MCDefs    == [m \in Models |-> NoCtx]
MCStem    == [m \in Models |-> m]
MCPart    == {<<n, n>> : n \in Names} \cup {<<"part", "b">>}
MCFound   == <<"a", "b">>
MCDefined == IF "alias" \in Names THEN <<[name |-> "alias", file |-> "b"]>>
                                  ELSE <<[name |-> "b", file |-> "b"]>>

Symmetry ==
  UNION {Permutations(S) : S \in {Procs, Children, Tasks, Clients}}
=============================================================================
