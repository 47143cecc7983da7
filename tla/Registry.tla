------------------------------ MODULE Registry ------------------------------
(***************************************************************************)
(* ModelRegistry (model/registry.rs) and GET /v1/models (routes/models.rs):*)
(* which file a name in a request stands for, and which names the loaded   *)
(* model answers to.                                                       *)
(*                                                                         *)
(* Names are taken without their case.  What matters of two names is       *)
(* whether one is part of the other.                                       *)
(***************************************************************************)
EXTENDS Naturals, Sequences

CONSTANTS
  Names,    \* names: of requests, of [[models]] entries, stems of files
  Files,    \* model files
  Stem,     \* [Files -> Names]
  Part,     \* <<m, n>>: the name m is contained in the name n
  Wild,     \* the names that stand for whatever is loaded: "" and "local"
  Defined,  \* the [[models]] entries, in order: [name, file]
  Found,    \* the files that scan finds in models_dir, in order
  NoModel   \* the name is unknown

NamesOK ==
  /\ NoModel \notin Files
  /\ Stem \in [Files -> Names] /\ Wild \subseteq Names
  /\ Part \subseteq Names \X Names
  /\ \A n \in Names : <<n, n>> \in Part
  /\ \A l, m, n \in Names : <<l, m>> \in Part /\ <<m, n>> \in Part => <<l, n>> \in Part
  /\ Defined \in Seq([name : Names, file : Files]) /\ Found \in Seq(Files)

-----------------------------------------------------------------------------
Least(S) == CHOOSE i \in S : \A j \in S : i <= j

\* The entries of [[models]] with this name, those with a name it is part of, and
\* the files it is part of; find takes the first.
Exact(n)   == {i \in DOMAIN Defined : Defined[i].name = n}
Partial(n) == {i \in DOMAIN Defined : <<n, Defined[i].name>> \in Part}
Stems(n)   == {i \in DOMAIN Found : <<n, Stem[Found[i]]>> \in Part}

\* An exact name, then part of one, then part of a file name.
Resolve(n) ==
  IF Exact(n) # {} THEN Defined[Least(Exact(n))].file
  ELSE IF Partial(n) # {} THEN Defined[Least(Partial(n))].file
  ELSE IF Stems(n) # {} THEN Found[Least(Stems(n))]
  ELSE NoModel

\* Mutant: the loaded model answers to its full name only.
MatchesExactly(n, f) == n \in Wild \/ n = Stem[f]

MatchesCurrent(n, f) == n \in Wild \/ <<n, Stem[f]>> \in Part

\* list_models: the entries, then the files that are not among them by name.
Listed == {Defined[i].name : i \in DOMAIN Defined} \cup {Stem[Found[i]] : i \in DOMAIN Found}

\* ... with the loaded model marked as active.
Active(n, f) == n = Stem[f]

-----------------------------------------------------------------------------
(* Conditions on a configuration.                                          *)

\* Every entry is named after its file, or after a part of its name.
NamesFit == \A i \in DOMAIN Defined : <<Defined[i].name, Stem[Defined[i].file]>> \in Part

\* "substring match on file stem" (registry.rs:90), and a listed file is loaded
\* under its own name: not so when an entry, or an earlier file, contains it.
ListedLoadsItself == \A i \in DOMAIN Found : Stem[Resolve(Stem[Found[i]])] = Stem[Found[i]]

\* "The currently-loaded model is annotated with "active": true" (models.rs:7):
\* not so for an entry with a name of its own.
ActiveIsListed == \A i \in DOMAIN Defined : Active(Defined[i].name, Defined[i].file)
=============================================================================
