-------------------------- MODULE MCInferenceThread --------------------------
(***************************************************************************)
(* Small instances of InferenceThread.                                     *)
(***************************************************************************)
EXTENDS InferenceThread

StopAtB  == {<<"b">>}
StopAtAB == {<<"a", "b">>}
=============================================================================
