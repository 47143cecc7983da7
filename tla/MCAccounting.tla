---------------------------- MODULE MCAccounting ----------------------------
(***************************************************************************)
(* A small instance of Accounting: two streams and a whole response, each  *)
(* with a sample of its own, the slowest in the middle.                    *)
(***************************************************************************)
EXTENDS Accounting

MCSample == [r \in Reqs |->
  CASE r = "s" -> [tokens |-> 1, speed |-> 2, why |-> "stop"]
    [] r = "t" -> [tokens |-> 2, speed |-> 1, why |-> "length"]
    [] r = "w" -> [tokens |-> 1, speed |-> 3, why |-> "tool_use"]]
=============================================================================
