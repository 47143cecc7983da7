---------------------------- MODULE MetricsWindow ----------------------------
(***************************************************************************)
(* MetricsCollector (metrics.rs): two running totals and the window of the *)
(* latest completed requests, from which percentiles are read.             *)
(*                                                                         *)
(* The totals are atomics, the window is behind a lock: recording one      *)
(* request is three steps that a reader can fall between.                  *)
(***************************************************************************)
EXTENDS Integers, Sequences, FiniteSets, SequencesExt

CONSTANT Window   \* requests remembered (100 in the code)

ASSUME WindowAssumption == Window \in Nat \ {0}

VARIABLES
  total,      \* total_requests
  generated,  \* total_tokens_generated (total_prompt_tokens moves with it)
  recent      \* recent: samples [tokens, speed, why]

metricsVars == <<total, generated, recent>>

MetricsStart == total = 0 /\ generated = 0 /\ recent = <<>>

\* What one completed request adds, in steps.
IncRequests  == total' = total + 1
AddTokens(m) == generated' = generated + m.tokens

PushRecent(m) ==
  recent' = Append(IF Len(recent) >= Window THEN Tail(recent) ELSE recent, m)

-----------------------------------------------------------------------------
\* Mutant: the index counts the gaps between the values.
IndexOfGaps(pct, n) == (pct * (n - 1)) \div 100

\* Where percentile pct stands among n sorted values, counted from zero.
Index(pct, n) ==
  LET i == (pct * n) \div 100
  IN  IF i <= n - 1 THEN i ELSE n - 1

Speeds == [i \in DOMAIN recent |-> recent[i].speed]

\* An order of the places of a sequence in which its values ascend.
Ascends(s, order) ==
  IsInjective(order) /\ \A i, j \in DOMAIN s : i < j => s[order[i]] <= s[order[j]]

Sorted(s) ==
  LET order == CHOOSE p \in [DOMAIN s -> DOMAIN s] : Ascends(s, p)
  IN  [i \in DOMAIN s |-> s[order[i]]]

\* tps_percentiles; the two other families differ in the field only.
Percentile(pct) == IF recent = <<>> THEN 0 ELSE Sorted(Speeds)[Index(pct, Len(recent)) + 1]

\* finish_reason_counts: what is neither "length" nor a tool call is a stop.
Reason(why) == IF why \in {"tool_calls", "tool_use"} THEN "tool_calls"
               ELSE IF why = "length" THEN "length" ELSE "stop"

FinishReasons ==
  [reason \in {"stop", "length", "tool_calls"} |->
     Cardinality({i \in DOMAIN recent : Reason(recent[i].why) = reason})]

\* recent_snapshot, summed up.
RecentTokens == SumFunction([i \in DOMAIN recent |-> recent[i].tokens])

=============================================================================
