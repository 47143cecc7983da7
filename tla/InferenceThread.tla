--------------------------- MODULE InferenceThread ---------------------------
(***************************************************************************)
(* The in-process backend of `run` and `bench` (model/llama_cpp.rs): one   *)
(* thread owns the llama.cpp context, takes commands one at a time and     *)
(* streams the tokens of an answer through a bounded channel of the        *)
(* request's own.  PrefixCache (kv_cache/prefix_cache.rs) records which    *)
(* prompt the context's KV cache begins with, so that the next request     *)
(* decodes only what is new.                                               *)
(*                                                                         *)
(* A token stands for itself and for its text; the sampler may pick any.   *)
(* llama.cpp is external: a decode must begin where the KV cache ends and  *)
(* fit the context, may fail anyway, and then may have stored a part.      *)
(***************************************************************************)
EXTENDS Integers, Sequences, SequencesExt

CONSTANTS
  Tokens,       \* the vocabulary
  PromptTokens, \* bound: the tokens prompts are made of
  NoToken,      \* no token has been sampled
  Silent,       \* the tokens of it that have no text of their own
  StopStrings,  \* stop strings, each as the tokens whose texts it joins
  MaxPrompt,    \* bound: tokens of a prompt
  MaxAnswer,    \* bound: max_tokens of a request
  Batch,        \* n_batch
  Context,      \* n_ctx
  Cap           \* EVENT_CHANNEL_CAPACITY (64 in the code)

ASSUME InferenceAssumption ==
  /\ NoToken \notin Tokens
  /\ Silent \subseteq Tokens /\ PromptTokens \subseteq Tokens
  /\ StopStrings \subseteq Seq(Tokens \ Silent) \ {<<>>}
  /\ MaxPrompt \in Nat \ {0} /\ MaxAnswer \in Nat
  /\ Batch \in Nat \ {0} /\ Context \in Nat \ {0} /\ Cap \in Nat \ {0}

VARIABLES
  kv,      \* the tokens in the KV cache, by position
  cached,  \* PrefixCache.cached_tokens
  logits,  \* the tokens whose decoding left the logits the sampler reads
  pc,      \* where the thread is
  work,    \* the request: prompt, max_tokens, n_past, next position, tokens
           \* generated, and the token just sampled
  chan,    \* the request's event channel
  client,  \* does its receiver still exist ?
  got      \* what the receiver has read

vars == <<kv, cached, logits, pc, work, chan, client, got>>

Prompts == UNION {[1 .. n -> PromptTokens] : n \in 1 .. MaxPrompt}

\* GenerateEvent; Done carries context_tokens and finish_reason.
Text(t)  == [kind |-> "token", token |-> t]
Done(n)  == [kind |-> "done",  context |-> n, reason |-> "stop"]
Error    == [kind |-> "error"]
IsEnd(e) == e.kind \in {"done", "error"}

Idle == [prompt |-> <<>>, max |-> 0, past |-> 0, at |-> 0, made |-> <<>>, token |-> NoToken]

Events   == {Text(t) : t \in Tokens} \cup {Done(n) : n \in Nat} \cup {Error}
Requests == [prompt : Seq(Tokens), max : 0 .. MaxAnswer, past : 0 .. MaxPrompt,
             at : 0 .. MaxPrompt, made : Seq(Tokens), token : Tokens \cup {NoToken}]

TypeOK ==
  /\ kv \in Seq(Tokens) /\ Len(kv) <= Context
  /\ cached \in Seq(Tokens) /\ logits \in Seq(Tokens)
  /\ pc \in {"idle", "prefill", "sample", "send", "last", "step", "finish", "fail"}
  /\ work \in Requests /\ Len(work.made) <= work.max
  /\ got \in Seq(Events)
  /\ chan \in Seq(Events) /\ Len(chan) <= Cap
  /\ client \in {"reading", "gone"}

-----------------------------------------------------------------------------
(* llama.cpp.                                                              *)

CanDecode(toks, pos) == pos = Len(kv) /\ Len(kv) + Len(toks) <= Context

DecodeOk(toks, pos) ==
  /\ CanDecode(toks, pos)
  /\ kv' = kv \o toks /\ logits' = kv \o toks

DecodeFails(toks, pos) ==
  /\ \E n \in IF CanDecode(toks, pos) THEN 0 .. Len(toks) ELSE {0} :
       kv' = kv \o SubSeq(toks, 1, n)
  /\ UNCHANGED logits

\* Removing the end of a sequence: a model with M-RoPE may refuse it.
Trim(n) == kv' \in {SubSeq(kv, 1, n), kv}

-----------------------------------------------------------------------------
(* PrefixCache.                                                            *)

\* common_prefix_len: they agree as far as this, and no further.
Agree(s, t, n) == n <= Len(s) /\ n <= Len(t) /\ \A i \in 1 .. n : s[i] = t[i]
Common(s, t)   == CHOOSE n \in 0 .. Len(s) : Agree(s, t, n) /\ ~Agree(s, t, n + 1)

\* Mutant: the whole of a known prompt is skipped.
PastAll(known, prompt) == Common(known, prompt)

\* How much of the prompt to skip: the last token is always decoded again.
Past(known, prompt) ==
  LET raw == Common(known, prompt) - 1
      all == Len(prompt) - 1
  IN  IF raw < 0 THEN 0 ELSE IF raw < all THEN raw ELSE all

-----------------------------------------------------------------------------
(* The thread.                                                             *)

\* do_generate, up to the prefill loop.
Begin(prompt, max, known) ==
  LET past == Past(known, prompt)
  IN  /\ work' = [Idle EXCEPT !.prompt = prompt, !.max = max, !.past = past, !.at = past]
      /\ IF past = 0 THEN kv' = <<>> ELSE Trim(past)
      /\ pc' = "prefill"

\* A Generate command, with an event channel of its own (that of an earlier one
\* is followed no further); its receiver may have been dropped already.
Take ==
  /\ pc = "idle"
  /\ \E prompt \in Prompts, max \in 0 .. MaxAnswer : Begin(prompt, max, cached)
  /\ chan' = <<>> /\ got' = <<>> /\ client' \in {"reading", "gone"}
  /\ UNCHANGED <<cached, logits>>

\* The prompt cannot be tokenized.
TakeFails ==
  /\ pc = "idle"
  /\ pc' = "fail" /\ work' = Idle
  /\ cached' = <<>>
  /\ chan' = <<>> /\ got' = <<>> /\ client' \in {"reading", "gone"}
  /\ UNCHANGED <<kv, logits>>

\* The next chunk of at most n_batch tokens.
Chunk ==
  LET rest == SubSeq(work.prompt, work.at + 1, Len(work.prompt))
  IN  SubSeq(rest, 1, IF Len(rest) < Batch THEN Len(rest) ELSE Batch)

Prefill ==
  /\ pc = "prefill" /\ work.at < Len(work.prompt)
  /\ DecodeOk(Chunk, work.at)
  /\ work' = [work EXCEPT !.at = @ + Len(Chunk)]
  /\ UNCHANGED <<cached, pc, chan, client, got>>

\* Mutant: the record keeps what the retry is about to clear.
RetriesWarm ==
  /\ pc = "prefill" /\ work.at < Len(work.prompt) /\ work.past > 0
  /\ Begin(work.prompt, work.max, cached)
  /\ UNCHANGED <<cached, logits, chan, client, got>>

\* A chunk fails behind a reused prefix: everything is decoded again.
PrefillRetries ==
  /\ pc = "prefill" /\ work.at < Len(work.prompt) /\ work.past > 0
  /\ cached' = <<>>
  /\ Begin(work.prompt, work.max, <<>>)
  /\ UNCHANGED <<logits, chan, client, got>>

\* Mutant: an error leaves the record as it is.
FailsAndKeeps ==
  /\ pc = "prefill" /\ work.at < Len(work.prompt) /\ work.past = 0
  /\ DecodeFails(Chunk, work.at)
  /\ pc' = "fail"
  /\ UNCHANGED <<cached, work, chan, client, got>>

\* A chunk of a cold prefill fails: the command does.
PrefillFails ==
  /\ pc = "prefill" /\ work.at < Len(work.prompt) /\ work.past = 0
  /\ DecodeFails(Chunk, work.at)
  /\ pc' = "fail" /\ cached' = <<>>
  /\ UNCHANGED <<work, chan, client, got>>

\* prefix_cache.update.
PrefillEnds ==
  /\ pc = "prefill" /\ work.at = Len(work.prompt)
  /\ cached' = work.prompt
  /\ pc' = "sample"
  /\ UNCHANGED <<kv, logits, work, chan, client, got>>

\* max_tokens, or an end-of-generation token.
SampleEnds ==
  /\ pc = "sample"
  /\ pc' = "finish"
  /\ UNCHANGED <<kv, cached, logits, work, chan, client, got>>

\* A token: its text is sent, up to a stop string that occurs in it.  What
\* stands before a stop string may be empty, and is not sent then.
Sample ==
  /\ pc = "sample" /\ Len(work.made) < work.max
  /\ \E t \in Tokens \ Silent :
       /\ work' = [work EXCEPT !.token = t]
       /\ pc' \in IF <<t>> \in StopStrings THEN {"last", "finish"} ELSE {"send"}
  /\ UNCHANGED <<kv, cached, logits, chan, client, got>>

\* A token without text is not sent, and counts all the same.
SampleSilent ==
  /\ pc = "sample" /\ Len(work.made) < work.max
  /\ \E t \in Silent : work' = [work EXCEPT !.token = t, !.made = Append(@, t)]
  /\ pc' = "step"
  /\ UNCHANGED <<kv, cached, logits, chan, client, got>>

\* token_to_str fails.
SampleFails ==
  /\ pc = "sample" /\ Len(work.made) < work.max
  /\ pc' = "fail" /\ cached' = <<>>
  /\ UNCHANGED <<kv, logits, work, chan, client, got>>

\* blocking_send waits for room.
Sends(e) == client = "reading" /\ Len(chan) < Cap /\ chan' = Append(chan, e)

Send ==
  /\ pc \in {"send", "last"}
  /\ Sends(Text(work.token))
  /\ pc' = IF pc = "send" THEN "step" ELSE "finish"
  /\ work' = IF pc = "send" THEN [work EXCEPT !.made = Append(@, work.token)] ELSE work
  /\ UNCHANGED <<kv, cached, logits, client, got>>

SendFails ==
  /\ pc \in {"send", "last"} /\ client = "gone"
  /\ pc' = "finish"
  /\ UNCHANGED <<kv, cached, logits, work, chan, client, got>>

\* The token joins the KV cache.
Step ==
  /\ pc = "step"
  /\ DecodeOk(<<work.token>>, Len(work.prompt) + Len(work.made) - 1)
  /\ pc' = "sample"
  /\ UNCHANGED <<cached, work, chan, client, got>>

StepFails ==
  /\ pc = "step"
  /\ DecodeFails(<<work.token>>, Len(work.prompt) + Len(work.made) - 1)
  /\ pc' = "fail" /\ cached' = <<>>
  /\ UNCHANGED <<work, chan, client, got>>

\* The terminal event, which nobody may be there to take; the sender is dropped.
End(e) ==
  /\ \/ Sends(e)
     \/ client = "gone" /\ UNCHANGED chan
  /\ pc' = "idle"
  /\ UNCHANGED <<kv, cached, logits, work, client, got>>

\* Mutant: the error is logged and not sent.
FailSilent ==
  /\ pc = "fail" /\ pc' = "idle"
  /\ UNCHANGED <<kv, cached, logits, work, chan, client, got>>

Finish == pc = "finish" /\ End(Done(Len(work.prompt) + Len(work.made)))
Fail   == pc = "fail" /\ End(Error)

\* ReconfigureContext; when it fails the old context and its record stay.
Rebuild ==
  /\ pc = "idle"
  /\ kv' = <<>> /\ logits' = <<>> /\ cached' = <<>>
  /\ UNCHANGED <<pc, work, chan, client, got>>

-----------------------------------------------------------------------------
(* TokenStream: the receiver of the request's events.                      *)

Read ==
  /\ client = "reading" /\ chan # <<>>
  /\ got' = Append(got, Head(chan)) /\ chan' = Tail(chan)
  /\ UNCHANGED <<kv, cached, logits, pc, work, client>>

Leave ==
  /\ client = "reading" /\ pc # "idle"
  /\ client' = "gone" /\ chan' = <<>>
  /\ UNCHANGED <<kv, cached, logits, pc, work, got>>

-----------------------------------------------------------------------------
Init ==
  /\ kv = <<>> /\ cached = <<>> /\ logits = <<>>
  /\ pc = "idle" /\ work = Idle
  /\ chan = <<>> /\ client = "gone" /\ got = <<>>

Run == \/ Prefill \/ PrefillRetries \/ PrefillFails \/ PrefillEnds
       \/ SampleEnds \/ Sample \/ SampleSilent \/ SampleFails \/ Send \/ SendFails
       \/ Step \/ StepFails \/ Finish \/ Fail

Next == Take \/ TakeFails \/ Rebuild \/ Run \/ Read \/ Leave

Spec == Init /\ [][Next]_vars

\* The thread runs, and a receiver reads on or is dropped.
FairSpec == Spec /\ WF_vars(Run) /\ WF_vars(Read \/ Leave)

-----------------------------------------------------------------------------
(* Properties.                                                             *)

\* Between commands the record is true: what PrefixCache says is resident is
\* what the KV cache begins with, after a success, after every failure half-way
\* through, after a refused trim and after a rebuild (prefix_cache.rs:13).
RecordResident == pc = "idle" => IsPrefix(cached, kv)

\* A token is sampled from logits of the whole prompt and of every token of the
\* answer so far, all of it in the KV cache in order, however much of it was
\* skipped as known: never from logits of an earlier request (llama_cpp.rs:322).
\* So context_tokens, reported with Done, is what the context holds (471-476).
SamplesInContext ==
  /\ pc \in {"sample", "finish"} => kv = work.prompt \o work.made
  /\ pc = "sample" => logits = kv

\* The receiver hears tokens and then exactly one Done or Error (backend.rs:84).
OneEnd ==
  LET events == got \o chan
      ends   == {i \in 1 .. Len(events) : IsEnd(events[i])}
  IN  client = "reading" => ends = IF pc = "idle" THEN {Len(events)} ELSE {}

\* A command ends whatever the receiver does: a stale prefix is retried once
\* and a dropped receiver stops the generation, so the next command has its turn.
CommandsEnd == (pc # "idle") ~> (pc = "idle")

-----------------------------------------------------------------------------
(* What comments say, and the code does not do.                            *)

\* "Generation halts when any of these strings appears in the output"
\* (backend.rs:54).
StopStringsHalt ==
  \A s \in StopStrings, n \in 1 .. Len(work.made) - 1 : ~IsSuffix(s, SubSeq(work.made, 1, n))

\* 'The reason generation stopped (e.g., "stop", "length")' (backend.rs:78): an
\* answer cut at max_tokens is told from one the model ended.
LengthIsTold ==
  \A i \in 1 .. Len(chan) : IsEnd(chan[i]) /\ chan[i].kind = "done"
                             /\ work.max > 0 /\ Len(work.made) = work.max
                               => chan[i].reason = "length"
=============================================================================
