----------------------- MODULE InferenceThreadProofs -----------------------
(***************************************************************************)
(* InferenceThread, for every vocabulary, batch, context and channel: the  *)
(* record of the prefix cache is true, every token is sampled in its own   *)
(* context, and a receiver hears of exactly one end.                       *)
(*                                                                         *)
(* Inv follows a command: what the KV cache holds while the prompt goes in *)
(* (Prefilling) and while the answer comes out (Answering), what the       *)
(* record says at every point where the command can end (Recorded), and    *)
(* what the receiver was sent (Ended).                                     *)
(***************************************************************************)
EXTENDS InferenceThread, SequenceTheorems, FiniteSetTheorems, TLAPS

\* A set of numbers that is not empty has a least one: the intervals up to its
\* members are finite, and one of them is inside all others.
LEMMA LeastMember ==
  ASSUME NEW S \in SUBSET Nat, S # {}
  PROVE  \E n \in S : \A m \in S : n <= m
<1> DEFINE Intervals == {1 .. n : n \in S}
<1>1. Intervals \subseteq FiniteSubsetsOf(Nat)
  BY FS_Interval DEF FiniteSubsetsOf
<1>2. Intervals # {}
  OBVIOUS
<1>3. \E x \in Intervals : \A y \in Intervals : <<y, x>> \notin StrictSubsetOrdering(Nat)
  <2> HIDE DEF Intervals
  <2> QED BY <1>1, <1>2, FS_StrictSubsetOrderingWellFounded, WFMin
<1>4. PICK n \in S : \A m \in S : <<1 .. m, 1 .. n>> \notin StrictSubsetOrdering(Nat)
  BY <1>3
<1>5. ASSUME NEW m \in S, m < n PROVE FALSE
  <2>1. 1 .. m \subseteq 1 .. n /\ 1 .. m # 1 .. n
    BY <1>5
  <2>2. 1 .. m \in SUBSET Nat /\ 1 .. n \in SUBSET Nat
    OBVIOUS
  <2>3. \A a, b \in SUBSET Nat : a \subseteq b /\ a # b => <<a, b>> \in StrictSubsetOrdering(Nat)
    BY DEF StrictSubsetOrdering
  <2> QED BY ONLY <1>4, <2>1, <2>2, <2>3
<1> QED BY <1>4, <1>5

\* The common prefix of two prompts exists.
LEMMA CommonIsLongest ==
  ASSUME NEW s \in Seq(Tokens), NEW t \in Seq(Tokens)
  PROVE  Common(s, t) \in 0 .. Len(s) /\ Agree(s, t, Common(s, t))
<1> DEFINE Apart == {n \in Nat : ~Agree(s, t, n + 1)}
<1>1. Len(s) \in Apart
  BY DEF Agree
<1>2. PICK n \in Apart : \A m \in Apart : n <= m
  BY <1>1, LeastMember
<1>3. Agree(s, t, n)
  <2>1. CASE n = 0
    BY <2>1 DEF Agree
  <2>2. CASE n # 0
    BY <1>2, <2>2
  <2> QED BY <2>1, <2>2
<1>4. n \in 0 .. Len(s) /\ Agree(s, t, n) /\ ~Agree(s, t, n + 1)
  BY <1>2, <1>3 DEF Agree
<1> QED BY <1>4 DEF Common

-----------------------------------------------------------------------------
\* While a prompt is decoded, the KV cache begins with as much of it as the next
\* chunk comes after, and holds nothing else once a chunk was decoded.
Prefilling ==
  pc = "prefill" =>
    /\ work.past < Len(work.prompt) /\ Len(work.prompt) <= MaxPrompt
    /\ work.past <= work.at /\ work.at <= Len(work.prompt)
    /\ Agree(kv, work.prompt, work.at)
    /\ work.past < work.at => Len(kv) = work.at /\ logits = kv
    /\ work.made = <<>>

\* While an answer is generated, the KV cache holds the prompt and the answer, but
\* for a token that is about to be decoded.
Answering ==
  /\ pc \in {"sample", "send", "last", "finish"} => kv = work.prompt \o work.made
  /\ pc = "sample" => logits = kv
  /\ pc = "step" => kv \o <<work.token>> = work.prompt \o work.made
  /\ pc \in {"send", "last", "step"} => work.token \in Tokens
  /\ pc = "send" => Len(work.made) < work.max

\* The record, at every point of a command at which it can end.
Recorded ==
  /\ pc \in {"sample", "send", "last", "step", "finish"} => cached = work.prompt
  /\ pc = "idle" => Agree(kv, cached, Len(cached))
  /\ pc = "fail" => cached = <<>>

\* What was sent to the receiver ends where the thread is idle again.
Ended ==
  LET events == got \o chan
  IN  client = "reading" =>
        /\ \A i \in 1 .. Len(events) : IsEnd(events[i]) <=> pc = "idle" /\ i = Len(events)
        /\ pc = "idle" => events # <<>>

Inv == TypeOK /\ Prefilling /\ Answering /\ Recorded /\ Ended

-----------------------------------------------------------------------------
\* The part of the prompt that is skipped is in the record too, and never all of it.
LEMMA PastIsShared ==
  ASSUME NEW known \in Seq(Tokens), NEW prompt \in Seq(Tokens), prompt # <<>>
  PROVE  /\ Past(known, prompt) \in Nat
         /\ Past(known, prompt) < Len(prompt)
         /\ Past(known, prompt) <= Len(known)
         /\ Agree(known, prompt, Past(known, prompt))
<1> DEFINE n == Common(known, prompt)
<1>1. n \in 0 .. Len(known) /\ Agree(known, prompt, n)
  BY CommonIsLongest
<1>2. Len(prompt) \in Nat /\ Len(prompt) > 0
  OBVIOUS
<1> HIDE DEF n
<1>3. Past(known, prompt) = IF n - 1 < 0 THEN 0 ELSE IF n - 1 < Len(prompt) - 1 THEN n - 1 ELSE Len(prompt) - 1
  BY DEF Past, n
<1> QED BY <1>1, <1>2, <1>3 DEF Agree

\* A prompt is not empty, and of tokens.
LEMMA PromptsAre ==
  ASSUME NEW prompt \in Prompts
  PROVE  prompt \in Seq(Tokens) /\ prompt # <<>> /\ Len(prompt) <= MaxPrompt
<1>1. PICK n \in 1 .. MaxPrompt : prompt \in [1 .. n -> PromptTokens]
  BY DEF Prompts
<1>2. PromptTokens \subseteq Tokens /\ MaxPrompt \in Nat
  BY InferenceAssumption
<1>3. prompt \in Seq(Tokens) /\ Len(prompt) = n
  BY <1>1, <1>2
<1> QED BY <1>1, <1>2, <1>3

\* The start of a prefill, from a record that is true.
LEMMA BeginKeeps ==
  ASSUME TypeOK, NEW prompt \in Seq(Tokens), prompt # <<>>, Len(prompt) <= MaxPrompt,
         NEW max \in 0 .. MaxAnswer,
         NEW known \in Seq(Tokens), Agree(kv, known, Len(known)) \/ known = <<>>,
         Begin(prompt, max, known)
  PROVE  /\ kv' \in Seq(Tokens) /\ Len(kv') <= Context
         /\ work' \in Requests /\ Len(work'.made) <= work'.max
         /\ pc' = "prefill" /\ Prefilling'
<1> DEFINE past == Past(known, prompt)
<1>1. past \in Nat /\ past < Len(prompt) /\ past <= Len(known) /\ Agree(known, prompt, past)
  BY PastIsShared
<1>2. work' = [prompt |-> prompt, max |-> max, past |-> past, at |-> past, made |-> <<>>, token |-> NoToken]
  BY DEF Begin, Idle
<1>3. pc' = "prefill"
  BY DEF Begin
<1>4. past = 0 => kv' = <<>>
  BY DEF Begin
<1>5. past # 0 => kv' = kv \/ kv' = SubSeq(kv, 1, past)
  BY DEF Begin, Trim
<1> HIDE DEF past
<1>6. Len(prompt) \in Nat /\ Len(kv) \in Nat /\ Len(known) \in Nat /\ Context \in Nat /\ MaxPrompt \in Nat
  BY InferenceAssumption DEF TypeOK
<1>7. past # 0 => Agree(kv, prompt, past)
  BY <1>1, <1>6 DEF Agree
<1>8. kv' \in Seq(Tokens) /\ Len(kv') <= Context /\ Agree(kv', prompt, past)
  <2>1. CASE past = 0
    BY <2>1, <1>4, <1>6 DEF Agree
  <2>2. CASE past # 0 /\ kv' = kv
    BY <2>2, <1>7 DEF TypeOK
  <2>3. CASE past # 0 /\ kv' = SubSeq(kv, 1, past)
    <3>1. past <= Len(kv)
      BY <2>3, <1>7 DEF Agree
    <3>2. kv' \in Seq(Tokens) /\ Len(kv') = past /\ \A i \in 1 .. past : kv'[i] = kv[i]
      BY <2>3, <3>1, <1>1, <1>6 DEF TypeOK
    <3> QED BY <2>3, <3>1, <3>2, <1>1, <1>6, <1>7 DEF Agree, TypeOK
  <2> QED BY <2>1, <2>2, <2>3, <1>5
<1>9. work' \in Requests /\ Len(work'.made) <= work'.max
  BY <1>1, <1>2, <1>6, InferenceAssumption DEF Requests
<1>10. Prefilling'
  BY <1>1, <1>2, <1>3, <1>6, <1>8 DEF Prefilling
<1> QED BY <1>3, <1>8, <1>9, <1>10

\* The next chunk is of the prompt, and not empty.
LEMMA ChunkIsNext ==
  ASSUME TypeOK, work.at < Len(work.prompt)
  PROVE  /\ Chunk \in Seq(Tokens)
         /\ Len(Chunk) \in 1 .. Len(work.prompt) - work.at
         /\ \A i \in 1 .. Len(Chunk) : Chunk[i] = work.prompt[work.at + i]
<1> DEFINE from == work.at
           prompt == work.prompt
           rest == SubSeq(prompt, from + 1, Len(prompt))
           size == IF Len(rest) < Batch THEN Len(rest) ELSE Batch
<1>1. from \in Nat /\ prompt \in Seq(Tokens) /\ Len(prompt) \in Nat /\ from < Len(prompt)
  BY DEF TypeOK, Requests
<1>2. Chunk = SubSeq(rest, 1, size)
  BY DEF Chunk
<1> HIDE DEF from, prompt
<1>3. /\ rest \in Seq(Tokens) /\ Len(rest) = Len(prompt) - from
      /\ \A i \in 1 .. Len(rest) : rest[i] = prompt[from + i]
  BY <1>1
<1>4. size \in 1 .. Len(rest)
  BY <1>1, <1>3, InferenceAssumption
<1> HIDE DEF rest, size
<1>5. /\ SubSeq(rest, 1, size) \in Seq(Tokens) /\ Len(SubSeq(rest, 1, size)) = size
      /\ \A i \in 1 .. size : SubSeq(rest, 1, size)[i] = rest[i]
  BY <1>3, <1>4
<1>6. /\ Chunk \in Seq(Tokens) /\ Len(Chunk) \in 1 .. Len(prompt) - from
      /\ \A i \in 1 .. Len(Chunk) : Chunk[i] = prompt[from + i]
  BY <1>1, <1>2, <1>3, <1>4, <1>5
<1> QED BY <1>6 DEF from, prompt

\* A decode leaves the KV cache well-typed and inside the context.
LEMMA DecodeKeeps ==
  ASSUME TypeOK, NEW toks \in Seq(Tokens), NEW pos, DecodeOk(toks, pos) \/ DecodeFails(toks, pos)
  PROVE  kv' \in Seq(Tokens) /\ Len(kv') <= Context /\ logits' \in Seq(Tokens)
<1>1. Len(toks) \in Nat /\ Len(kv) \in Nat /\ Context \in Nat
  BY InferenceAssumption DEF TypeOK
<1>2. CASE DecodeOk(toks, pos)
  BY <1>1, <1>2, ConcatProperties DEF DecodeOk, CanDecode, TypeOK
<1>3. CASE DecodeFails(toks, pos)
  <2>1. PICK n \in IF CanDecode(toks, pos) THEN 0 .. Len(toks) ELSE {0} : kv' = kv \o SubSeq(toks, 1, n)
    BY <1>3 DEF DecodeFails
  <2>2. n \in 0 .. Len(toks) /\ Len(kv) + n <= Context
    BY <1>1, <2>1 DEF CanDecode, TypeOK
  <2>3. SubSeq(toks, 1, n) \in Seq(Tokens) /\ Len(SubSeq(toks, 1, n)) = n
    BY <1>1, <2>2
  <2> HIDE DEF CanDecode
  <2>4. kv' \in Seq(Tokens) /\ Len(kv') <= Context
    BY <1>1, <2>1, <2>2, <2>3, ConcatProperties DEF TypeOK
  <2> QED BY <1>3, <2>4 DEF DecodeFails, TypeOK
<1> QED BY <1>2, <1>3

\* A token that joins an answer joins prompt and answer together.
LEMMA AppendJoins ==
  ASSUME NEW s \in Seq(Tokens), NEW t \in Seq(Tokens), NEW x \in Tokens
  PROVE  (s \o t) \o <<x>> = s \o Append(t, x)
<1>1. <<x>> \in Seq(Tokens) /\ Append(t, x) = t \o <<x>>
  BY AppendIsConcat
<1> QED BY <1>1, ConcatAssociative

\* What an answer was appended to is at its front.
LEMMA FrontAgrees ==
  ASSUME NEW s \in Seq(Tokens), NEW t \in Seq(Tokens)
  PROVE  Agree(s \o t, s, Len(s))
<1>1. Len(s) \in Nat /\ Len(t) \in Nat /\ Len(s \o t) = Len(s) + Len(t)
  BY ConcatProperties
<1>2. \A i \in 1 .. Len(s) : (s \o t)[i] = s[i]
  <2>1. \A i \in 1 .. Len(s) + Len(t) : (s \o t)[i] = IF i <= Len(s) THEN s[i] ELSE t[i - Len(s)]
    BY ConcatProperties
  <2> QED BY <1>1, <2>1
<1> QED BY <1>1, <1>2 DEF Agree

\* Of an event that joins the channel, what was sent before is no part.
LEMMA EventsGrow ==
  ASSUME NEW s \in Seq(Events), NEW t \in Seq(Events), NEW e \in Events
  PROVE  /\ Len(s \o Append(t, e)) = Len(s \o t) + 1 /\ Len(s \o t) \in Nat
         /\ \A i \in 1 .. Len(s \o t) : (s \o Append(t, e))[i] = (s \o t)[i]
         /\ (s \o Append(t, e))[Len(s \o t) + 1] = e
<1> DEFINE es == s \o t
<1>1. <<e>> \in Seq(Events) /\ Append(t, e) = t \o <<e>>
  BY AppendIsConcat
<1>2. s \o Append(t, e) = es \o <<e>> /\ es \in Seq(Events)
  BY <1>1, ConcatAssociative, ConcatProperties
<1>3. es \o <<e>> = Append(es, e)
  BY <1>2, AppendIsConcat
<1> HIDE DEF es
<1>4. /\ Len(Append(es, e)) = Len(es) + 1 /\ Len(es) \in Nat
      /\ \A i \in 1 .. Len(es) : Append(es, e)[i] = es[i]
      /\ Append(es, e)[Len(es) + 1] = e
  BY <1>2, AppendProperties
<1> QED BY <1>2, <1>3, <1>4 DEF es

-----------------------------------------------------------------------------
\* The invariant holds before the first command, and every step keeps it.
LEMMA InvInit == Init => Inv
<1> SUFFICES ASSUME Init PROVE Inv
  OBVIOUS
<1>1. TypeOK
  BY InferenceAssumption DEF Init, TypeOK, Requests, Idle
<1> QED BY <1>1 DEF Init, Inv, Prefilling, Answering, Recorded, Ended, Agree

\* A command is taken.
LEMMA TakeKeeps == Inv /\ (Take \/ TakeFails) => Inv'
<1> SUFFICES ASSUME Inv, Take \/ TakeFails PROVE Inv'
  OBVIOUS
<1> USE DEF Inv
<1>1. CASE Take
  <2>1. PICK prompt \in Prompts, max \in 0 .. MaxAnswer : Begin(prompt, max, cached)
    BY <1>1 DEF Take
  <2>2. prompt \in Seq(Tokens) /\ prompt # <<>> /\ Len(prompt) <= MaxPrompt
    BY PromptsAre
  <2>3. cached \in Seq(Tokens) /\ Agree(kv, cached, Len(cached))
    BY <1>1 DEF Take, TypeOK, Recorded
  <2>4. /\ kv' \in Seq(Tokens) /\ Len(kv') <= Context
        /\ work' \in Requests /\ Len(work'.made) <= work'.max
        /\ pc' = "prefill" /\ Prefilling'
    BY <2>1, <2>2, <2>3, BeginKeeps
  <2>5. TypeOK'
    BY <1>1, <2>4, InferenceAssumption DEF Take, TypeOK
  <2> QED BY <1>1, <2>4, <2>5 DEF Take, Answering, Recorded, Ended
<1>2. CASE TakeFails
  <2>1. TypeOK'
    BY <1>2, InferenceAssumption DEF TakeFails, TypeOK, Requests, Idle
  <2> QED BY <1>2, <2>1 DEF TakeFails, Prefilling, Answering, Recorded, Ended
<1> QED BY <1>1, <1>2

\* The prompt is decoded.
LEMMA PrefillKeeps == Inv /\ (Prefill \/ PrefillRetries \/ PrefillFails \/ PrefillEnds) => Inv'
<1> SUFFICES ASSUME Inv, Prefill \/ PrefillRetries \/ PrefillFails \/ PrefillEnds PROVE Inv'
  OBVIOUS
<1> USE DEF Inv
<1> DEFINE prompt == work.prompt
           n == Len(Chunk)
<1>0. /\ prompt \in Seq(Tokens) /\ Len(prompt) \in Nat /\ Len(kv) \in Nat /\ kv \in Seq(Tokens)
      /\ work.at \in Nat /\ work.past \in Nat /\ work \in Requests
      /\ MaxPrompt \in Nat
  BY InferenceAssumption DEF TypeOK, Requests
<1>1. CASE Prefill
  <2>1. Chunk \in Seq(Tokens) /\ n \in 1 .. Len(prompt) - work.at
        /\ \A i \in 1 .. n : Chunk[i] = prompt[work.at + i]
    BY <1>1, ChunkIsNext DEF Prefill
  <2>2. kv' = kv \o Chunk /\ logits' = kv' /\ Len(kv) = work.at
    BY <1>1 DEF Prefill, DecodeOk, CanDecode
  <2>3. kv' \in Seq(Tokens) /\ Len(kv') <= Context /\ logits' \in Seq(Tokens)
    BY <1>1, <2>1, DecodeKeeps DEF Prefill
  <2>4. work' = [work EXCEPT !.at = work.at + n] /\ UNCHANGED <<cached, pc, chan, client, got>>
    BY <1>1 DEF Prefill
  <2>5. pc = "prefill" /\ Agree(kv, prompt, work.at) /\ Len(prompt) <= MaxPrompt
    BY <1>1 DEF Prefill, Prefilling
  <2>6. /\ Len(kv') = work.at + n
        /\ \A i \in 1 .. work.at + n : kv'[i] = IF i <= work.at THEN kv[i] ELSE Chunk[i - work.at]
    <3>1. Len(kv \o Chunk) = Len(kv) + n
      BY <1>0, <2>1, ConcatProperties
    <3>2. \A i \in 1 .. Len(kv) + n :
            (kv \o Chunk)[i] = IF i <= Len(kv) THEN kv[i] ELSE Chunk[i - Len(kv)]
      BY <1>0, <2>1, ConcatProperties
    <3> QED BY <2>2, <3>1, <3>2
  <2> HIDE DEF n, prompt
  <2>7. Agree(kv', prompt, work.at + n)
    <3>1. work.at + n <= Len(kv') /\ work.at + n <= Len(prompt)
      BY <1>0, <2>1, <2>6
    <3>2. ASSUME NEW i \in 1 .. work.at + n PROVE kv'[i] = prompt[i]
      <4>1. CASE i <= work.at
        BY <1>0, <4>1, <2>5, <2>6 DEF Agree
      <4>2. CASE i > work.at
        <5>1. i - work.at \in 1 .. n /\ work.at + (i - work.at) = i
          BY <1>0, <2>1, <4>2
        <5>2. kv'[i] = Chunk[i - work.at]
          BY <1>0, <4>2, <2>1, <2>6
        <5>3. Chunk[i - work.at] = prompt[work.at + (i - work.at)]
          BY ONLY <5>1, <2>1
        <5> QED BY <5>1, <5>2, <5>3
      <4> QED BY <1>0, <4>1, <4>2
    <3> QED BY <3>1, <3>2 DEF Agree
  <2>8. /\ work'.at = work.at + n /\ work'.prompt = prompt /\ work'.past = work.past
        /\ work'.made = work.made /\ work'.max = work.max /\ work'.token = work.token
        /\ work' \in Requests
    <3>1. work.at + n \in 0 .. MaxPrompt
      BY <1>0, <2>1, <2>5
    <3> QED BY <1>0, <3>1, <2>4 DEF Requests, prompt
  <2>9. TypeOK'
    BY <2>3, <2>4, <2>8 DEF TypeOK
  <2>10. Prefilling'
    BY <1>0, <2>1, <2>2, <2>4, <2>5, <2>6, <2>7, <2>8 DEF Prefilling, prompt
  <2> QED BY <2>4, <2>5, <2>9, <2>10 DEF Answering, Recorded, Ended
<1>2. CASE PrefillRetries
  <2>1. prompt # <<>> /\ Len(prompt) <= MaxPrompt /\ Begin(prompt, work.max, <<>>) /\ work.max \in 0 .. MaxAnswer
    BY <1>0, <1>2 DEF PrefillRetries, Prefilling, Requests
  <2>2. /\ kv' \in Seq(Tokens) /\ Len(kv') <= Context
        /\ work' \in Requests /\ Len(work'.made) <= work'.max
        /\ pc' = "prefill" /\ Prefilling'
    <3>1. <<>> \in Seq(Tokens) /\ TypeOK
      OBVIOUS
    <3> HIDE DEF prompt
    <3>2. Begin(prompt, work.max, <<>>) /\ prompt \in Seq(Tokens)
      BY <1>0, <2>1
    <3> QED BY <2>1, <3>1, <3>2, BeginKeeps
  <2>3. TypeOK'
    BY <1>2, <2>2 DEF PrefillRetries, TypeOK
  <2> QED BY <1>2, <2>2, <2>3 DEF PrefillRetries, Answering, Recorded, Ended
<1>3. CASE PrefillFails
  <2>1. Chunk \in Seq(Tokens)
    BY <1>3, ChunkIsNext DEF PrefillFails
  <2>2. kv' \in Seq(Tokens) /\ Len(kv') <= Context /\ logits' \in Seq(Tokens)
    BY <1>3, <2>1, DecodeKeeps DEF PrefillFails
  <2>3. TypeOK'
    BY <1>3, <2>2 DEF PrefillFails, TypeOK
  <2> QED BY <1>3, <2>3 DEF PrefillFails, Prefilling, Answering, Recorded, Ended
<1>4. CASE PrefillEnds
  <2>1. Len(kv) = Len(prompt) /\ Agree(kv, prompt, Len(prompt)) /\ logits = kv /\ work.made = <<>>
    BY <1>0, <1>4 DEF PrefillEnds, Prefilling
  <2>2. kv = prompt
    BY <1>0, <2>1, SeqEqual DEF Agree
  <2>3. kv = prompt \o work.made
    BY <1>0, <2>1, <2>2, ConcatEmptySeq
  <2>4. TypeOK'
    BY <1>0, <1>4 DEF PrefillEnds, TypeOK
  <2> QED BY <1>4, <2>1, <2>3, <2>4 DEF PrefillEnds, Prefilling, Answering, Recorded, Ended
<1> QED BY <1>1, <1>2, <1>3, <1>4

\* An answer is generated, and sent.
LEMMA SampleKeeps ==
  Inv /\ (SampleEnds \/ Sample \/ SampleSilent \/ SampleFails) => Inv'
<1> SUFFICES ASSUME Inv, SampleEnds \/ Sample \/ SampleSilent \/ SampleFails PROVE Inv'
  OBVIOUS
<1> USE DEF Inv
<1>0. Silent \subseteq Tokens /\ work \in Requests /\ work.max \in Nat /\ Len(work.made) \in Nat
      /\ work.prompt \in Seq(Tokens) /\ work.made \in Seq(Tokens)
  BY InferenceAssumption DEF TypeOK, Requests
<1>1. CASE SampleEnds
  <2>1. TypeOK'
    BY <1>1 DEF SampleEnds, TypeOK
  <2> QED BY <1>1, <2>1 DEF SampleEnds, Prefilling, Answering, Recorded, Ended
<1>2. CASE Sample
  <2>1. PICK t \in Tokens \ Silent : work' = [work EXCEPT !.token = t]
    BY <1>2 DEF Sample
  <2>2. /\ work' \in Requests /\ work'.token = t /\ work'.prompt = work.prompt
        /\ work'.made = work.made /\ work'.max = work.max
    BY <1>0, <2>1 DEF Requests
  <2>3. pc' \in {"send", "last", "finish"} /\ pc = "sample" /\ Len(work.made) < work.max
    BY <1>2 DEF Sample
  <2>4. TypeOK'
    BY <1>2, <2>2, <2>3 DEF Sample, TypeOK
  <2> QED BY <1>2, <2>2, <2>3, <2>4 DEF Sample, Prefilling, Answering, Recorded, Ended
<1>3. CASE SampleSilent
  <2>1. PICK t \in Silent : work' = [work EXCEPT !.token = t, !.made = Append(work.made, t)]
    BY <1>3 DEF SampleSilent
  <2>2. Append(work.made, t) \in Seq(Tokens) /\ Len(Append(work.made, t)) = Len(work.made) + 1
    BY <1>0, AppendProperties
  <2>3. /\ work' \in Requests /\ work'.token = t /\ work'.prompt = work.prompt
        /\ work'.made = Append(work.made, t) /\ work'.max = work.max
    BY <1>0, <2>1, <2>2 DEF Requests
  <2>4. pc = "sample" /\ pc' = "step" /\ Len(work.made) < work.max
    BY <1>3 DEF SampleSilent
  <2>5. TypeOK'
    <3>1. Len(work'.made) <= work'.max
      BY <1>0, <2>2, <2>3, <2>4
    <3> QED BY <1>3, <2>3, <2>4, <3>1 DEF SampleSilent, TypeOK
  <2>6. kv' \o <<work'.token>> = work'.prompt \o work'.made
    <3>1. kv' = work.prompt \o work.made
      BY <1>3, <2>4 DEF SampleSilent, Answering
    <3> QED BY <1>0, <2>3, <3>1, AppendJoins
  <2> QED BY <1>0, <1>3, <2>3, <2>4, <2>5, <2>6 DEF SampleSilent, Prefilling, Answering, Recorded, Ended
<1>4. CASE SampleFails
  <2>1. TypeOK'
    BY <1>4 DEF SampleFails, TypeOK
  <2> QED BY <1>4, <2>1 DEF SampleFails, Prefilling, Answering, Recorded, Ended
<1> QED BY <1>1, <1>2, <1>3, <1>4

\* Text is sent, or nobody is there for it.
LEMMA SendKeeps == Inv /\ (Send \/ SendFails) => Inv'
<1> SUFFICES ASSUME Inv, Send \/ SendFails PROVE Inv'
  OBVIOUS
<1> USE DEF Inv
<1>0. /\ work \in Requests /\ work.max \in Nat /\ Len(work.made) \in Nat
      /\ work.prompt \in Seq(Tokens) /\ work.made \in Seq(Tokens)
  BY InferenceAssumption DEF TypeOK, Requests
<1>1. CASE Send
  <2>1. work.token \in Tokens /\ kv = work.prompt \o work.made /\ cached = work.prompt
    BY <1>1 DEF Send, Answering, Recorded
  <2>2. /\ work' \in Requests /\ work'.token = work.token /\ work'.prompt = work.prompt
        /\ work'.max = work.max /\ Len(work'.made) <= work'.max
        /\ pc = "send" => work'.made = Append(work.made, work.token)
        /\ pc = "last" => work'.made = work.made
    <3>1. Append(work.made, work.token) \in Seq(Tokens) /\ Len(Append(work.made, work.token)) = Len(work.made) + 1
      BY <1>0, <2>1, AppendProperties
    <3>2. pc = "send" => Len(work.made) < work.max
      BY DEF Answering
    <3>3. Len(work.made) <= work.max
      BY DEF TypeOK
    <3>4. CASE pc = "send"
      <4>1. work' = [work EXCEPT !.made = Append(work.made, work.token)]
        BY <1>1, <3>4 DEF Send
      <4>2. /\ work' \in Requests /\ work'.token = work.token /\ work'.prompt = work.prompt
            /\ work'.max = work.max /\ work'.made = Append(work.made, work.token)
        BY <1>0, <3>1, <4>1 DEF Requests
      <4> QED BY <1>0, <3>1, <3>2, <3>4, <4>2
    <3>5. CASE pc = "last"
      BY <1>0, <1>1, <3>3, <3>5 DEF Send
    <3> QED BY <1>1, <3>4, <3>5 DEF Send
  <2>3. /\ Text(work.token) \in Events /\ ~IsEnd(Text(work.token))
        /\ chan' = Append(chan, Text(work.token)) /\ Len(chan) < Cap
    BY <1>1, <2>1 DEF Send, Sends, Events, Text, IsEnd
  <2>4. chan' \in Seq(Events) /\ Len(chan') <= Cap
    BY <2>3, InferenceAssumption, AppendProperties DEF TypeOK
  <2>5. TypeOK'
    BY <1>1, <2>2, <2>4 DEF Send, TypeOK
  <2>6. pc = "send" => kv' \o <<work'.token>> = work'.prompt \o work'.made
    BY <1>0, <1>1, <2>1, <2>2, AppendJoins DEF Send
  <2>7. Ended'
    <3>1. pc # "idle" /\ pc' # "idle" /\ UNCHANGED <<got, client>>
      BY <1>1 DEF Send
    <3> DEFINE es == got \o chan
               new == got \o Append(chan, Text(work.token))
    <3>2. /\ Len(es) \in Nat /\ Len(new) = Len(es) + 1
          /\ \A i \in 1 .. Len(es) : new[i] = es[i]
          /\ new[Len(es) + 1] = Text(work.token)
      BY <2>3, EventsGrow DEF TypeOK
    <3>3. client = "reading" => \A i \in 1 .. Len(es) : ~IsEnd(es[i])
      BY <3>1 DEF Ended
    <3>4. got' \o chan' = new
      BY <2>3, <3>1
    <3> HIDE DEF es, new
    <3>5. client = "reading" => \A i \in 1 .. Len(new) : ~IsEnd(new[i])
      BY <2>3, <3>2, <3>3
    <3> QED BY <3>1, <3>4, <3>5 DEF Ended
  <2>8. Answering' /\ Prefilling' /\ Recorded'
    BY <1>1, <2>1, <2>2, <2>6 DEF Send, Answering, Prefilling, Recorded
  <2> QED BY <2>5, <2>7, <2>8
<1>2. CASE SendFails
  <2>1. TypeOK'
    BY <1>2 DEF SendFails, TypeOK
  <2> QED BY <1>2, <2>1 DEF SendFails, Prefilling, Answering, Recorded, Ended
<1> QED BY <1>1, <1>2

\* A token joins the KV cache.
LEMMA StepKeeps == Inv /\ (Step \/ StepFails) => Inv'
<1> SUFFICES ASSUME Inv, Step \/ StepFails PROVE Inv'
  OBVIOUS
<1> USE DEF Inv
<1>0. pc = "step" /\ work.token \in Tokens /\ <<work.token>> \in Seq(Tokens)
  <2>1. pc = "step"
    BY DEF Step, StepFails
  <2>2. work.token \in Tokens
    BY <2>1 DEF Answering
  <2> QED BY <2>1, <2>2
<1>1. CASE Step
  <2>1. kv' \in Seq(Tokens) /\ Len(kv') <= Context /\ logits' \in Seq(Tokens)
    BY <1>0, <1>1, DecodeKeeps DEF Step
  <2>2. TypeOK'
    BY <1>1, <2>1 DEF Step, TypeOK
  <2>3. kv' = work.prompt \o work.made /\ logits' = kv'
    BY <1>0, <1>1 DEF Step, DecodeOk, Answering
  <2> QED BY <1>1, <2>2, <2>3 DEF Step, Prefilling, Answering, Recorded, Ended
<1>2. CASE StepFails
  <2>1. kv' \in Seq(Tokens) /\ Len(kv') <= Context /\ logits' \in Seq(Tokens)
    BY <1>0, <1>2, DecodeKeeps DEF StepFails
  <2>2. TypeOK'
    BY <1>2, <2>1 DEF StepFails, TypeOK
  <2> QED BY <1>2, <2>2 DEF StepFails, Prefilling, Answering, Recorded, Ended
<1> QED BY <1>1, <1>2

\* A command ends, with an event that says so, and the record is of what is there.
LEMMA EndKeeps == Inv /\ (Finish \/ Fail) => Inv'
<1> SUFFICES ASSUME Inv, Finish \/ Fail PROVE Inv'
  OBVIOUS
<1> USE DEF Inv
<1>1. /\ pc \in {"finish", "fail"} /\ pc' = "idle"
      /\ UNCHANGED <<kv, cached, logits, work, client, got>>
  BY DEF Finish, Fail, End
<1>2. PICK e \in Events : /\ IsEnd(e)
                          /\ Sends(e) \/ (client = "gone" /\ UNCHANGED chan)
  <2>1. CASE Finish
    <3>1. Len(work.prompt) + Len(work.made) \in Nat
      BY DEF TypeOK, Requests
    <3>2. Done(Len(work.prompt) + Len(work.made)) \in Events
      BY <3>1 DEF Events
    <3> QED BY <2>1, <3>2 DEF Finish, End, IsEnd, Done
  <2>2. CASE Fail
    BY <2>2 DEF Fail, End, IsEnd, Error, Events
  <2> QED BY <2>1, <2>2
<1>3. chan' \in Seq(Events) /\ Len(chan') <= Cap
  <2>1. CASE Sends(e)
    BY <2>1, InferenceAssumption, AppendProperties DEF Sends, TypeOK
  <2>2. CASE UNCHANGED chan
    BY <2>2 DEF TypeOK
  <2> QED BY <1>2, <2>1, <2>2
<1>4. TypeOK'
  BY <1>1, <1>3 DEF TypeOK
<1>5. Ended'
  <2>1. CASE Sends(e)
    <3> DEFINE es == got \o chan
               new == got \o Append(chan, e)
    <3>1. /\ Len(es) \in Nat /\ Len(new) = Len(es) + 1 /\ new \in Seq(Events)
          /\ \A i \in 1 .. Len(es) : new[i] = es[i]
          /\ new[Len(es) + 1] = e
      BY EventsGrow, AppendProperties, ConcatProperties DEF TypeOK
    <3>2. client = "reading" => \A i \in 1 .. Len(es) : ~IsEnd(es[i])
      BY <1>1 DEF Ended
    <3>3. got' \o chan' = new
      BY <1>1, <2>1 DEF Sends
    <3> HIDE DEF es, new
    <3>4. client = "reading" => \A i \in 1 .. Len(new) : IsEnd(new[i]) <=> i = Len(new)
      BY <1>2, <3>1, <3>2
    <3>5. new # <<>>
      BY <3>1
    <3> QED BY <1>1, <3>3, <3>4, <3>5 DEF Ended
  <2>2. CASE client = "gone"
    BY <1>1, <2>2 DEF Ended
  <2> QED BY <1>2, <2>1, <2>2
<1>6. Agree(kv, cached, Len(cached))
  <2>1. CASE pc = "finish"
    <3>1. kv = work.prompt \o work.made /\ cached = work.prompt
      BY <2>1 DEF Answering, Recorded
    <3>2. work.prompt \in Seq(Tokens) /\ work.made \in Seq(Tokens)
      BY DEF TypeOK, Requests
    <3> QED BY <3>1, <3>2, FrontAgrees
  <2>2. CASE pc = "fail"
    BY <2>2 DEF Recorded, Agree, TypeOK
  <2> QED BY <1>1, <2>1, <2>2
<1> QED BY <1>1, <1>4, <1>5, <1>6 DEF Prefilling, Answering, Recorded

\* The context is rebuilt; the receiver reads, or leaves; or nothing happens.
LEMMA OthersKeep == Inv /\ (Rebuild \/ Read \/ Leave \/ UNCHANGED vars) => Inv'
<1> SUFFICES ASSUME Inv, Rebuild \/ Read \/ Leave \/ UNCHANGED vars PROVE Inv'
  OBVIOUS
<1> USE DEF Inv
<1>1. CASE Rebuild
  <2>1. TypeOK'
    BY <1>1, InferenceAssumption DEF Rebuild, TypeOK
  <2> QED BY <1>1, <2>1 DEF Rebuild, Prefilling, Answering, Recorded, Ended, Agree
<1>2. CASE Read
  <2>1. /\ chan \in Seq(Events) /\ chan # <<>> /\ got \in Seq(Events)
        /\ chan' = Tail(chan) /\ got' = Append(got, Head(chan))
        /\ UNCHANGED <<kv, cached, logits, pc, work, client>>
    BY <1>2 DEF Read, TypeOK
  <2>2. PICK e \in Events, rest \in Seq(Events) : e = Head(chan) /\ rest = Tail(chan) /\ chan = <<e>> \o rest
    <3>1. Head(chan) \in Events /\ Tail(chan) \in Seq(Events) /\ Len(Tail(chan)) = Len(chan) - 1
          /\ \A i \in 1 .. Len(Tail(chan)) : Tail(chan)[i] = chan[i + 1]
      BY <2>1, HeadTailProperties
    <3>2. chan = <<Head(chan)>> \o Tail(chan)
      BY <2>1
    <3> QED BY <3>1, <3>2
  <2>3. got' \o chan' = got \o chan
    <3>1. <<e>> \in Seq(Events) /\ Append(got, e) = got \o <<e>>
      BY <2>1, AppendIsConcat
    <3> QED BY <2>1, <2>2, <3>1, ConcatAssociative
  <2>4. chan' \in Seq(Events) /\ Len(chan') <= Cap /\ got' \in Seq(Events)
    <3>1. Len(Tail(chan)) = Len(chan) - 1 /\ Len(chan) \in Nat /\ Cap \in Nat
      BY <2>1, InferenceAssumption, HeadTailProperties
    <3> QED BY <2>1, <2>2, <3>1, AppendProperties DEF TypeOK
  <2>5. TypeOK'
    BY <2>1, <2>4 DEF TypeOK
  <2> QED BY <2>1, <2>3, <2>5 DEF Prefilling, Answering, Recorded, Ended
<1>3. CASE Leave
  <2>1. TypeOK'
    BY <1>3, InferenceAssumption DEF Leave, TypeOK
  <2> QED BY <1>3, <2>1 DEF Leave, Prefilling, Answering, Recorded, Ended
<1>4. CASE UNCHANGED vars
  BY <1>4 DEF vars, TypeOK, Prefilling, Answering, Recorded, Ended
<1> QED BY <1>1, <1>2, <1>3, <1>4

LEMMA InvNext == Inv /\ [Next]_vars => Inv'
BY TakeKeeps, PrefillKeeps, SampleKeeps, SendKeeps, StepKeeps, EndKeeps, OthersKeep DEF Next, Run

LEMMA InvAlways == Spec => []Inv
BY InvInit, InvNext, PTL DEF Spec

-----------------------------------------------------------------------------
\* Types, the size of the context and of the channel included, for any batch and
\* context size (llama_cpp.rs:328-500).
THEOREM ThreadTypeCorrect == Spec => []TypeOK
<1>1. Inv => TypeOK
  BY DEF Inv
<1> QED BY <1>1, InvAlways, PTL

\* What the prefix cache says is resident, is (prefix_cache.rs:13): whatever
\* prompts follow each other, and wherever decoding fails.
THEOREM RecordIsTrue == Spec => []RecordResident
<1>1. Inv => RecordResident
  <2> SUFFICES ASSUME Inv, pc = "idle" PROVE IsPrefix(cached, kv)
    BY DEF RecordResident
  <2>1. Agree(kv, cached, Len(cached)) /\ kv \in Seq(Tokens) /\ cached \in Seq(Tokens)
    BY DEF Inv, Recorded, TypeOK
  <2>2. Len(cached) <= Len(kv) /\ \A i \in 1 .. Len(cached) : kv[i] = cached[i]
    BY <2>1 DEF Agree
  <2>3. SubSeq(cached, 1, Len(cached)) = SubSeq(kv, 1, Len(cached))
    <3> DEFINE n == Len(cached)
    <3>1. n \in Nat /\ n <= Len(kv) /\ Len(kv) \in Nat
      BY <2>1, <2>2
    <3>2. /\ SubSeq(cached, 1, n) \in Seq(Tokens) /\ Len(SubSeq(cached, 1, n)) = n
          /\ \A i \in 1 .. n : SubSeq(cached, 1, n)[i] = cached[i]
      BY <2>1, <3>1
    <3>3. /\ SubSeq(kv, 1, n) \in Seq(Tokens) /\ Len(SubSeq(kv, 1, n)) = n
          /\ \A i \in 1 .. n : SubSeq(kv, 1, n)[i] = kv[i]
      BY <2>1, <3>1
    <3>4. \A i \in 1 .. n : SubSeq(cached, 1, n)[i] = SubSeq(kv, 1, n)[i]
      BY <2>2, <3>2, <3>3
    <3> QED BY <3>2, <3>3, <3>4, SeqEqual
  <2> QED BY <2>2, <2>3 DEF IsPrefix
<1> QED BY <1>1, InvAlways, PTL

\* Every token is sampled in its own context (llama_cpp.rs:322), however much of
\* the prompt was skipped.
THEOREM SamplesAreSound == Spec => []SamplesInContext
<1>1. Inv => SamplesInContext
  BY DEF Inv, Answering, SamplesInContext
<1> QED BY <1>1, InvAlways, PTL

\* A receiver hears one Done or Error, and nothing after it (backend.rs:84), for a
\* channel of any size.
THEOREM CommandsEndOnce == Spec => []OneEnd
<1>1. Inv => OneEnd
  <2> DEFINE events == got \o chan
  <2> SUFFICES ASSUME Inv, client = "reading"
               PROVE  {i \in 1 .. Len(events) : IsEnd(events[i])}
                        = IF pc = "idle" THEN {Len(events)} ELSE {}
    BY DEF OneEnd
  <2>1. events \in Seq(Events)
    BY ConcatProperties DEF Inv, TypeOK
  <2>2. /\ \A i \in 1 .. Len(events) : IsEnd(events[i]) <=> pc = "idle" /\ i = Len(events)
        /\ pc = "idle" => events # <<>>
    BY DEF Inv, Ended
  <2> HIDE DEF events
  <2>3. pc = "idle" => Len(events) \in 1 .. Len(events)
    BY <2>1, <2>2
  <2> QED BY <2>2, <2>3
<1> QED BY <1>1, InvAlways, PTL
=============================================================================
