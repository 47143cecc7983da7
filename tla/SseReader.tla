----------------------------- MODULE SseReader ------------------------------
(***************************************************************************)
(* How spawn_event_reader (server/proxy.rs) makes GenerateEvents of the    *)
(* bytes llama-server sends.  The SSE events arrive in network chunks that *)
(* respect neither events nor characters; each chunk is decoded on its own *)
(* and appended to a buffer, from which complete events are drained.       *)
(***************************************************************************)
EXTENDS Integers, Sequences, SequencesExt

CONSTANTS
  Kinds,      \* the SSE events llama-server may send: a subset of DOMAIN Data
  MaxFrames,  \* bound: SSE events of one response
  UsageOf     \* completion_tokens in a usage event

\* An SSE event as far as its bytes matter: a content delta, a content delta
\* with a two-byte character, usage, a finish_reason, [DONE], anything else.
Data == [token  |-> <<"t", "t">>,
         wide   |-> <<"w1", "w2">>,
         usage  |-> <<"u", "u">>,
         length |-> <<"f", "f">>,
         done   |-> <<"d", "d">>,
         noise  |-> <<"?", "?">>]

\* Every event ends with "\n\n".
Bytes(f) == <<Data[f][1], Data[f][2], "nl", "nl">>
Size == 4

ASSUME ReaderAssumption ==
  Kinds \subseteq DOMAIN Data /\ MaxFrames \in Nat /\ UsageOf \in Nat

VARIABLES
  frames,      \* what llama-server sends
  read,        \* bytes of it read
  pc,          \* "read", "drain" or "end"
  buf,
  completion_tokens,
  finish_reason,
  tokens,      \* the contents of the Token events sent so far
  summary      \* the Done event, or NoSummary

vars == <<frames, read, pc, buf, completion_tokens, finish_reason, tokens, summary>>

NoSummary == [tokens_generated |-> 0, finish_reason |-> "none"]

Wire == [i \in 1 .. Size * Len(frames) |-> Bytes(frames[((i - 1) \div Size) + 1])[((i - 1) % Size) + 1]]

\* from_utf8_lossy of one chunk: half a character is replaced.
Lossy(s) ==
  [i \in DOMAIN s |->
     IF \/ s[i] = "w1" /\ (i = Len(s) \/ s[i + 1] # "w2")
        \/ s[i] = "w2" /\ (i = 1 \/ s[i - 1] # "w1")
     THEN "bad" ELSE s[i]]

Init ==
  /\ frames \in UNION {[1 .. n -> Kinds] : n \in 0 .. MaxFrames}
  /\ read = 0 /\ pc = "read" /\ buf = <<>>
  /\ completion_tokens = 0 /\ finish_reason = "stop"
  /\ tokens = <<>> /\ summary = NoSummary

\* Mutant: what is left of the last chunk is dropped.
ChunkReplaces(n) ==
  /\ pc = "read" /\ read + n <= Len(Wire)
  /\ buf' = Lossy(SubSeq(Wire, read + 1, read + n))
  /\ read' = read + n
  /\ pc' = "drain"
  /\ UNCHANGED <<frames, completion_tokens, finish_reason, tokens, summary>>

Chunk(n) ==
  /\ pc = "read" /\ read + n <= Len(Wire)
  /\ buf' = buf \o Lossy(SubSeq(Wire, read + 1, read + n))
  /\ read' = read + n
  /\ pc' = "drain"
  /\ UNCHANGED <<frames, completion_tokens, finish_reason, tokens, summary>>

Ends(s) == {i \in 1 .. Len(s) - 1 : s[i] = "nl" /\ s[i + 1] = "nl"}

\* A content delta, if one whose characters were replaced.
IsText(data) == data # <<>> /\ data[1] \in {"t", "w1", "bad"}

\* Mutant: a delta overwrites what usage said.
DrainCounts ==
  /\ pc = "drain" /\ Ends(buf) # {}
  /\ LET pos  == CHOOSE i \in Ends(buf) : \A k \in Ends(buf) : i <= k
         data == SubSeq(buf, 1, pos - 1)
         text == IsText(data)
     IN  /\ buf' = SubSeq(buf, pos + 2, Len(buf))
         /\ tokens' = IF text THEN Append(tokens, data) ELSE tokens
         /\ completion_tokens' = IF text THEN Len(tokens) + 1
                                 ELSE IF data = Data.usage THEN UsageOf ELSE completion_tokens
         /\ finish_reason' = IF data = Data.length THEN "length" ELSE finish_reason
  /\ UNCHANGED <<frames, read, pc, summary>>

\* One complete event; a content delta is sent before the next one is looked at.
Drain ==
  /\ pc = "drain" /\ Ends(buf) # {}
  /\ LET pos  == CHOOSE i \in Ends(buf) : \A k \in Ends(buf) : i <= k
         data == SubSeq(buf, 1, pos - 1)
         text == IsText(data)
     IN  /\ buf' = SubSeq(buf, pos + 2, Len(buf))
         /\ tokens' = IF text THEN Append(tokens, data) ELSE tokens
         /\ completion_tokens' =
              IF data = Data.usage THEN UsageOf
              ELSE IF text /\ completion_tokens = 0 THEN 1 ELSE completion_tokens
         /\ finish_reason' = IF data = Data.length THEN "length" ELSE finish_reason
  /\ UNCHANGED <<frames, read, pc, summary>>

Drained ==
  /\ pc = "drain" /\ Ends(buf) = {}
  /\ pc' = "read"
  /\ UNCHANGED <<frames, read, buf, completion_tokens, finish_reason, tokens, summary>>

\* The body is over: Done, with what was counted.
Finish ==
  /\ pc = "read" /\ read = Len(Wire)
  /\ summary' = [tokens_generated |-> completion_tokens, finish_reason |-> finish_reason]
  /\ pc' = "end"
  /\ UNCHANGED <<frames, read, buf, completion_tokens, finish_reason, tokens>>

Next == (\E n \in 1 .. Len(Wire) : Chunk(n)) \/ Drain \/ Drained \/ Finish

Spec == Init /\ [][Next]_vars

-----------------------------------------------------------------------------
(* Properties.                                                             *)

\* The contents of the first k events, in order.
ContentsOf[k \in 0 .. Len(frames)] ==
  IF k = 0 THEN <<>>
  ELSE IF frames[k] \in {"token", "wide"} THEN Append(ContentsOf[k - 1], Data[frames[k]])
  ELSE ContentsOf[k - 1]

Contents == ContentsOf[Len(frames)]

\* However the response is cut into chunks, every delta becomes one Token, in
\* order and unchanged; nothing of an incomplete event is sent, and the buffer
\* is empty when the response ends (proxy.rs:124-180).
ChunkingInvisible ==
  /\ IsPrefix(tokens, Contents)
  /\ pc = "end" => tokens = Contents /\ buf = <<>>

\* The summary does not depend on the chunks either: the finish reason and the
\* last usage that llama-server reported (proxy.rs:153-162).
SummaryAsReported ==
  pc = "end" =>
    /\ summary.finish_reason = IF Contains(frames, "length") THEN "length" ELSE "stop"
    /\ Contains(frames, "usage") /\ UsageOf > 0 => summary.tokens_generated = UsageOf

-----------------------------------------------------------------------------
(* What comments say, and the code does not do.                            *)

\* "converting each delta into a GenerateEvent" (proxy.rs:89): a character that
\* two chunks share arrives as it was sent.
CharactersKept == pc = "end" => tokens = Contents

\* "Total number of tokens produced" (backend.rs:72), "Capture usage when
\* llama-server includes it" (proxy.rs:152): without it the tokens are counted.
TokensCounted ==
  pc = "end" /\ ~Contains(frames, "usage") => summary.tokens_generated = Len(tokens)
=============================================================================
