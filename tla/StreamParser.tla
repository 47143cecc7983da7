---------------------------- MODULE StreamParser ----------------------------
(***************************************************************************)
(* The parser of the model's markup: server/stream_parser.rs.              *)
(*                                                                         *)
(* The model writes words: plain text, and the four tags.  It is delivered *)
(* in tokens that need not respect the words, so a tag is spelled in two   *)
(* symbols and a token may end between them.  The parser is a loop over a  *)
(* lookahead buffer; one action is one turn of the loop.                   *)
(***************************************************************************)
EXTENDS Naturals, Sequences, SequencesExt

CONSTANTS
  Words,      \* what the model may write: a subset of DOMAIN Spell
  MaxWords,   \* bound: words of one response
  MaxToken,   \* bound: symbols of one token
  Whole,      \* the tags that come in one token, as special vocabulary entries do
  LOOKAHEAD   \* symbols held back (32 bytes in the code)

\* A letter, the name inside a tool call, and the tags as two halves.
Spell == [x       |-> <<"x">>,
          name    |-> <<"name">>,
          think   |-> <<"<th", "ink>">>,
          unthink |-> <<"</th", "/ink>">>,
          call    |-> <<"<ca", "ll>">>,
          uncall  |-> <<"</ca", "/ll>">>]

ASSUME WordsAssumption == Words \subseteq DOMAIN Spell /\ Whole \subseteq Words
ASSUME BoundsAssumption ==
  MaxWords \in Nat /\ MaxToken \in Nat \ {0} /\ LOOKAHEAD \in Nat \ {0}

VARIABLES
  words,      \* the response of the model
  fed,        \* symbols of it delivered so far
  pc,         \* "recv": between pushes; "process": in the loop; "done": flushed
  state,      \* "Text", "Thinking" or "ToolCall" (enum State)
  buffer,     \* the buffer of State::ToolCall
  lookahead,
  out         \* the events, one item per symbol of text

vars == <<words, fed, pc, state, buffer, lookahead, out>>

\* The symbols of the first n words.
WireOf[n \in 0 .. Len(words)] == IF n = 0 THEN <<>> ELSE WireOf[n - 1] \o Spell[words[n]]

Wire == WireOf[Len(words)]

-----------------------------------------------------------------------------
(* Events.  Text and thinking are compared symbol by symbol: how they are  *)
(* cut into deltas is of no interest.                                      *)

Text(s)     == [i \in DOMAIN s |-> <<"text", s[i]>>]
Thinking(s) == [i \in DOMAIN s |-> <<"thinking", s[i]>>]
ThinkingEnd == <<<<"thinking", "end">>>>

\* try_parse_tool_call: a JSON name, or else the first thing that looks like an
\* opening tag, names the tool.
Opening == {"<th", "<ca"}
Closing == {"</th", "</ca"}
ParsesAsCall(s) ==
  \/ \E i \in DOMAIN s : s[i] = "name"
  \/ \E i \in 1 .. Len(s) - 1 :
       s[i] \in Opening /\ \A k \in 1 .. i - 1 : s[k] \notin Opening \cup Closing

ToolCall(s) == IF ParsesAsCall(s) THEN <<<<"tool", s>>>> ELSE <<>>

\* Where a tag starts in s.
Starts(s, tag) == {i \in 1 .. Len(s) - 1 : s[i] = Spell[tag][1] /\ s[i + 1] = Spell[tag][2]}
Has(s, tag)    == Starts(s, tag) # {}
Find(s, tag)   == CHOOSE i \in Starts(s, tag) : \A k \in Starts(s, tag) : i <= k
Before(s, tag) == SubSeq(s, 1, Find(s, tag) - 1)
After(s, tag)  == SubSeq(s, Find(s, tag) + 2, Len(s))

-----------------------------------------------------------------------------
\* The places inside a tag that comes in one token.
Inside == {Len(WireOf[n]) - 1 : n \in {i \in DOMAIN words : words[i] \in Whole}}

\* push: one more token.
Push(n) ==
  /\ pc = "recv"
  /\ fed + n <= Len(Wire)
  /\ fed + n \notin Inside
  /\ lookahead' = lookahead \o SubSeq(Wire, fed + 1, fed + n)
  /\ fed' = fed + n
  /\ pc' = "process"
  /\ UNCHANGED <<words, state, buffer, out>>

\* Mutant: everything is held back.
SafeNone(s) == 0

\* safe_len: all but the last LOOKAHEAD symbols may go out.
Safe(s) == IF Len(s) > LOOKAHEAD THEN Len(s) - LOOKAHEAD ELSE 0

OpenThinking ==
  /\ pc = "process" /\ state = "Text" /\ Has(lookahead, "think")
  /\ out' = out \o Text(Before(lookahead, "think"))
  /\ lookahead' = After(lookahead, "think")
  /\ state' = "Thinking"
  /\ UNCHANGED <<words, fed, pc, buffer>>

OpenToolCall ==
  /\ pc = "process" /\ state = "Text" /\ ~Has(lookahead, "think") /\ Has(lookahead, "call")
  /\ out' = out \o Text(Before(lookahead, "call"))
  /\ lookahead' = After(lookahead, "call")
  /\ state' = "ToolCall"
  /\ UNCHANGED <<words, fed, pc, buffer>>

HoldText ==
  /\ pc = "process" /\ state = "Text" /\ ~Has(lookahead, "think") /\ ~Has(lookahead, "call")
  /\ out' = out \o Text(SubSeq(lookahead, 1, Safe(lookahead)))
  /\ lookahead' = SubSeq(lookahead, Safe(lookahead) + 1, Len(lookahead))
  /\ pc' = "recv"
  /\ UNCHANGED <<words, fed, state, buffer>>

CloseThinking ==
  /\ pc = "process" /\ state = "Thinking" /\ Has(lookahead, "unthink")
  /\ out' = out \o Thinking(Before(lookahead, "unthink")) \o ThinkingEnd
  /\ lookahead' = After(lookahead, "unthink")
  /\ state' = "Text"
  /\ UNCHANGED <<words, fed, pc, buffer>>

HoldThinking ==
  /\ pc = "process" /\ state = "Thinking" /\ ~Has(lookahead, "unthink")
  /\ out' = out \o Thinking(SubSeq(lookahead, 1, Safe(lookahead)))
  /\ lookahead' = SubSeq(lookahead, Safe(lookahead) + 1, Len(lookahead))
  /\ pc' = "recv"
  /\ UNCHANGED <<words, fed, state, buffer>>

\* Mutant: the part of the body that came with earlier tokens is forgotten.
CloseForgetsBuffer ==
  /\ pc = "process" /\ state = "ToolCall" /\ Has(lookahead, "uncall")
  /\ out' = out \o ToolCall(Before(lookahead, "uncall"))
  /\ lookahead' = After(lookahead, "uncall")
  /\ state' = "Text"
  /\ buffer' = <<>>
  /\ UNCHANGED <<words, fed, pc>>

CloseToolCall ==
  /\ pc = "process" /\ state = "ToolCall" /\ Has(lookahead, "uncall")
  /\ out' = out \o ToolCall(buffer \o Before(lookahead, "uncall"))
  /\ lookahead' = After(lookahead, "uncall")
  /\ state' = "Text"
  /\ buffer' = <<>>
  /\ UNCHANGED <<words, fed, pc>>

\* Nothing is held back for a closing tag whose second half is still to come.
HoldToolCall ==
  /\ pc = "process" /\ state = "ToolCall" /\ ~Has(lookahead, "uncall")
  /\ buffer' = buffer \o lookahead
  /\ lookahead' = <<>>
  /\ pc' = "recv"
  /\ UNCHANGED <<words, fed, state, out>>

\* flush: an empty lookahead ends it before the state is looked at.
Flush ==
  /\ pc = "recv" /\ fed = Len(Wire)
  /\ out' = out \o (IF lookahead = <<>> THEN <<>>
                    ELSE CASE state = "Text"     -> Text(lookahead)
                           [] state = "Thinking" -> Thinking(lookahead)
                           [] state = "ToolCall" -> ToolCall(buffer \o lookahead))
  /\ lookahead' = <<>>
  /\ buffer' = IF state = "ToolCall" THEN buffer \o lookahead ELSE buffer
  /\ pc' = "done"
  /\ UNCHANGED <<words, fed, state>>

Init ==
  /\ words \in UNION {[1 .. n -> Words] : n \in 0 .. MaxWords}
  /\ fed = 0 /\ pc = "recv"
  /\ state = "Text" /\ buffer = <<>> /\ lookahead = <<>> /\ out = <<>>

Next ==
  \/ \E n \in 1 .. MaxToken : Push(n)
  \/ OpenThinking \/ OpenToolCall \/ HoldText
  \/ CloseThinking \/ HoldThinking
  \/ CloseToolCall \/ HoldToolCall
  \/ Flush

Spec == Init /\ [][Next]_vars

-----------------------------------------------------------------------------
(* What the markup means, word by word.                                    *)

Reading(acc, w) ==
  CASE acc.mode = "Text" /\ w = "think" -> [acc EXCEPT !.mode = "Thinking"]
    [] acc.mode = "Text" /\ w = "call"  -> [acc EXCEPT !.mode = "ToolCall"]
    [] acc.mode = "Text" /\ w \notin {"think", "call"} ->
         [acc EXCEPT !.out = @ \o Text(Spell[w])]
    [] acc.mode = "Thinking" /\ w = "unthink" ->
         [acc EXCEPT !.mode = "Text", !.out = @ \o ThinkingEnd]
    [] acc.mode = "Thinking" /\ w # "unthink" -> [acc EXCEPT !.out = @ \o Thinking(Spell[w])]
    [] acc.mode = "ToolCall" /\ w = "uncall" ->
         [mode |-> "Text", body |-> <<>>, out |-> acc.out \o ToolCall(acc.body)]
    [] acc.mode = "ToolCall" /\ w # "uncall" -> [acc EXCEPT !.body = @ \o Spell[w]]

MeaningOf[n \in 0 .. Len(words)] ==
  IF n = 0 THEN [mode |-> "Text", body |-> <<>>, out |-> <<>>]
  ELSE Reading(MeaningOf[n - 1], words[n])

Meaning == MeaningOf[Len(words)]

-----------------------------------------------------------------------------
(* Properties.                                                             *)

\* However the response is cut into tokens, the events say what its markup
\* says; and what was streamed already never has to be taken back (push,
\* stream_parser.rs:71 and process, 107).
ParsesAsWritten ==
  /\ IsPrefix(out, Meaning.out)
  /\ pc = "done" => out = Meaning.out

\* Text reaches the client: outside a tool call at most LOOKAHEAD symbols wait
\* for the next token (stream_parser.rs:132 and 158).
DelayBounded == pc = "recv" /\ state # "ToolCall" => Len(lookahead) <= LOOKAHEAD

-----------------------------------------------------------------------------
(* What comments say, and the code does not do.                            *)

\* "Tokens can straddle tag boundaries ... The parser maintains a small
\* lookahead buffer to detect these cases reliably" (stream_parser.rs:10).
SplitTagsDetected ==
  pc = "done" => \A i \in DOMAIN Meaning.out : Meaning.out[i][1] = "tool" =>
                   \E k \in DOMAIN out : out[k][1] = "tool"

\* "Incomplete tool call - best-effort: try to parse what we have"
\* (stream_parser.rs:90): a body that parses is not thrown away at the end.
IncompleteCallParsed ==
  pc = "done" /\ Meaning.mode = "ToolCall" /\ ParsesAsCall(Meaning.body) =>
    \E k \in DOMAIN out : out[k][1] = "tool"
=============================================================================
