------------------------------ MODULE Dialogue ------------------------------
(***************************************************************************)
(* A conversation with tools, turn after turn: what the gateway makes of a *)
(* request (prepare_messages of routes/openai.rs, to_openai_messages of    *)
(* routes/anthropic.rs and the content types of server/types), what it     *)
(* makes of the model's answer (the OpenAI emitter; the Anthropic one, by  *)
(* its blocks), and what a client sends back.                              *)
(*                                                                         *)
(* The gateway keeps nothing between two requests: what the model sees of  *)
(* its own words went out as frames and came back as history.              *)
(***************************************************************************)
EXTENDS Naturals, Sequences, FiniteSets, SequencesExt

CONSTANTS
  MaxTurns,  \* bound: answers of the model
  MaxEvents  \* bound: parts of one answer

ASSUME DialogueAssumption == MaxTurns \in Nat \ {0} /\ MaxEvents \in Nat

VARIABLES
  setting,   \* the client: its protocol and what it puts in a request
  history,   \* the client's messages
  prompt,    \* the messages of the last request as the model gets them
  said,      \* what the model wrote, answer by answer
  reply,     \* the answer as the client has put it together
  told,      \* finish_reason or stop_reason, as the client got it
  recorded,  \* finish_reason, as the tracker put it in the metrics
  phase      \* "client", "model" or "over"

vars == <<setting, history, prompt, said, reply, told, recorded, phase>>

Settings ==
  [protocol : {"openai", "anthropic"},
   stream   : BOOLEAN,
   tools    : {"absent", "empty", "some"},      \* the tools field
   system   : {"none", "system", "developer", "late"}]  \* a system text: its role, or
                                                 \* that it is not the first message

\* What a piece of text says, and which text of the conversation it is.  Two
\* texts that were taken for one have both names.
Text(what, names) == [what |-> what, names |-> names]

\* What a model says, where a garbled call is one that does not parse, and all there is.
Spoken == {"text", "thinking", "call", "garbled"}
Whats  == Spoken \cup {"tools", "helper", "system", "question", "image", "result"}

\* The texts that say one of these things.
Saying(whats) == [what : whats, names : Seq(Nat \X Nat)]

\* A message of a client: blocks, which hold a text each, and tool calls.
Block(kind, text) == [kind |-> kind, text |-> text]
Blocks(kinds) == [kind : kinds, text : Saying(Whats)]
Message(role, blocks, calls) == [role |-> role, blocks |-> blocks, calls |-> calls]

Tools  == Text("tools", <<>>)
Helper == Text("helper", <<>>)
System == Text("system", <<>>)

\* The elements of a sequence that belong to S, in their order.
Of(s, S) ==
  LET of[n \in 0 .. Len(s)] == IF n = 0 THEN <<>>
                               ELSE IF s[n] \in S THEN Append(of[n - 1], s[n]) ELSE of[n - 1]
  IN  of[Len(s)]

Texts(blocks) == [i \in DOMAIN blocks |-> blocks[i].text]

-----------------------------------------------------------------------------
(* From a request to a prompt.                                             *)

\* into_text: text only, what else there is, is dropped.
IntoText(blocks) == Texts(Of(blocks, Blocks({"text"})))

\* Mutant: markup goes behind the text.
TextFirst(blocks) ==
  IntoText(blocks) \o Texts(Of(blocks, Blocks({"tool_use", "tool_result"})))

\* into_qwen3_text: calls and results become markup where they stand.
IntoQwen3Text(blocks) ==
  Texts(Of(blocks, Blocks({"text", "tool_use", "tool_result"})))

Role(role, known) == IF role \in known THEN role ELSE "user"
Entry(role, content) == [role |-> role, content |-> content]
Entries(roles) == [role : roles, content : Seq(Saying(Whats))]

\* Mutant: the first message is taken for the system message.
InjectFirst(entries) == [entries EXCEPT ![1].content = Append(@, Tools)]

\* Into the first system message, or into a new one in front.
Inject(entries) ==
  LET systems == {i \in DOMAIN entries : entries[i].role = "system"}
      first   == CHOOSE i \in systems : \A j \in systems : i <= j
  IN  IF systems # {} THEN [entries EXCEPT ![first].content = Append(@, Tools)]
                      ELSE <<Entry("system", <<Helper, Tools>>)>> \o entries

\* prepare_messages: the calls of a message follow its text.
PrepareMessages(messages) ==
  LET entries == [i \in DOMAIN messages |->
                    Entry(messages[i].role, IntoText(messages[i].blocks) \o messages[i].calls)]
      ready   == IF setting.tools = "some" THEN Inject(entries) ELSE entries
  IN  [i \in DOMAIN ready |->
         [ready[i] EXCEPT !.role = Role(@, {"system", "assistant", "tool"})]]

\* to_openai_messages: the system field, with the tools behind it, if there is
\* either of them.
ToOpenaiMessages(messages) ==
  LET system  == (IF setting.system = "system" THEN <<System>> ELSE <<>>)
                 \o (IF setting.tools = "some" THEN <<Tools>> ELSE <<>>)
      entries == [i \in DOMAIN messages |->
                    Entry(Role(messages[i].role, {"assistant", "tool"}),
                          IntoQwen3Text(messages[i].blocks))]
  IN  (IF system # <<>> THEN <<Entry("system", system)>> ELSE <<>>) \o entries

Prepare(messages) ==
  IF setting.protocol = "openai" THEN PrepareMessages(messages) ELSE ToOpenaiMessages(messages)

-----------------------------------------------------------------------------
(* From the model's answer to the client's message.                        *)

NoReply == [blocks |-> <<>>, calls |-> <<>>]

\* tool_calls[].index of an OpenAI frame, for the next call of an answer.
CallIndex(calls) == 0

\* A client puts the deltas of one index together.
HearsCall(calls, text) ==
  LET i == CallIndex(calls) + 1
  IN  IF i \in DOMAIN calls THEN [calls EXCEPT ![i].names = @ \o text.names]
                            ELSE Append(calls, text)

\* The parser takes the marks off thinking, and both emitters send it as text.
Plain(text) == IF text.what = "thinking" THEN Text("text", text.names) ELSE text

\* A stream tells text and thinking as text, a call in the way of the protocol, and
\* nothing of a call that does not parse.  A whole answer is the markup itself, with
\* all its marks.
Hears(heard, text) ==
  IF ~setting.stream THEN [heard EXCEPT !.blocks = Append(@, Block("text", text))]
  ELSE IF text.what = "garbled" THEN heard
  ELSE IF text.what # "call" THEN [heard EXCEPT !.blocks = Append(@, Block("text", Plain(text)))]
  ELSE IF setting.protocol = "openai" THEN [heard EXCEPT !.calls = HearsCall(@, text)]
  ELSE [heard EXCEPT !.blocks = Append(@, Block("tool_use", text))]

CallsOf(answer) == Of(answer, Saying({"call"}))

\* Mutant: a call does not overrule an answer that was cut for its length.
ReasonUpstream(upstream) ==
  IF upstream = "stop" /\ setting.stream /\ CallsOf(Last(said)) # <<>> THEN "tool_calls"
  ELSE IF setting.protocol = "openai" THEN upstream
  ELSE "stop"

\* What llama-server ended with is overruled by a call; Anthropic clients are told
\* of nothing else.
Reason(upstream) ==
  IF setting.stream /\ CallsOf(Last(said)) # <<>> THEN "tool_calls"
  ELSE IF setting.protocol = "openai" THEN upstream
  ELSE "stop"

-----------------------------------------------------------------------------
(* The conversation.                                                       *)

Question(turn) ==
  Message("user", <<Block("text", Text("question", <<<<turn, 0>>>>)),
                    Block("image", Text("image", <<>>))>>, <<>>)

\* A system text: a message of its own, first or behind another, or for Anthropic a
\* field of the request.
Opening ==
  LET own(role) == <<Message(role, <<Block("text", System)>>, <<>>)>>
  IN  IF setting.protocol # "openai" \/ setting.system = "none" THEN <<>>
      ELSE IF setting.system = "late" THEN <<Question(0)>> \o own("system")
      ELSE own(setting.system)

\* The results of the calls a client was given, in their order: a message each,
\* or the blocks of one.
Answers(calls) ==
  LET result(call) == Text("result", call.names)
  IN  IF setting.protocol = "openai"
      THEN [i \in DOMAIN calls |-> Message("tool", <<Block("text", result(calls[i]))>>, <<>>)]
      ELSE <<Message("user", [i \in DOMAIN calls |-> Block("tool_result", result(calls[i]))], <<>>)>>

Given == IF setting.protocol = "openai" THEN reply.calls
         ELSE Texts(Of(reply.blocks, Blocks({"tool_use"})))

\* A request: the history, the last answer, and the results of its calls or the
\* next question.
Ask ==
  /\ phase = "client"
  /\ LET answer == IF said = <<>> THEN Opening ELSE <<Message("assistant", reply.blocks, reply.calls)>>
         news   == IF told = "tool_calls" THEN Answers(Given) ELSE <<Question(Len(said) + 1)>>
     IN  /\ history' = history \o answer \o news
         /\ prompt' = Prepare(history')
  /\ phase' = IF Len(said) < MaxTurns THEN "model" ELSE "over"
  /\ said' = Append(said, <<>>) /\ reply' = NoReply
  /\ UNCHANGED <<setting, told, recorded>>

\* The model goes on; the parser and the emitter pass on what they make of it.
Say(what) ==
  /\ phase = "model" /\ Len(Last(said)) < MaxEvents
  /\ LET text == Text(what, <<<<Len(said), Len(Last(said)) + 1>>>>)
     IN  /\ said' = [said EXCEPT ![Len(said)] = Append(@, text)]
         /\ reply' = Hears(reply, text)
  /\ UNCHANGED <<setting, history, prompt, told, recorded, phase>>

End(upstream) ==
  /\ phase = "model"
  /\ told' = Reason(upstream) /\ recorded' = upstream
  /\ phase' = "client"
  /\ UNCHANGED <<setting, history, prompt, said, reply>>

Init ==
  /\ setting \in Settings
  /\ setting.protocol = "anthropic" => setting.system \in {"none", "system"}
  /\ history = <<>> /\ prompt = <<>> /\ said = <<>>
  /\ reply = NoReply /\ told = "none" /\ recorded = "none"
  /\ phase = "client"

Next ==
  \/ Ask
  \/ \E what \in Spoken : Say(what)
  \/ \E upstream \in {"stop", "length"} : End(upstream)

Spec == Init /\ [][Next]_vars

-----------------------------------------------------------------------------
(* Properties.                                                             *)

Prompted == phase \in {"model", "over"}

\* The answers the model gave, as its next prompt shows them.
Shown == LET own == Of(prompt, Entries({"assistant"}))
         IN  [i \in DOMAIN own |-> own[i].content]

Earlier == Front(said)

NotCalls(answer) == Of(answer, Saying(Whats \ {"call"}))

\* Does a client of a stream get the calls apart from each other ?
CallsApart == setting.protocol = "anthropic" \/ \A i \in DOMAIN said : Len(CallsOf(said[i])) <= 1

\* An answer as a client may get it: a stream loses the marks of thinking and the
\* calls that do not parse, and no more.
Relayed(answer) ==
  LET parsed == Of(answer, Saying(Spoken \ {"garbled"}))
  IN  IF setting.stream THEN [i \in DOMAIN parsed |-> Plain(parsed[i])] ELSE answer

\* The model sees in its prompt what it wrote before.  On the way through parser,
\* frames, client and translation a stream loses the marks of thinking and the calls
\* that do not parse (stream_parser.rs:117 and 190); nothing else is lost or doubled,
\* and of a whole answer nothing at all.  The blocks of an Anthropic stream and the
\* text of a whole answer keep the order; an OpenAI message has its text first and
\* then its call (openai.rs:145, types/anthropic.rs:59).
RemembersItsWords ==
  Prompted =>
    /\ Len(Shown) = Len(Earlier)
    /\ \A i \in DOMAIN Earlier :
         IF setting.protocol = "openai" /\ setting.stream
         THEN /\ NotCalls(Shown[i]) = NotCalls(Relayed(Earlier[i]))
              /\ CallsApart => CallsOf(Shown[i]) = CallsOf(Earlier[i])
         ELSE Shown[i] = Relayed(Earlier[i])

All(entries) == FlattenSeq([i \in DOMAIN entries |-> entries[i].content])

\* Every call of a stream has its result, in the prompt that follows it and in all
\* later ones, and the results come in the order of the calls: there is nothing else
\* to tell them by, since their ids are dropped (types/anthropic.rs:62).
CallsAnswered ==
  Prompted /\ setting.stream /\ CallsApart =>
    LET Names(texts) == [i \in DOMAIN texts |-> texts[i].names]
    IN  Names(Of(All(prompt), Saying({"result"})))
          = Names(CallsOf(FlattenSeq(Earlier)))

\* Tools are announced once, in the first system message the model gets, and only if
\* there are any: whether the client brings a system text, in front or further down,
\* or none, and in every later prompt too (openai.rs:160, anthropic.rs:237).
ToolsAnnounced ==
  Prompted =>
    /\ Len(Of(All(prompt), {Tools})) = IF setting.tools = "some" THEN 1 ELSE 0
    /\ setting.tools = "some" =>
         \E i \in DOMAIN prompt :
           /\ prompt[i].role = "system" /\ Contains(prompt[i].content, Tools)
           /\ \A k \in 1 .. i - 1 : prompt[k].role # "system"

-----------------------------------------------------------------------------
(* What documents say, and the code does not do.                           *)

\* "Qwen3 tool-call XML injection + parsing ... Done" (README.md:37): two calls of
\* one OpenAI answer have the same index, and a client takes them for one.
CallsKeptApart ==
  Prompted /\ setting.stream =>
    \A i \in DOMAIN Earlier : CallsOf(Shown[i]) = CallsOf(Earlier[i])

\* "finish_reason: stop, length, or tool_calls" (README.md:331): the tracker has
\* what llama-server ended with, which parses no calls.
ReasonsAgree == phase = "client" => recorded = told

\* "Tool definitions ... not yet forwarded to the model" (types/anthropic.rs:138): they
\* are in the system message of an Anthropic request.
ToolsNotForwarded ==
  setting.protocol = "anthropic" => ~Contains(All(prompt), Tools)
=============================================================================
