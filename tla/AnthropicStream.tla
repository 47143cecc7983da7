-------------------------- MODULE AnthropicStream ---------------------------
(***************************************************************************)
(* The task behind a streaming POST /v1/messages: streaming_response and   *)
(* emit_parsed of server/routes/anthropic.rs.  It turns the parser's       *)
(* events into the frames of the Anthropic protocol.                       *)
(*                                                                         *)
(* Every send is an await that fails once the client has gone, so every    *)
(* frame is a step of its own: a stream can break off between any two.     *)
(* The frames are numbered by block; which text they carry is left out,    *)
(* but where it comes from, text or thinking, is kept in `origin`.         *)
(***************************************************************************)
EXTENDS Naturals, Sequences

CONSTANT MaxEvents  \* bound: events the parser produces for one response

ASSUME MaxEventsAssumption == MaxEvents \in Nat

Texts  == {"text", "thinking"}
Events == Texts \cup {"thinkingEnd", "toolCall"}

VARIABLES
  pc,           \* the await the task is at
  event,        \* the event emit_parsed is working on
  flushing,     \* has GenerateEvent::Done arrived ?
  block_index,
  text_open,
  tool_called,
  logged,       \* the exchange is in the conversation log
  count,        \* events so far
  gone,         \* the client has disconnected
  sent,         \* the frames the client gets
  origin        \* where the text deltas of each block came from

vars == <<pc, event, flushing, block_index, text_open, tool_called,
          logged, count, gone, sent, origin>>

Awaits == {"start", "ping", "recv", "emit", "tool_delta", "tool_stop",
           "text_stop", "log", "delta", "stop", "closed"}

TypeOK ==
  /\ pc \in Awaits
  /\ event \in Events
  /\ block_index \in Nat
  /\ flushing \in BOOLEAN /\ text_open \in BOOLEAN /\ tool_called \in BOOLEAN
  /\ logged \in BOOLEAN /\ gone \in BOOLEAN
  /\ count \in Nat
  /\ origin \subseteq Nat \X Texts

Frame(type, i) == [type |-> type, index |-> i]

\* tx.send(..).await succeeds.
Emit(type, i) == ~gone /\ sent' = Append(sent, Frame(type, i))

\* The event is dealt with: the next one, or the end of the flush.
NextEvent == pc' = IF flushing THEN "text_stop" ELSE "recv"

Init ==
  /\ pc = "start" /\ event = "text" /\ flushing = FALSE
  /\ block_index = 0 /\ text_open = FALSE /\ tool_called = FALSE
  /\ logged = FALSE /\ count = 0 /\ gone = FALSE
  /\ sent = <<>> /\ origin = {}

-----------------------------------------------------------------------------
SendStart ==
  /\ pc = "start" /\ pc' = "ping"
  /\ Emit("message_start", 0)
  /\ UNCHANGED <<event, flushing, block_index, text_open, tool_called, logged, count, gone, origin>>

SendPing ==
  /\ pc = "ping" /\ pc' = "recv"
  /\ Emit("ping", 0)
  /\ UNCHANGED <<event, flushing, block_index, text_open, tool_called, logged, count, gone, origin>>

\* GenerateEvent::Token: the parser makes an event of it, or nothing yet.
RecvToken(e) ==
  /\ pc = "recv" /\ count < MaxEvents
  /\ pc' = "emit" /\ event' = e /\ count' = count + 1
  /\ UNCHANGED <<flushing, block_index, text_open, tool_called, logged, gone, sent, origin>>

\* GenerateEvent::Done: flush has one more event, never a ThinkingEnd, or none.
RecvDone(e) ==
  /\ pc = "recv"
  /\ pc' = "emit" /\ event' = e /\ flushing' = TRUE
  /\ UNCHANGED <<block_index, text_open, tool_called, logged, count, gone, sent, origin>>

RecvDoneEmpty ==
  /\ pc = "recv"
  /\ pc' = "text_stop" /\ flushing' = TRUE
  /\ UNCHANGED <<event, block_index, text_open, tool_called, logged, count, gone, sent, origin>>

\* GenerateEvent::Error, or the tracker is gone: the stream just ends.
RecvError ==
  /\ pc = "recv" /\ pc' = "closed"
  /\ UNCHANGED <<event, flushing, block_index, text_open, tool_called, logged, count, gone, sent, origin>>

OpenText ==
  /\ pc = "emit" /\ event \in Texts /\ ~text_open
  /\ Emit("content_block_start", block_index)
  /\ text_open' = TRUE
  /\ UNCHANGED <<pc, event, flushing, block_index, tool_called, logged, count, gone, origin>>

\* Thinking goes into the same block as text.
TextDelta ==
  /\ pc = "emit" /\ event \in Texts /\ text_open
  /\ Emit("content_block_delta", block_index)
  /\ origin' = origin \cup {<<block_index, event>>}
  /\ NextEvent
  /\ UNCHANGED <<event, flushing, block_index, text_open, tool_called, logged, count, gone>>

EndThinking ==
  /\ pc = "emit" /\ event = "thinkingEnd"
  /\ NextEvent
  /\ UNCHANGED <<event, flushing, block_index, text_open, tool_called, logged, count, gone, sent, origin>>

\* Mutant: the text block is closed, but its number is used again.
CloseTextKeepsIndex ==
  /\ pc = "emit" /\ event = "toolCall" /\ text_open
  /\ Emit("content_block_stop", block_index)
  /\ text_open' = FALSE
  /\ UNCHANGED <<pc, event, flushing, block_index, tool_called, logged, count, gone, origin>>

CloseText ==
  /\ pc = "emit" /\ event = "toolCall" /\ text_open
  /\ Emit("content_block_stop", block_index)
  /\ text_open' = FALSE /\ block_index' = block_index + 1
  /\ UNCHANGED <<pc, event, flushing, tool_called, logged, count, gone, origin>>

ToolStart ==
  /\ pc = "emit" /\ event = "toolCall" /\ ~text_open
  /\ Emit("content_block_start", block_index)
  /\ pc' = "tool_delta"
  /\ UNCHANGED <<event, flushing, block_index, text_open, tool_called, logged, count, gone, origin>>

ToolDelta ==
  /\ pc = "tool_delta" /\ pc' = "tool_stop"
  /\ Emit("content_block_delta", block_index)
  /\ UNCHANGED <<event, flushing, block_index, text_open, tool_called, logged, count, gone, origin>>

\* Mutant: block_index moves the wrong way.
ToolStopWraps ==
  /\ pc = "tool_stop"
  /\ Emit("content_block_stop", block_index)
  /\ block_index' = block_index - 1 /\ tool_called' = TRUE
  /\ NextEvent
  /\ UNCHANGED <<event, flushing, text_open, logged, count, gone, origin>>

ToolStop ==
  /\ pc = "tool_stop"
  /\ Emit("content_block_stop", block_index)
  /\ block_index' = block_index + 1 /\ tool_called' = TRUE
  /\ NextEvent
  /\ UNCHANGED <<event, flushing, text_open, logged, count, gone, origin>>

\* Mutant: a failed send is tried again.
SendRetries == gone /\ UNCHANGED vars

\* The client is gone.  Before Done every failed send ends the task; after it
\* emit_parsed gives up, the rest of the sends are tried, and the exchange is
\* logged all the same.
SendFails ==
  /\ gone
  /\ \/ pc \in {"start", "ping"} /\ pc' = "closed"
     \/ pc \in {"tool_delta", "tool_stop"} /\ pc' = IF flushing THEN "text_stop" ELSE "closed"
     \/ pc = "emit" /\ event # "thinkingEnd" /\ pc' = IF flushing THEN "text_stop" ELSE "closed"
     \/ pc = "text_stop" /\ text_open /\ pc' = "log"
     \/ pc = "delta" /\ pc' = "stop"
     \/ pc = "stop" /\ pc' = "closed"
  /\ UNCHANGED <<event, flushing, block_index, text_open, tool_called, logged, count, gone, sent, origin>>

StopText ==
  /\ pc = "text_stop" /\ text_open
  /\ Emit("content_block_stop", block_index)
  /\ pc' = "log"
  /\ UNCHANGED <<event, flushing, block_index, text_open, tool_called, logged, count, gone, origin>>

NoTextToStop ==
  /\ pc = "text_stop" /\ ~text_open /\ pc' = "log"
  /\ UNCHANGED <<event, flushing, block_index, text_open, tool_called, logged, count, gone, sent, origin>>

Log ==
  /\ pc = "log" /\ pc' = "delta"
  /\ logged' = TRUE
  /\ UNCHANGED <<event, flushing, block_index, text_open, tool_called, count, gone, sent, origin>>

SendDelta ==
  /\ pc = "delta" /\ pc' = "stop"
  /\ Emit(IF tool_called THEN "tool_use" ELSE "end_turn", 0)
  /\ UNCHANGED <<event, flushing, block_index, text_open, tool_called, logged, count, gone, origin>>

\* Mutant: the closing frame is not sent.
SendStopSkipped ==
  /\ pc = "stop" /\ pc' = "closed"
  /\ UNCHANGED <<event, flushing, block_index, text_open, tool_called, logged, count, gone, sent, origin>>

SendStop ==
  /\ pc = "stop" /\ pc' = "closed"
  /\ Emit("message_stop", 0)
  /\ UNCHANGED <<event, flushing, block_index, text_open, tool_called, logged, count, gone, origin>>

Leave ==
  /\ ~gone /\ gone' = TRUE
  /\ UNCHANGED <<pc, event, flushing, block_index, text_open, tool_called, logged, count, sent, origin>>

Step ==
  \/ SendStart \/ SendPing
  \/ (\E e \in Events : RecvToken(e)) \/ (\E e \in Texts \cup {"toolCall"} : RecvDone(e))
  \/ RecvDoneEmpty \/ RecvError
  \/ OpenText \/ TextDelta \/ EndThinking
  \/ CloseText \/ ToolStart \/ ToolDelta \/ ToolStop
  \/ StopText \/ NoTextToStop \/ Log \/ SendDelta \/ SendStop \/ SendFails

Next == Step \/ Leave

Spec == Init /\ [][Next]_vars

\* The backend goes on and the client reads, or leaves.
FairSpec == Spec /\ WF_vars(Step)

-----------------------------------------------------------------------------
(* Properties.                                                             *)

\* After GenerateEvent::Done the stop of the last block is behind these awaits;
\* block_index is not advanced any more.
Ended == flushing /\ pc \in {"log", "delta", "stop", "closed"}

Phase == IF gone THEN "cut"
         ELSE IF pc = "start" THEN "new"
         ELSE IF pc = "ping" THEN "greeted"
         ELSE IF pc = "stop" THEN "ending"
         ELSE IF pc = "closed" /\ flushing THEN "over" ELSE "blocks"

Block == IF gone THEN "none"
         ELSE IF pc \in {"tool_delta", "tool_stop"} THEN "tool"
         ELSE IF text_open /\ ~Ended THEN "text" ELSE "none"

Index == IF gone THEN 0 ELSE IF text_open /\ Ended THEN block_index + 1 ELSE block_index

Protocol == INSTANCE MessageProtocol WITH
  phase <- Phase, block <- Block, index <- Index, tools <- ~gone /\ tool_called

\* Whatever the parser produces and wherever the client leaves, the frames are
\* the beginning of a well-formed message (emit_parsed, anthropic.rs:476).
WellFormed == Protocol!Spec

\* A response that was generated to the end reaches a client that stayed, and
\* is in the log whether or not the client stayed.
DoneIsDelivered ==
  pc = "closed" /\ flushing =>
    /\ logged
    /\ gone \/ sent[Len(sent)].type = "message_stop"

\* The task ends: no frame waits for a client that has left.
TaskEnds == <>(pc = "closed")

-----------------------------------------------------------------------------
(* What the header says, and the code does not do.                         *)

\* "content_block_start (thinking, index=0) ... content_block_start (text,
\* index=1)" (anthropic.rs:8 and 11): thinking has a block of its own.
ThinkingApart ==
  \A i \in 0 .. block_index : ~(<<i, "text">> \in origin /\ <<i, "thinking">> \in origin)
=============================================================================
