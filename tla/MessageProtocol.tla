--------------------------- MODULE MessageProtocol --------------------------
(***************************************************************************)
(* The promise of an Anthropic message stream, as the header of            *)
(* server/routes/anthropic.rs describes it: message_start and ping, then   *)
(* content blocks one after the other, numbered from 0 without a gap, each *)
(* with its start, its deltas and its stop, then message_delta with the    *)
(* stop reason and message_stop.  A stream may be cut off anywhere, but     *)
(* what was sent is always the beginning of a complete one.                *)
(***************************************************************************)
EXTENDS Naturals, Sequences

VARIABLES
  phase,  \* "new", "greeted", "blocks", "ending", "over" or "cut"
  block,  \* the kind of the block that is open, or "none"
  index,  \* its number, or that of the next one
  tools,  \* has a tool_use block been completed ?
  sent    \* the frames

vars == <<phase, block, index, tools, sent>>

Frame(type, i) == [type |-> type, index |-> i]

Emit(f) == sent' = Append(sent, f)

Init ==
  /\ phase = "new" /\ block = "none" /\ index = 0 /\ tools = FALSE
  /\ sent = <<>>

MessageStart ==
  /\ phase = "new" /\ phase' = "greeted"
  /\ Emit(Frame("message_start", 0))
  /\ UNCHANGED <<block, index, tools>>

Ping ==
  /\ phase = "greeted" /\ phase' = "blocks"
  /\ Emit(Frame("ping", 0))
  /\ UNCHANGED <<block, index, tools>>

BlockStart(kind) ==
  /\ phase = "blocks" /\ block = "none"
  /\ block' = kind
  /\ Emit(Frame("content_block_start", index))
  /\ UNCHANGED <<phase, index, tools>>

BlockDelta ==
  /\ phase = "blocks" /\ block # "none"
  /\ Emit(Frame("content_block_delta", index))
  /\ UNCHANGED <<phase, block, index, tools>>

BlockStop ==
  /\ phase = "blocks" /\ block # "none"
  /\ block' = "none"
  /\ index' = index + 1
  /\ tools' = (tools \/ block = "tool")
  /\ Emit(Frame("content_block_stop", index))
  /\ UNCHANGED phase

\* The stop reason is tool_use exactly if the client was given a tool to use.
MessageDelta ==
  /\ phase = "blocks" /\ block = "none" /\ phase' = "ending"
  /\ Emit(Frame(IF tools THEN "tool_use" ELSE "end_turn", 0))
  /\ UNCHANGED <<block, index, tools>>

MessageStop ==
  /\ phase = "ending" /\ phase' = "over"
  /\ Emit(Frame("message_stop", 0))
  /\ UNCHANGED <<block, index, tools>>

\* The client leaves; nothing is sent any more.
Cut ==
  /\ phase' = "cut" /\ block' = "none" /\ index' = 0 /\ tools' = FALSE
  /\ UNCHANGED sent

Next ==
  \/ MessageStart \/ Ping
  \/ (\E kind \in {"text", "tool"} : BlockStart(kind)) \/ BlockDelta \/ BlockStop
  \/ MessageDelta \/ MessageStop \/ Cut

Spec == Init /\ [][Next]_vars
=============================================================================
