----------------------- MODULE AnthropicStreamProofs ------------------------
(***************************************************************************)
(* The frames of AnthropicStream form a message of MessageProtocol, for    *)
(* responses of any length: every step of the task is a step of the        *)
(* protocol or leaves its state alone.                                     *)
(***************************************************************************)
EXTENDS AnthropicStream, SequenceTheorems, TLAPS

\* What the local variables say at each await.
Shape ==
  /\ pc \in {"start", "ping"} => ~text_open /\ block_index = 0 /\ ~tool_called
  /\ pc \in {"start", "ping", "recv"} => ~flushing
  /\ pc \in {"tool_delta", "tool_stop"} => ~text_open
  /\ pc \in {"text_stop", "log", "delta", "stop"} => flushing
  /\ pc = "start" => sent = <<>>

Inv == TypeOK /\ Shape

\* The invariant holds when the task is spawned.
LEMMA InvInit == Init => Inv
<1> SUFFICES ASSUME Init PROVE Inv
  OBVIOUS
<1>1. TypeOK BY DEF Init, TypeOK, Awaits, Events, Texts
<1>2. Shape BY DEF Init, Shape
<1> QED BY <1>1, <1>2 DEF Inv

\* Every step keeps it.
LEMMA InvNext == Inv /\ [Next]_vars => Inv'
<1> SUFFICES ASSUME Inv, [Next]_vars PROVE Inv'
  OBVIOUS
<1> USE DEF Inv, TypeOK, Shape, Awaits, Events, Texts
<1>1. CASE SendStart BY <1>1 DEF SendStart, Emit
<1>2. CASE SendPing BY <1>2 DEF SendPing, Emit
<1>3. ASSUME NEW e \in Events, RecvToken(e) PROVE Inv'
  BY <1>3 DEF RecvToken
<1>4. ASSUME NEW e \in Events, RecvDone(e) PROVE Inv'
  BY <1>4 DEF RecvDone
<1>5. CASE RecvDoneEmpty BY <1>5 DEF RecvDoneEmpty
<1>6. CASE RecvError BY <1>6 DEF RecvError
<1>7. CASE OpenText BY <1>7 DEF OpenText, Emit
<1>8. CASE TextDelta
  <2>1. origin' \subseteq Nat \X {"text", "thinking"}
    BY <1>8 DEF TextDelta
  <2> QED BY <1>8, <2>1 DEF TextDelta, Emit, NextEvent
<1>9. CASE EndThinking BY <1>9 DEF EndThinking, NextEvent
<1>10. CASE CloseText
  <2>1. block_index' \in Nat BY <1>10 DEF CloseText
  <2>2. TypeOK' BY <1>10, <2>1 DEF CloseText
  <2>3. Shape' BY <1>10 DEF CloseText
  <2> QED BY <2>2, <2>3
<1>11. CASE ToolStart BY <1>11 DEF ToolStart, Emit
<1>12. CASE ToolDelta BY <1>12 DEF ToolDelta, Emit
<1>13. CASE ToolStop BY <1>13 DEF ToolStop, Emit, NextEvent
<1>14. CASE StopText BY <1>14 DEF StopText, Emit
<1>15. CASE NoTextToStop BY <1>15 DEF NoTextToStop
<1>16. CASE Log BY <1>16 DEF Log
<1>17. CASE SendDelta BY <1>17 DEF SendDelta, Emit
<1>18. CASE SendStop BY <1>18 DEF SendStop, Emit
<1>19. CASE SendFails BY <1>19 DEF SendFails
<1>20. CASE Leave BY <1>20 DEF Leave
<1>21. CASE UNCHANGED vars BY <1>21 DEF vars
<1> QED BY <1>1, <1>2, <1>3, <1>4, <1>5, <1>6, <1>7, <1>8, <1>9, <1>10, <1>11, <1>12,
           <1>13, <1>14, <1>15, <1>16, <1>17, <1>18, <1>19, <1>20, <1>21 DEF Next, Step

\* The type invariant of the streaming task.
THEOREM StreamTypeCorrect == Spec => []TypeOK
<1>1. Inv => TypeOK BY DEF Inv
<1> QED BY <1>1, InvInit, InvNext, PTL DEF Spec

\* The task starts where the protocol starts.
LEMMA StartsTheMessage == Init => Protocol!Init
BY DEF Init, Protocol!Init, Phase, Block, Index, Ended

-----------------------------------------------------------------------------
(* Every step is a step of the protocol, or hidden from it.                *)

\* The local variables as the protocol sees them.
LEMMA StepRefines == Inv /\ [Next]_vars => [Protocol!Next]_(Protocol!vars)
<1> SUFFICES ASSUME Inv, [Next]_vars PROVE [Protocol!Next]_(Protocol!vars)
  OBVIOUS
<1> USE DEF Inv, TypeOK, Shape, Awaits, Events, Texts, Phase, Block, Index, Ended
<1>a. ASSUME gone, gone' = gone, sent' = sent PROVE UNCHANGED Protocol!vars
  BY <1>a DEF Protocol!vars
<1>1. CASE SendStart
  <2>1. Protocol!MessageStart
    BY <1>1 DEF SendStart, Emit, Frame, Protocol!MessageStart, Protocol!Emit, Protocol!Frame
  <2> QED BY <2>1 DEF Protocol!Next
<1>2. CASE SendPing
  <2>1. Protocol!Ping
    BY <1>2 DEF SendPing, Emit, Frame, Protocol!Ping, Protocol!Emit, Protocol!Frame
  <2> QED BY <2>1 DEF Protocol!Next
<1>3. ASSUME NEW e \in Events, RecvToken(e) PROVE UNCHANGED Protocol!vars
  BY <1>3 DEF RecvToken, Protocol!vars
<1>4. ASSUME NEW e \in Events, RecvDone(e) PROVE UNCHANGED Protocol!vars
  BY <1>4 DEF RecvDone, Protocol!vars
<1>5. CASE RecvDoneEmpty BY <1>5 DEF RecvDoneEmpty, Protocol!vars
<1>6. CASE RecvError BY <1>6 DEF RecvError, Protocol!vars
<1>7. CASE OpenText
  <2>1. Protocol!BlockStart("text")
    BY <1>7 DEF OpenText, Emit, Frame, Protocol!BlockStart, Protocol!Emit, Protocol!Frame
  <2> QED BY <2>1 DEF Protocol!Next
<1>8. CASE TextDelta
  <2>1. Protocol!BlockDelta
    BY <1>8 DEF TextDelta, NextEvent, Emit, Frame, Protocol!BlockDelta, Protocol!Emit, Protocol!Frame
  <2> QED BY <2>1 DEF Protocol!Next
<1>9. CASE EndThinking BY <1>9 DEF EndThinking, NextEvent, Protocol!vars
<1>10. CASE CloseText
  <2>1. Protocol!BlockStop
    BY <1>10 DEF CloseText, Emit, Frame, Protocol!BlockStop, Protocol!Emit, Protocol!Frame
  <2> QED BY <2>1 DEF Protocol!Next
<1>11. CASE ToolStart
  <2>1. Protocol!BlockStart("tool")
    BY <1>11 DEF ToolStart, Emit, Frame, Protocol!BlockStart, Protocol!Emit, Protocol!Frame
  <2> QED BY <2>1 DEF Protocol!Next
<1>12. CASE ToolDelta
  <2>1. Protocol!BlockDelta
    BY <1>12 DEF ToolDelta, Emit, Frame, Protocol!BlockDelta, Protocol!Emit, Protocol!Frame
  <2> QED BY <2>1 DEF Protocol!Next
<1>13. CASE ToolStop
  <2>1. Protocol!BlockStop
    BY <1>13 DEF ToolStop, NextEvent, Emit, Frame, Protocol!BlockStop, Protocol!Emit, Protocol!Frame
  <2> QED BY <2>1 DEF Protocol!Next
<1>14. CASE StopText
  <2>1. Protocol!BlockStop
    BY <1>14 DEF StopText, Emit, Frame, Protocol!BlockStop, Protocol!Emit, Protocol!Frame
  <2> QED BY <2>1 DEF Protocol!Next
<1>15. CASE NoTextToStop BY <1>15 DEF NoTextToStop, Protocol!vars
<1>16. CASE Log BY <1>16 DEF Log, Protocol!vars
<1>17. CASE SendDelta
  <2>1. Protocol!MessageDelta
    BY <1>17 DEF SendDelta, Emit, Frame, Protocol!MessageDelta, Protocol!Emit, Protocol!Frame
  <2> QED BY <2>1 DEF Protocol!Next
<1>18. CASE SendStop
  <2>1. Protocol!MessageStop
    BY <1>18 DEF SendStop, Emit, Frame, Protocol!MessageStop, Protocol!Emit, Protocol!Frame
  <2> QED BY <2>1 DEF Protocol!Next
<1>19. CASE SendFails BY <1>19, <1>a DEF SendFails
<1>20. CASE Leave
  <2>1. Protocol!Cut
    BY <1>20 DEF Leave, Protocol!Cut
  <2> QED BY <2>1 DEF Protocol!Next
<1>21. CASE UNCHANGED vars
  BY <1>21 DEF vars, Protocol!vars
<1> QED BY <1>1, <1>2, <1>3, <1>4, <1>5, <1>6, <1>7, <1>8, <1>9, <1>10, <1>11, <1>12,
           <1>13, <1>14, <1>15, <1>16, <1>17, <1>18, <1>19, <1>20, <1>21 DEF Next, Step

\* WellFormed, whatever the parser produces and wherever the client leaves:
\* blocks are numbered without a gap and never overlap, nothing follows
\* message_stop, and the stop reason is tool_use only if a tool block was
\* completed (emit_parsed and streaming_response, anthropic.rs:326-595).
THEOREM StreamIsWellFormed == Spec => WellFormed
<1> QED BY StartsTheMessage, InvInit, InvNext, StepRefines, PTL DEF Spec, WellFormed, Protocol!Spec

-----------------------------------------------------------------------------
(* A response that is complete.                                            *)

Types == {"message_start", "ping", "content_block_start", "content_block_delta",
          "content_block_stop", "tool_use", "end_turn", "message_stop"}

Frames == [type : Types, index : Nat]

\* The task is past the log, and at its end.
Told ==
  /\ sent \in Seq(Frames)
  /\ pc \in {"delta", "stop"} => logged
  /\ DoneIsDelivered

\* What a step sends is a frame at the end of what was sent.
LEMMA LastFrame ==
  ASSUME sent \in Seq(Frames), NEW t \in Types, NEW i \in Nat, Emit(t, i)
  PROVE  sent' \in Seq(Frames) /\ sent'[Len(sent')].type = t
<1>1. Frame(t, i) \in Frames /\ Frame(t, i).type = t
  BY DEF Frame, Frames
<1>2. /\ Append(sent, Frame(t, i)) \in Seq(Frames)
      /\ Len(Append(sent, Frame(t, i))) = Len(sent) + 1
      /\ Append(sent, Frame(t, i))[Len(sent) + 1] = Frame(t, i)
  BY <1>1, AppendProperties
<1> QED BY <1>1, <1>2 DEF Emit

LEMMA ToldNext == Inv /\ Told /\ [Next]_vars => Told'
<1> SUFFICES ASSUME Inv, Told, [Next]_vars PROVE Told'
  OBVIOUS
<1>1. sent \in Seq(Frames) /\ block_index \in Nat /\ 0 \in Nat /\ flushing \in BOOLEAN
  BY DEF Told, Inv, TypeOK
<1>2. ASSUME UNCHANGED <<pc, sent, flushing, logged, gone>> \/ Leave PROVE Told'
  BY <1>2 DEF Told, DoneIsDelivered, Leave
\* Neither the end of the task nor past the log.
<1>3. ASSUME pc' \notin {"delta", "stop", "closed"} \/ (pc' = "closed" /\ ~flushing'),
             sent' \in Seq(Frames)
      PROVE  Told'
  BY <1>3 DEF Told, DoneIsDelivered
<1>4. CASE \/ SendStart \/ SendPing \/ OpenText \/ TextDelta \/ CloseText
           \/ ToolStart \/ ToolDelta \/ ToolStop \/ StopText
  <2>1. \/ Emit("message_start", 0) \/ Emit("ping", 0)
        \/ Emit("content_block_start", block_index)
        \/ Emit("content_block_delta", block_index)
        \/ Emit("content_block_stop", block_index)
    BY <1>4 DEF SendStart, SendPing, OpenText, TextDelta, CloseText, ToolStart, ToolDelta,
                ToolStop, StopText
  <2>2. sent' \in Seq(Frames)
    BY <1>1, <2>1, LastFrame DEF Types
  <2>3. pc' \notin {"delta", "stop", "closed"}
    BY <1>4 DEF SendStart, SendPing, OpenText, TextDelta, CloseText, ToolStart, ToolDelta,
                ToolStop, StopText, NextEvent
  <2> QED BY <1>3, <2>2, <2>3
<1>5. CASE \/ \E e \in Events : RecvToken(e)
           \/ \E e \in Texts \cup {"toolCall"} : RecvDone(e)
           \/ RecvDoneEmpty \/ EndThinking \/ NoTextToStop \/ RecvError
  <2>1. sent' = sent
    BY <1>5 DEF RecvToken, RecvDone, RecvDoneEmpty, EndThinking, NoTextToStop, RecvError
  <2>2. pc' \notin {"delta", "stop", "closed"} \/ (pc' = "closed" /\ ~flushing')
    BY <1>5 DEF RecvToken, RecvDone, RecvDoneEmpty, EndThinking, NoTextToStop, NextEvent, RecvError,
                Inv, Shape
  <2> QED BY <1>1, <1>3, <2>1, <2>2
<1>6. CASE Log
  BY <1>1, <1>6 DEF Log, Told, DoneIsDelivered
<1>7. CASE SendDelta
  <2>1. Emit("tool_use", 0) \/ Emit("end_turn", 0)
    BY <1>7 DEF SendDelta
  <2>2. sent' \in Seq(Frames)
    BY <1>1, <2>1, LastFrame DEF Types
  <2>3. pc = "delta" /\ pc' = "stop" /\ logged' = logged
    BY <1>7 DEF SendDelta
  <2> QED BY <2>2, <2>3 DEF Told, DoneIsDelivered
<1>8. CASE SendStop
  <2>0. Emit("message_stop", 0)
    BY <1>8 DEF SendStop
  <2>1. sent' \in Seq(Frames) /\ sent'[Len(sent')].type = "message_stop"
    BY <1>1, <2>0, LastFrame DEF Types
  <2>2. pc = "stop" /\ logged' = logged
    BY <1>8 DEF SendStop
  <2> QED BY <2>1, <2>2 DEF Told, DoneIsDelivered
<1>9. CASE SendFails
  <2>1. gone /\ gone' /\ sent' = sent /\ logged' = logged
    BY <1>9 DEF SendFails
  <2>2. pc \in {"delta", "stop"} \/ pc' \notin {"delta", "stop"}
    BY <1>9 DEF SendFails
  <2>3. pc' \in {"delta", "stop"} => logged'
    BY <2>1, <2>2 DEF Told
  <2>4. pc' = "closed" /\ flushing' => logged'
    BY <1>9 DEF SendFails, Told, Inv, Shape
  <2> QED BY <1>1, <2>1, <2>3, <2>4 DEF Told, DoneIsDelivered
<1> QED BY <1>2, <1>4, <1>5, <1>6, <1>7, <1>8, <1>9 DEF Next, Step, vars

\* A response that was generated to the end is in the log, and a client that
\* stayed has its closing frame (anthropic.rs:396-474).
THEOREM DoneReachesClientAndLog == Spec => []DoneIsDelivered
<1>1. Init => Inv /\ Told
  BY InvInit DEF Init, Told, DoneIsDelivered
<1>2. Inv /\ Told /\ [Next]_vars => Inv' /\ Told'
  BY InvNext, ToldNext
<1>3. Told => DoneIsDelivered
  BY DEF Told
<1> QED BY <1>1, <1>2, <1>3, PTL DEF Spec
=============================================================================
