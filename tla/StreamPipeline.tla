--------------------------- MODULE StreamPipeline ---------------------------
(***************************************************************************)
(* What becomes of a request once it is sent upstream.                     *)
(*                                                                         *)
(* A streaming request runs through three tasks and two bounded channels:  *)
(* the event reader (spawn_event_reader, server/proxy.rs), the tracker     *)
(* (spawn_tracked_reader, proxy.rs), which keeps the metrics, and the      *)
(* emitter (streaming_response of routes/openai.rs or anthropic.rs), which *)
(* writes the conversation log and the client's stream.  A request that    *)
(* does not stream is one handler.  Metrics and log are shared.            *)
(*                                                                         *)
(* A token is known by its number.  What a token says, and how the emitter *)
(* words it, is the subject of SseReader, StreamParser, AnthropicStream.   *)
(***************************************************************************)
EXTENDS Integers, Sequences, FiniteSets, SequencesExt

CONSTANTS
  Reqs,       \* requests
  Streaming,  \* the requests with stream = true
  MaxTokens,  \* bound: tokens of one response
  Cap,        \* capacity of a channel (256 in the code)
  Reporting   \* may llama-server end a response with an error event ?

ASSUME PipelineAssumption ==
  /\ IsFiniteSet(Reqs) /\ Streaming \subseteq Reqs
  /\ MaxTokens \in Nat /\ Cap \in Nat \ {0}
  /\ Reporting \in BOOLEAN

Token(n) == [kind |-> "token", n |-> n]
Done     == [kind |-> "done",  n |-> 0]
Error    == [kind |-> "error", n |-> 0]
Nothing  == [kind |-> "none",  n |-> 0]

GenerateEvent == {Token(n) : n \in 1 .. MaxTokens} \cup {Done, Error}

VARIABLES
  protocol,  \* [Reqs -> {"openai", "anthropic"}]: the route a request comes by
  up,        \* the body llama-server sends: its state, and the tokens read of it
  reader,    \* where the event reader is
  chan1,     \* reader to tracker
  tracker,   \* where the tracker is, and the event it holds
  chan2,     \* tracker to emitter
  emitter,   \* where the emitter is, and the event it holds
  output,    \* emitter to client
  client,    \* "idle", "waiting" for the response, "reading", "gone" or "over"
  got,       \* what the client has read of a stream
  active,    \* MetricsCollector.active_requests
  requests,  \* MetricsCollector.total_requests
  errors,    \* MetricsCollector.total_errors
  logged     \* the requests in the conversation log

streamVars == <<up, reader, chan1, tracker, chan2, emitter, output, client, got>>
sharedVars == <<active, requests, errors, logged>>
vars       == <<protocol, streamVars, sharedVars>>

Off == [pc |-> "off", ev |-> Nothing]

\* A handler of a whole response that has raised the gauge and not lowered it:
\* awaiting the body, at the counters, at the window's lock, before the gauge,
\* or ended ("left") by `?` or by being dropped.
Raised     == {"body", "count", "record", "lower", "left"}
EmitterPcs == {"off", "recv", "emit", "log", "final", "closed"} \cup Raised

TypeOK ==
  /\ protocol \in [Reqs -> {"openai", "anthropic"}]
  /\ up \in [Reqs -> [state : {"none", "open", "complete", "failed", "cut"}, read : 0 .. MaxTokens]]
  /\ reader \in [Reqs -> {"off", "request", "read", "send", "done", "error", "closed"}]
  /\ chan1 \in [Reqs -> Seq(GenerateEvent)]
  /\ chan2 \in [Reqs -> Seq(GenerateEvent)]
  /\ \A r \in Reqs : Len(chan1[r]) <= Cap /\ Len(chan2[r]) <= Cap
  /\ tracker \in [Reqs -> [pc : {"off", "start", "recv", "send", "end", "closed"},
                           ev : GenerateEvent \cup {Nothing}]]
  /\ emitter \in [Reqs -> [pc : EmitterPcs, ev : GenerateEvent \cup {Nothing}]]
  /\ output \in [Reqs -> Seq(GenerateEvent)] /\ got \in [Reqs -> Seq(GenerateEvent)]
  /\ client \in [Reqs -> {"idle", "waiting", "reading", "gone", "over"}]
  /\ active \in Int /\ requests \in Nat /\ errors \in Nat
  /\ logged \subseteq Reqs

Set(f, r, x) == [f EXCEPT ![r] = x]
To(pc, ev)   == [pc |-> pc, ev |-> ev]

-----------------------------------------------------------------------------
(* The handler of a streaming request.                                     *)

Ask(r) ==
  /\ r \in Streaming /\ client[r] = "idle"
  /\ client' = Set(client, r, "waiting")
  /\ reader' = Set(reader, r, "request")
  /\ UNCHANGED <<protocol, up, chan1, tracker, chan2, emitter, output, got, sharedVars>>

\* llama-server answers: the tasks are spawned, the response begins.
Answered(r) ==
  /\ reader[r] = "request" /\ client[r] = "waiting"
  /\ up' = [up EXCEPT ![r].state = "open"]
  /\ reader' = Set(reader, r, "read")
  /\ tracker' = Set(tracker, r, To("start", Nothing))
  /\ emitter' = Set(emitter, r, To("recv", Nothing))
  /\ client' = Set(client, r, "reading")
  /\ UNCHANGED <<protocol, chan1, chan2, output, got, sharedVars>>

\* No connection, or a status that is no success: an error response, counted
\* nowhere.
Refused(r) ==
  /\ reader[r] = "request" /\ client[r] = "waiting"
  /\ reader' = Set(reader, r, "closed")
  /\ client' = Set(client, r, "over")
  /\ UNCHANGED <<protocol, up, chan1, tracker, chan2, emitter, output, got, sharedVars>>

-----------------------------------------------------------------------------
(* The event reader.                                                       *)

ReadToken(r) ==
  /\ reader[r] = "read" /\ up[r].state = "open" /\ up[r].read < MaxTokens
  /\ up' = [up EXCEPT ![r].read = @ + 1]
  /\ reader' = Set(reader, r, "send")
  /\ UNCHANGED <<protocol, chan1, tracker, chan2, emitter, output, client, got, sharedVars>>

\* The body ends: with [DONE], or after an error event the reader does not
\* know; either way the next event is Done.
ReadEnd(r) ==
  /\ reader[r] = "read" /\ up[r].state = "open"
  /\ \E s \in {"complete"} \cup IF Reporting THEN {"failed"} ELSE {} :
       up' = [up EXCEPT ![r].state = s]
  /\ reader' = Set(reader, r, "done")
  /\ UNCHANGED <<protocol, chan1, tracker, chan2, emitter, output, client, got, sharedVars>>

\* The connection breaks: llama-server was killed or crashed.
ReadError(r) ==
  /\ reader[r] = "read" /\ up[r].state = "open"
  /\ up' = [up EXCEPT ![r].state = "cut"]
  /\ reader' = Set(reader, r, "error")
  /\ UNCHANGED <<protocol, chan1, tracker, chan2, emitter, output, client, got, sharedVars>>

Holds(r) == CASE reader[r] = "send"  -> Token(up[r].read)
              [] reader[r] = "done"  -> Done
              [] reader[r] = "error" -> Error

\* Mutant: try_send in place of send, an event that does not fit is lost.
ReaderTrySends(r) ==
  /\ reader[r] \in {"send", "done", "error"} /\ tracker[r].pc # "closed"
  /\ chan1' = IF Len(chan1[r]) < Cap THEN Set(chan1, r, Append(chan1[r], Holds(r))) ELSE chan1
  /\ reader' = Set(reader, r, IF reader[r] = "send" THEN "read" ELSE "closed")
  /\ UNCHANGED <<protocol, up, tracker, chan2, emitter, output, client, got, sharedVars>>

\* tx.send waits for room.
ReaderSends(r) ==
  /\ reader[r] \in {"send", "done", "error"} /\ tracker[r].pc # "closed"
  /\ Len(chan1[r]) < Cap
  /\ chan1' = Set(chan1, r, Append(chan1[r], Holds(r)))
  /\ reader' = Set(reader, r, IF reader[r] = "send" THEN "read" ELSE "closed")
  /\ UNCHANGED <<protocol, up, tracker, chan2, emitter, output, client, got, sharedVars>>

\* The tracker has gone: the reader ends and drops the upstream connection.
ReaderStops(r) ==
  /\ reader[r] \in {"send", "done", "error"} /\ tracker[r].pc = "closed"
  /\ reader' = Set(reader, r, "closed")
  /\ UNCHANGED <<protocol, up, chan1, tracker, chan2, emitter, output, client, got, sharedVars>>

-----------------------------------------------------------------------------
(* The tracker.                                                            *)

TrackerStarts(r) ==
  /\ tracker[r].pc = "start"
  /\ active' = active + 1
  /\ tracker' = Set(tracker, r, To("recv", Nothing))
  /\ UNCHANGED <<protocol, up, reader, chan1, chan2, emitter, output, client, got, requests, errors, logged>>

\* Mutant: Done is passed on and not counted.
TrackerForgets(r) ==
  /\ tracker[r].pc = "recv" /\ chan1[r] # <<>>
  /\ tracker' = Set(tracker, r, To("send", Head(chan1[r])))
  /\ chan1' = Set(chan1, r, Tail(chan1[r]))
  /\ UNCHANGED <<protocol, up, reader, chan2, emitter, output, client, got, sharedVars>>

\* An event is counted before it is passed on.
TrackerRecvs(r) ==
  /\ tracker[r].pc = "recv" /\ chan1[r] # <<>>
  /\ tracker' = Set(tracker, r, To("send", Head(chan1[r])))
  /\ chan1' = Set(chan1, r, Tail(chan1[r]))
  /\ requests' = IF Head(chan1[r]) = Done THEN requests + 1 ELSE requests
  /\ errors' = IF Head(chan1[r]) = Error THEN errors + 1 ELSE errors
  /\ UNCHANGED <<protocol, up, reader, chan2, emitter, output, client, got, active, logged>>

TrackerSends(r) ==
  /\ tracker[r].pc = "send" /\ emitter[r].pc # "closed"
  /\ Len(chan2[r]) < Cap
  /\ chan2' = Set(chan2, r, Append(chan2[r], tracker[r].ev))
  /\ tracker' = Set(tracker, r, To("recv", Nothing))
  /\ UNCHANGED <<protocol, up, reader, chan1, emitter, output, client, got, sharedVars>>

\* The channel is closed: the reader is through, or the emitter has gone.
TrackerStops(r) ==
  /\ \/ tracker[r].pc = "recv" /\ chan1[r] = <<>> /\ reader[r] = "closed"
     \/ tracker[r].pc = "send" /\ emitter[r].pc = "closed"
  /\ tracker' = Set(tracker, r, To("end", Nothing))
  /\ UNCHANGED <<protocol, up, reader, chan1, chan2, emitter, output, client, got, sharedVars>>

\* Mutant: the task returns and leaves the gauge up.
TrackerLeaks(r) ==
  /\ tracker[r].pc = "end"
  /\ tracker' = Set(tracker, r, To("closed", Nothing))
  /\ chan1' = Set(chan1, r, <<>>)
  /\ UNCHANGED <<protocol, up, reader, chan2, emitter, output, client, got, sharedVars>>

TrackerEnds(r) ==
  /\ tracker[r].pc = "end"
  /\ active' = active - 1
  /\ tracker' = Set(tracker, r, To("closed", Nothing))
  /\ chan1' = Set(chan1, r, <<>>)
  /\ UNCHANGED <<protocol, up, reader, chan2, emitter, output, client, got, requests, errors, logged>>

-----------------------------------------------------------------------------
(* The emitter.                                                            *)

\* A token is emitted, Done is logged first, Error just ends the stream.  The
\* channel never closes before one of the last two: the reader sends one.
EmitterRecvs(r) ==
  /\ emitter[r].pc = "recv" /\ chan2[r] # <<>>
  /\ LET ev == Head(chan2[r])
     IN  IF ev = Error
         THEN /\ emitter' = Set(emitter, r, To("closed", Nothing))
              /\ chan2' = Set(chan2, r, <<>>)
         ELSE /\ emitter' = Set(emitter, r, To(IF ev = Done THEN "log" ELSE "emit", ev))
              /\ chan2' = Set(chan2, r, Tail(chan2[r]))
  /\ UNCHANGED <<protocol, up, reader, chan1, tracker, output, client, got, sharedVars>>

\* Does the send of a frame go through at once ?  The OpenAI channel has no
\* bound, and a send to a client that has gone is ignored there.
Fits(r)  == protocol[r] = "openai" \/ Len(output[r]) < Cap
There(r) == client[r] = "reading"

Push(r, ev) == output' = IF There(r) THEN Set(output, r, Append(output[r], ev)) ELSE output

EmitterEmits(r) ==
  /\ emitter[r].pc = "emit"
  /\ Fits(r) /\ (There(r) \/ protocol[r] = "openai")
  /\ Push(r, emitter[r].ev)
  /\ emitter' = Set(emitter, r, To("recv", Nothing))
  /\ UNCHANGED <<protocol, up, reader, chan1, tracker, chan2, client, got, sharedVars>>

\* Mutant: a send that failed is tried again.
EmitterInsists(r) ==
  /\ emitter[r].pc = "emit"
  /\ protocol[r] = "anthropic" /\ ~There(r)
  /\ UNCHANGED vars

\* A failed send ends the Anthropic emitter, and so the tasks behind it.
EmitterStops(r) ==
  /\ emitter[r].pc = "emit"
  /\ protocol[r] = "anthropic" /\ ~There(r)
  /\ emitter' = Set(emitter, r, To("closed", Nothing))
  /\ chan2' = Set(chan2, r, <<>>)
  /\ UNCHANGED <<protocol, up, reader, chan1, tracker, output, client, got, sharedVars>>

\* Mutant: the closing frames go out first, and the log entry is lost with a
\* client that leaves after them.
EmitterSkipsLog(r) ==
  /\ emitter[r].pc = "log"
  /\ emitter' = Set(emitter, r, To("final", Done))
  /\ UNCHANGED <<protocol, up, reader, chan1, tracker, chan2, output, client, got, sharedVars>>

EmitterLogs(r) ==
  /\ emitter[r].pc = "log"
  /\ logged' = logged \cup {r}
  /\ emitter' = Set(emitter, r, To("final", Done))
  /\ UNCHANGED <<protocol, up, reader, chan1, tracker, chan2, output, client, got, active, requests, errors>>

\* The closing frames.
EmitterFinishes(r) ==
  /\ emitter[r].pc = "final"
  /\ Fits(r) \/ ~There(r)
  /\ Push(r, Done)
  /\ emitter' = Set(emitter, r, To("closed", Nothing))
  /\ chan2' = Set(chan2, r, <<>>)
  /\ UNCHANGED <<protocol, up, reader, chan1, tracker, client, got, sharedVars>>

-----------------------------------------------------------------------------
(* The client.                                                             *)

ClientReads(r) ==
  /\ client[r] = "reading" /\ output[r] # <<>>
  /\ got' = Set(got, r, Append(got[r], Head(output[r])))
  /\ output' = Set(output, r, Tail(output[r]))
  /\ UNCHANGED <<protocol, up, reader, chan1, tracker, chan2, emitter, client, sharedVars>>

ClientSeesEnd(r) ==
  /\ client[r] = "reading" /\ output[r] = <<>> /\ emitter[r].pc = "closed"
  /\ client' = Set(client, r, "over")
  /\ UNCHANGED <<protocol, up, reader, chan1, tracker, chan2, emitter, output, got, sharedVars>>

\* The client disconnects.  While its handler waits for llama-server, the server
\* drops the handler: no task has been spawned, nothing is put back.  A handler of
\* a whole response is dropped at its next await, WholeDropped.
Leave(r) ==
  /\ client[r] \in {"waiting", "reading"}
  /\ client' = Set(client, r, "gone")
  /\ output' = Set(output, r, <<>>)
  /\ reader' = IF reader[r] = "request" THEN Set(reader, r, "closed") ELSE reader
  /\ UNCHANGED <<protocol, up, chan1, tracker, chan2, emitter, got, sharedVars>>

-----------------------------------------------------------------------------
(* A request that does not stream: one handler, which awaits the body and,  *)
(* behind the counters, the lock of the metrics window.                    *)

AskWhole(r) ==
  /\ r \notin Streaming /\ client[r] = "idle"
  /\ client' = Set(client, r, "waiting")
  /\ emitter' = Set(emitter, r, To("body", Nothing))
  /\ active' = active + 1
  /\ UNCHANGED <<protocol, up, reader, chan1, tracker, chan2, output, got, requests, errors, logged>>

Goes(r, from, to) ==
  /\ emitter[r].pc = from
  /\ emitter' = Set(emitter, r, To(to, Nothing))
  /\ UNCHANGED <<protocol, up, reader, chan1, tracker, chan2, output, got>>

\* The client has its answer, if it is still there.
Answer(r) == client' = IF client[r] = "waiting" THEN Set(client, r, "over") ELSE client

\* A JSON body, with a success status or, on the Anthropic route, any status, is
\* logged first ...
WholeLogs(r) ==
  /\ Goes(r, "body", "count")
  /\ logged' = logged \cup {r}
  /\ UNCHANGED <<client, active, requests, errors>>

\* ... then counted; record() adds the tokens and waits for the window.
WholeCounts(r) ==
  /\ Goes(r, "count", "record")
  /\ requests' = requests + 1
  /\ UNCHANGED <<client, active, errors, logged>>

WholeRecords(r) ==
  /\ Goes(r, "record", "lower")
  /\ UNCHANGED <<client, sharedVars>>

\* The OpenAI route passes an error status on and counts it, and passes on a
\* body that is no JSON and counts nothing.
WholeError(r) ==
  /\ protocol[r] = "openai"
  /\ Goes(r, "body", "lower")
  /\ errors' \in {errors, errors + 1}
  /\ UNCHANGED <<client, active, requests, logged>>

WholeLowers(r) ==
  /\ Goes(r, "lower", "closed")
  /\ active' = active - 1
  /\ Answer(r)
  /\ UNCHANGED <<requests, errors, logged>>

\* The connection breaks (or, on the Anthropic route, the body is no JSON): the
\* handler returns by `?`, before the gauge is put back.
WholeFails(r) ==
  /\ Goes(r, "body", "left")
  /\ Answer(r)
  /\ UNCHANGED sharedVars

\* Mutant: the log entry is awaited too, and a handler is dropped behind it.
WholeDroppedEarly(r) ==
  /\ client[r] = "gone"
  /\ \E pc \in {"body", "count", "record"} : Goes(r, pc, "left")
  /\ UNCHANGED <<client, sharedVars>>

\* The client has gone: the server drops the handler where it awaits, before
\* the gauge is put back.
WholeDropped(r) ==
  /\ client[r] = "gone"
  /\ Goes(r, "body", "left") \/ Goes(r, "record", "left")
  /\ UNCHANGED <<client, sharedVars>>

-----------------------------------------------------------------------------
Init ==
  /\ protocol \in [Reqs -> {"openai", "anthropic"}]
  /\ up = [r \in Reqs |-> [state |-> "none", read |-> 0]]
  /\ reader = [r \in Reqs |-> "off"]
  /\ tracker = [r \in Reqs |-> Off] /\ emitter = [r \in Reqs |-> Off]
  /\ chan1 = [r \in Reqs |-> <<>>] /\ chan2 = [r \in Reqs |-> <<>>]
  /\ output = [r \in Reqs |-> <<>>] /\ got = [r \in Reqs |-> <<>>]
  /\ client = [r \in Reqs |-> "idle"]
  /\ active = 0 /\ requests = 0 /\ errors = 0 /\ logged = {}

ReaderStep(r) ==
  Answered(r) \/ Refused(r) \/ ReadToken(r) \/ ReadEnd(r) \/ ReadError(r)
  \/ ReaderSends(r) \/ ReaderStops(r)

TrackerStep(r) ==
  TrackerStarts(r) \/ TrackerRecvs(r) \/ TrackerSends(r) \/ TrackerStops(r) \/ TrackerEnds(r)

EmitterStep(r) ==
  EmitterRecvs(r) \/ EmitterEmits(r) \/ EmitterStops(r)
  \/ EmitterLogs(r) \/ EmitterFinishes(r)

ClientStep(r) == ClientReads(r) \/ ClientSeesEnd(r)

WholeStep(r) ==
  WholeLogs(r) \/ WholeCounts(r) \/ WholeRecords(r) \/ WholeError(r)
  \/ WholeLowers(r) \/ WholeFails(r) \/ WholeDropped(r)

Next == \E r \in Reqs :
  \/ Ask(r) \/ AskWhole(r) \/ Leave(r)
  \/ ReaderStep(r) \/ TrackerStep(r) \/ EmitterStep(r) \/ ClientStep(r) \/ WholeStep(r)

Spec == Init /\ [][Next]_vars

\* The runtime polls every task, llama-server goes on or ends, and a client
\* reads or leaves.
Fairness == \A r \in Reqs :
  /\ WF_vars(ReaderStep(r)) /\ WF_vars(TrackerStep(r)) /\ WF_vars(EmitterStep(r))
  /\ WF_vars(ClientStep(r) \/ (client[r] = "reading" /\ Leave(r)))

FairSpec == Spec /\ Fairness

-----------------------------------------------------------------------------
(* Properties.                                                             *)

Tokens(n) == [i \in 1 .. n |-> Token(i)]

\* The client gets what llama-server sent, in order, nothing lost or doubled on
\* the way through two channels and three tasks; the closing frame comes last
\* and only when everything was delivered (proxy.rs:93 and 200).
ClientSeesPrefix ==
  \A r \in Streaming :
    \/ got[r] = Tokens(Len(got[r])) /\ Len(got[r]) <= up[r].read
    \/ got[r] = Append(Tokens(up[r].read), Done) /\ up[r].state \in {"complete", "failed"}

\* A response that the client saw end is in the log and in total_requests: the
\* tracker counts before it passes Done on, the emitter logs before it closes
\* the stream (proxy.rs:257, openai.rs:324, anthropic.rs:424).
CompleteIsAccounted ==
  LET complete == {r \in Streaming : Contains(got[r], Done)}
  IN  complete \subseteq logged /\ Cardinality(complete) <= requests

\* Every log entry is a counted request, save those of the handlers just
\* between the two: a whole response is logged first (openai.rs:438 and 452), but
\* no await lies between, so a client that leaves cannot part them.  No request
\* is counted twice or both as a success and as an error.
CountedOnce ==
  /\ Cardinality({r \in logged : emitter[r].pc # "count"}) <= requests
  /\ requests + errors <= Cardinality({r \in Reqs : client[r] # "idle"})

\* The gauge of requests in flight stands for the trackers and the handlers of
\* whole responses that run, and for nothing else but the handlers that were
\* left by `?` or dropped at an await, of the body or, logged and counted, of
\* the window (proxy.rs:279, openai.rs:403, metrics.rs:91).
GaugeTracks ==
  active = Cardinality({r \in Reqs : tracker[r].pc \in {"recv", "send", "end"}
                                     \/ emitter[r].pc \in Raised})

\* A stream that has begun comes to rest: no two of its tasks wait for each
\* other, whether the client reads on, is slow or leaves.
StreamsDrain ==
  \A r \in Streaming :
    [](client[r] = "reading" =>
        <>(reader[r] = "closed" /\ tracker[r].pc = "closed" /\ emitter[r].pc = "closed"))

-----------------------------------------------------------------------------
(* What comments say, and the code does not do.                            *)

\* "Number of requests currently in flight" (metrics.rs:43).
GaugeCountsInFlight == active <= Cardinality({r \in Reqs : emitter[r].pc \notin {"off", "closed", "left"}
                                                           \/ tracker[r].pc \notin {"off", "closed"}})

\* "Generation finished successfully" (backend.rs:63): Done is sent of a
\* response that llama-server completed.
DoneMeansComplete ==
  \A r \in Streaming : Contains(chan1[r], Done) => up[r].state = "complete"

\* "Total inference errors" (routes/metrics.rs:132): a response that breaks off
\* or is refused is one.
ErrorsCounted ==
  \A r \in Streaming : client[r] = "over" /\ got[r] = <<>> /\ up[r].state = "none" => errors > 0
=============================================================================
