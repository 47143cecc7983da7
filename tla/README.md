# TurboQuantLoader: specifications

TLA+ models of TurboQuantLoader, the TLC configurations that check them on small
instances, and proofs of the theorems that matter most for every size. Paths are
relative to the repository; `mod.rs` without a directory is `src/server/mod.rs`,
`openai.rs`, `anthropic.rs`, `admin.rs` are those of `src/server/routes/`.

- [The system](#the-system): components, state, operations, what is hard
- [The modules](#the-modules): which module models what, and how
- [The runs](#the-runs): what is checked, bounds, fairness
- [The proofs](#the-proofs)
- [Divergences](#divergences): where the code does not do what a comment says
- [Not modelled](#not-modelled), [Plan](#plan)

## The system

`tql serve` is a gateway in front of one supervised `llama-server`. It speaks the
OpenAI and the Anthropic protocol, rewrites requests, parses the model's markup
out of the generated text, switches models on request and restarts the backend
when it crashes. `tql run` and `tql bench` use llama.cpp in the process instead.

| component | state | operations | hard behaviour | correct if |
|---|---|---|---|---|
| **Backend process** `llama_process.rs` | state cell (Starting, Ready, Crashed, Stopped), child handle | start, restart, kill, drop, health poll, stderr reader | the reader outlives the handle and writes to the cell of a process that has moved on; `kill` does not wait; all children share one port | no server is left behind, no handle is shared or stale, a crash is seen |
| **Switch, watchdog, admin** `mod.rs`, `admin.rs` | `switching` flag, `process` pointer, `config` | trigger_model_switch and its task, crash_watchdog and its recovery task, POST load and restart | the flag is a CAS between several unlocked reads; admin routes bypass it; every task can fail half-way; admin handlers can be dropped at an await | the flag is a lock and is always put back; config and process agree; nobody swaps while the flag is down |
| **Request gate** `openai.rs`, `anthropic.rs` | `last_request_at`, the handler's `Arc<LlamaProcess>` | 503 gate, name resolution, idle guard, upstream POST | flag, config, time stamp and process are read one after the other | every request is answered, nothing borrowed is kept, the loaded model is reloaded only for a request that was overtaken |
| **Registry** `registry.rs`, `routes/models.rs` | `[[models]]` entries, files found | resolve, matches_current, list_models | a name is resolved by one rule and compared with the loaded model by another | a request does not reload the model it is served by |
| **SSE reader** `proxy.rs` | byte buffer, usage, finish reason | chunk, drain, finish | network chunks cut events and characters | chunking is invisible |
| **Stream pipeline** `proxy.rs`, both routes | two bounded channels, the client's channel, counters, log | reader, tracker and emitter tasks; the handlers of whole responses | three tasks wait for each other's room; the client can leave, the backend can die, anywhere | order kept, nothing lost, everything accounted, tasks end, the gauge falls back |
| **Markup parser** `stream_parser.rs` | Text, Thinking or ToolCall, lookahead, body buffer | push, process, flush | tags cut between tokens | events say what the markup says, with bounded delay |
| **Anthropic emitter** `anthropic.rs` | block index, open block, tool flag | frames for parser events, closing frames | every frame is an await that fails once the client has gone | frames are a prefix of a well-formed message |
| **Request translation** both routes, `server/types/` | none: the history comes back with every request | prepare_messages, to_openai_messages, content types, the frames of a call | what the model said goes out as frames and comes back in another form; ids of calls are dropped | the model reads its own words and the results of its calls |
| **Metrics** `metrics.rs`, `routes/metrics.rs` | totals, window of 100, gauge | inc, record, percentiles, three routes that read | counting is three steps, reading is several; the index of a percentile | what is shown together fits together |
| **Conversation log** `conversation_log.rs`, `main.rs:505` | file of the day, BufWriter, date | log, rotate, open, start-up sweep, days_to_ymd | midnight between time stamp, lock and date; writes that fail half-way; restarts | entries whole, on the right day, never lost again; dates are right |
| **Inference thread** `llama_cpp.rs`, `prefix_cache.rs`, `stream.rs` | KV cache, record of the prompt in it, event channel | Generate, ReconfigureContext | a stale record skips a prompt that is not there; decodes fail half-way; the receiver stops reading | every token is sampled in its own context; a command ends |

**How they interact.** A handler reads the AppState (flag, config, time stamp,
process), each under a lock of its own. If the name stands for another model it
calls `trigger_model_switch`, which spawns a task and answers 503. Otherwise it
translates the messages, POSTs to the internal port and, for a stream, spawns
reader, tracker and emitter, which are joined by `mpsc` channels and end by
dropping them. Supervision reaches the process through `Arc<LlamaProcess>` clones;
the last clone's drop kills the child. The stderr reader writes into the process's
state cell, the watchdog polls that cell every five seconds. Metrics and log are
shared by all requests.

## The modules

| module | models | extends or instantiates |
|---|---|---|
| `LlamaProcess` | start, respawn, kill, drop, stderr reader; children that load, listen, die | |
| `Supervisor` | AppState; the switch task, watchdog, recovery task, admin load and restart | extends LlamaProcess |
| `BackendSwap` | *abstract*: what the flag promises | implemented by Supervisor (`SwapSpec`) |
| `Registry` | resolve, matches_current, list_models, over any relation "is part of" | |
| `Gateway` | the request handlers up to the upstream response | extends Supervisor, instantiates Registry |
| `StreamParser` | push, process, flush against the meaning of the markup | |
| `SseReader` | `spawn_event_reader`'s decoding | |
| `StreamPipeline` | reader, tracker, emitter, client, whole responses, counters, log | |
| `AnthropicStream` | `streaming_response` and `emit_parsed`, frame by frame | |
| `MessageProtocol` | *abstract*: what an Anthropic client may rely on | implemented by AnthropicStream (`WellFormed`) |
| `Dialogue` | a conversation with tools: request to prompt, answer to frames, frames to history | |
| `MetricsWindow` | totals, window, percentiles | |
| `ConversationLog` | rotation, write, failed write, open, close, sweep | |
| `Accounting` | requests that are counted and logged, readers of the metrics, stop and start | extends MetricsWindow, ConversationLog |
| `Calendar` | days_to_ymd, and the Gregorian calendar it is held against | |
| `InferenceThread` | the command loop, `do_generate`, PrefixCache, TokenStream | |
| `MC...` | instances for TLC | |
| `...Proofs` | theorems | the modules they are named after; `GatewayProofs` also Supervisor, `AccountingProofs` also Calendar |

**LlamaProcess and Supervisor.** One step is the code between two awaits or locks
that another thread can tell apart. `job[j].pc` names the step a task or handler
takes next; `start` is `SpawnNew`, `SetStarting`, then the polling loop
`FoundAlive`, `PollOk` / `PollFails`, `Sleep`, `SetReady`, with `SpawnFails`,
`FoundCrashed` and `TimedOut` as its error paths. `restart` is `Kill`, `Stop`,
`SpawnAgain` and the same loop. `PollOk` asks only whether *somebody* listens,
because the URL does not say whose child answers. A child boots, and dies if the
port is taken; it may exit at any time. `DropAllBut` is `Drop`: every step that
gives up a reference ends with it. `Cancel` is the server dropping the handler of
an admin client that went away. `wd` is the watchdog between its four reads.
Process slots and child slots stand for an unbounded supply: a slot is reused
when nothing refers to it any more.

**Gateway and Registry.** `req[h].pc` is the next read of the handler; `ask[h]` is
the config built inside `trigger_model_switch` before its CAS; `lent[h]` the
handler's `Arc`. The two routes do the same here and share the module. `Registry`
keeps of two names only whether one is part of the other; an entry of `[[models]]`
can have a name that is no part of its file's.

**StreamParser.** A tag is two symbols, so that a token can end inside it;
`LOOKAHEAD` is 2 symbols for 32 bytes: both exceed the part of a tag that can be
pending. One action is one turn of the loop in `process`. `Whole` names the tags
that come in one token, as special vocabulary entries do.

**SseReader.** The data of an event is two bytes and a blank line follows; a chunk
is any number of bytes, and a two-byte character can be cut.

**StreamPipeline** knows a token by its number. `protocol` is the route a request
comes by. The handler of a whole response awaits the body and, once it has logged and
counted, the lock of the metrics window; it is dropped at either await when its
client has gone, and then does not lower the gauge. `Reporting` says whether llama-server may end a body with an error
event. **AnthropicStream** keeps the frames' types and block numbers and drops
their text.

**Dialogue.** A text is known by what it is and which one it is. A stream tells
thinking as plain text, since the parser takes its marks off and both emitters send it
unmarked, and tells nothing of a call that does not parse; a whole answer is the
markup itself. A system text may stand first, further down, or nowhere; a message holds
blocks and calls. The client is modelled by what the protocols ask of it: it puts
the frames together, appends the answer to its history, and sends the results of
the calls it was given. The gateway keeps nothing in between, so all that relates
one turn to the next goes through this client.

**MetricsWindow, ConversationLog, Accounting.** `todo[r]` is what a request has
before it: a stream is counted and then logged, a whole response the other way
round. A line is two pieces, so that it can be torn: a write or a flush that fails
puts any beginning into the file and leaves what the `BufWriter` would still hold.
`Stop` is an orderly end or a crash, `Start` a new process on the same directory.
`view` is an answer of an observability route that is being put together, one
value at a time.

In **InferenceThread** a token stands for itself and for its text; llama.cpp is a
KV cache that a decode extends, wholly or, when it fails, in part.

## The runs

Every passing run's properties each have a mutant: a definition of the model
changed the way a bug in that code would change it, with which TLC finds the
property violated. Mutants stand before the definition they replace.

| run | module | shows | states |
|---|---|---|---|
| `Switch` | MCSupervisor | switches and recoveries compete for the flag, next to a borrower, crashes, failures, time-outs: `TypeOK`, `FlagExclusive`, `ServingUndisturbed`, and the refinement `SwapSpec` | 1 515 000 |
| `Admin` | MCSupervisor | load, restart and recovery overlap and are cancelled: `NoOrphan`, `HandlesSound` | 908 000 |
| `Fair` | MCGateway | a request handler, switches and recovery, under fairness: `RequestsAnswered`, `FlagReleased`, `CrashHandled` | 116 000 |
| `Gate` | MCGateway | two handlers that overtake each other between comparison and CAS, switches, the idle guard, a reader that gives up: `GateTypeOK`, `SingleBackend`, `ConfigMatchesProcess`, `CutOnlyBySwitch`, `ReloadsAreSpent` | 1 813 000 |
| `Parse` | StreamParser | responses of five words, in every cut into tokens of at most two symbols with closing call tags whole: `ParsesAsWritten`, `DelayBounded` | 195 000 |
| `Sse` | SseReader | responses of four events in every cut: `ChunkingInvisible`, `SummaryAsReported` | 45 000 |
| `Pipe` | StreamPipeline | a stream and a whole response by either route, with clients that leave at every await: `ClientSeesPrefix`, `CompleteIsAccounted`, `CountedOnce`, `GaugeTracks`, and under fairness `StreamsDrain` | 117 000 |
| `Anthropic` | AnthropicStream | five parser events and a client that leaves: `TypeOK`, `DoneIsDelivered`, `WellFormed`, `TaskEnds` | 35 000 |
| `Dialogue` | Dialogue | two answers of up to three parts (text, thinking, calls, calls that do not parse), both protocols, every kind and place of system text, every tools field: `RemembersItsWords`, `CallsAnswered`, `ToolsAnnounced` | 1 570 000 |
| `Accounting` | MCAccounting | three requests, two midnights, failing writes, a restart, a reader: `TotalsCoverWindow`, `PercentilesRank`, `EntriesIntact`, `NeverInThePast`, `HistoryKept` | 1 756 000 |
| `Infer` | MCInferenceThread | any sequence of commands: `RecordResident`, `SamplesInContext`, `OneEnd`, `CommandsEnd` | 71 000 |
| `FindRestartPoll` | MCSupervisor | *violation*: `RestartPollsNewBackend` | |

**Bounds, and why they are enough.**
- *Processes and children*: a swap needs the current process, the one being
  started, and one that is killed and still dying; three of each let all overlap
  (`Admin`, where jobs run side by side). Elsewhere a job at a time replaces the
  process, and two of each have the new one next to the dying one. No bound on
  steps is needed: the slots are reused.
- *Task slots*: two, so that a second holder of the flag would show. One in `Fair`
  and `Gate`, whose questions are not about exclusion.
- `MaxAttempts` is 2: a first attempt, a back-off, and the last one.
- *Models*: two. *Names* in `Fair` and `Gate`: the two files, a part of one, an
  unknown one, and the two that stand for whatever is loaded.
- *Clients*: two handlers in `Gate`, one that asks for a switch and one that is
  being served by the process it replaces, or two that ask for one model and both
  compare before either raises the flag; one in `Fair`, where the question is
  whether it gets an answer.
- *Parser*: five words open and close both kinds of markup, one inside the other;
  tokens of two symbols end before, inside and after every tag.
- *Channels*: capacity 1, so that every send meets a full channel; the code has
  256 and 64. Three tokens are enough to be lost, doubled or swapped. The theorems
  have no such bounds.
- *Parser events*: five, for text, a tool call, text, a tool call and the flush.
- *Dialogue*: two answers, so that the second prompt repeats the first answer and
  the third both; three parts, so that text stands before, between or after calls,
  and a part that the parser drops or strips of its marks stands between two others.
- *Accounting*: a window of two under three requests, so that it overflows;
  three days and a retention of one; one restart. A run has the log on, or a
  reader and no log: a reader changes nothing, and what it reads the log does not
  touch.
- *Inference*: prompts of up to four tokens and batches of two, so that a prefill
  behind a reused prefix has a second chunk that can fail; an answer of one token,
  after which the thread samples again in the longer context; a context of four,
  so that an answer overflows it.

**Deadlock** is checked where the system runs for ever (Supervisor, Gateway,
InferenceThread). It is switched off where a few responses are followed to their
end. **Symmetry** is used in the runs without fairness of MCSupervisor and
MCGateway, over slots that no definition tells apart, and never under fairness.

**Fairness, and what justifies it.**
- *Tasks*: weak fairness for each job, handler, reader, tracker and emitter: the
  tokio runtime polls every task that is ready.
- *Deadline*: strong fairness for `TimedOut`. A poll loop passes its deadline
  because the clock runs while it sleeps; the step is enabled again and again.
- *Children*: a child that was killed exits, and a reader whose child is gone
  sees the end of file. No fairness makes a child boot, answer or crash.
- *Watchdog*: weak fairness, its interval timer fires. Nothing makes requests come
  or time pass for the idle guard.
- *Requests*: weak fairness for `Finish`: llama-server finishes a generation, or
  the connection breaks when it exits.
- *Clients*: a client reads on or leaves. One that does neither, for ever, does
  hold its tasks, in the code too.

## The proofs

tlapm checks these for every value of the constants: any number of processes,
children, tasks, admin requests, clients, models, requests, days and starts, any
length of prompts and responses, any capacity of the channels.

| theorem | says |
|---|---|
| `GatewayProofs!TypeCorrect` | `Spec => []TypeOK` |
| `GatewayProofs!FlagIsALock` | `Spec => []FlagExclusive`, whatever the admin routes and the watchdog do |
| `GatewayProofs!SwapsKeepThePromise` | without admin requests, `Spec => SwapSpec`: switches and recoveries implement BackendSwap |
| `GatewayProofs!ServedUndisturbed` | without admin requests, `Spec => ServingUndisturbed` |
| `GatewayProofs!NothingOrphaned` | `Spec => []NoOrphan` |
| `GatewayProofs!HandlesAreSound` | `Spec => []HandlesSound` |
| `GatewayProofs!OneBackend` | without admin requests and recoveries, `Spec => []SingleBackend` |
| `GatewayProofs!ConfigIsItsOwn` | without admin requests and recoveries, `Spec => []ConfigMatchesProcess` |
| `GatewayProofs!GateIsSupervised` | `GateSpec => Spec`: what is proved of Supervisor holds with the handlers on top |
| `GatewayProofs!NothingKept` | `GateSpec => []GateTypeOK` |
| `GatewayProofs!OnlySwitchesCut` | without admin requests and recoveries, `GateSpec => CutOnlyBySwitch` |
| `GatewayProofs!ReloadsSpendThemselves` | if `NamesFit`, with any number of clients, admin requests and recoveries, `GateSpec => ReloadsAreSpent` |
| `GatewayProofs!LoadedNameIsServed` | if `NamesFit`, what `Resolve` returns for a name answers to it in `MatchesCurrent` |
| `AnthropicStreamProofs!StreamTypeCorrect` | `Spec => []TypeOK` |
| `AnthropicStreamProofs!StreamIsWellFormed` | `Spec => WellFormed`: the emitter implements MessageProtocol |
| `AnthropicStreamProofs!DoneReachesClientAndLog` | `Spec => []DoneIsDelivered` |
| `InferenceThreadProofs!RecordIsTrue` | `Spec => []RecordResident` |
| `InferenceThreadProofs!SamplesAreSound` | `Spec => []SamplesInContext` |
| `InferenceThreadProofs!CommandsEndOnce` | `Spec => []OneEnd` |
| `PipelineProofs!StreamIsDelivered` | `Spec => []ClientSeesPrefix` |
| `PipelineProofs!GaugeIsKept` | `Spec => []GaugeTracks`, with handlers dropped at either await |
| `PipelineProofs!CompleteAreAccounted` | `Spec => []CompleteIsAccounted` |
| `PipelineProofs!RequestsCountOnce` | `Spec => []CountedOnce`, with the log and the count of a whole response as two steps |
| `AccountingProofs!NoEntryInThePast` | `Spec => []NeverInThePast` |
| `AccountingProofs!EntriesStayIntact` | `Spec => []EntriesIntact` |
| `AccountingProofs!HistoryIsKept` | `Spec => HistoryKept` |
| `AccountingProofs!TotalsCover` | `Spec => []TotalsCoverWindow` |
| `AccountingProofs!PercentilesAreRanks` | `Spec => []PercentilesRank` |
| `StreamParserProofs!ParsedAsWritten` | if no token holds both opening tags and no closing tag of a call is cut, `Spec => []ParsesAsWritten` |
| `StreamParserProofs!DelayIsBounded` | `Spec => []DelayBounded` |
| `SseReaderProofs!BufferIsTheRest` | if no character can be cut, the buffer is what was read behind the events drained |
| `SseReaderProofs!ChunksAreInvisible` | if no character can be cut, `Spec => []ChunkingInvisible` |
| `SseReaderProofs!SummaryIsAsReported` | if no character can be cut, `Spec => []SummaryAsReported` |
| `DialogueProofs!WordsAreRemembered` | `Spec => []RemembersItsWords`: a stream loses the marks of thinking and the calls that do not parse, nothing else |
| `DialogueProofs!CallsAreAnswered` | `Spec => []CallsAnswered` |
| `DialogueProofs!ToolsAreAnnounced` | `Spec => []ToolsAnnounced`, wherever the system text stands |
| `AccountingProofs!DatesAreRight` | for every day since 1970 `DaysToYmd` is a date, and the date of that day |
| `AccountingProofs!DaysKeptApart` | two days never have one date, so never one log file |

*Assumptions*: only those the modules name: `NoProc`, `NoChild`, `NoConfig` and
`NoCtx` are none of the values they stand beside, task and admin slots are
different, requests are finitely many, the settings have their types. The theorems
without admin requests or recoveries say so in their ASSUME. The admin routes bypass
the flag; a recovery may be of a process that was replaced meanwhile
(`RecoversCurrent`, below), and then starts a second llama-server. With them these
properties are false. The theorems about SseReader assume `"wide" \notin Kinds`: of
characters that can be cut they are false too (`CharactersKept`, below), and the run
has none either. `ParsedAsWritten` assumes `Legible`: tokens of at most two symbols,
or a model that does not write both `<think>` and `<tool_call>`; and a closing tag of
a tool call that comes in one token, if the model writes it at all. Without either
half it is false (`ParsesAsWritten` and `SplitTagsDetected`, below).

*The flag.* `FlagExclusive` alone is not inductive: a task at `release` must be a
task, not an admin request, and a job at `spawn` must hold a process if it is a
recovery. `JobsOK` says, for each program counter, which kinds of job can be there
and what they hold. With it and `TypeOK`, a job step either keeps the set of busy
tasks and the flag, or is `Release`, and only a won CAS makes a task busy. For
`SwapSpec`, `Stage` gives the abstract phase from the one busy task's program
counter: each of its steps keeps the stage, or is the step of BackendSwap that
leads to the next.

*Ownership.* `NoOrphan` must survive a drop, so what is out of use must own
nothing: `Owned` says that processes nobody refers to have no child and no config,
those in use have a config, no two share a child, no handle is told to exit,
every running child not told to exit is some process's handle, and a signalled
child still runs. Two steps overwrite something that might be owned. `Take`
overwrites a job's reference: `EmptyHanded` says there is none. `Respawn`
overwrites a handle: `Bare` says a recovery between kill and spawn has a process
without a child, which stays true because the flag allows only one recovery. So
`OwnInv` is `TypeOK`, `JobsOK`, `FlagExclusive`, `Owned` and `RefsOK` (`EmptyHanded`
and `Bare`). The handle lock, held from `kill` to the state write, is the `Holder`
guard.

*One backend.* With recoveries left out, a handle is the current process's or that
of the one a switch is starting (`Sole`), and a switch that gets so far has taken
the old handle (`Swapping`), so there are never two. `Fitting` says that the
published config is the current process's or that process is stopped, which is
what a switch finds or makes before it publishes another.

*The handlers.* Each step of a handler is a step of Supervisor, or changes only
`req`. Two things are needed for that: without the idle guard nothing ever sets
`idle`, and a name that resolves does so to a model, for which `HasLeast` shows
that the first match exists. While the flag is down every process but the current
one is without a child (`Sole`), so the drop at the end of a handler kills nothing.

*Reloads.* A handler compares its name with the published model and raises the flag
later, so it may be `Overtaken`: what it is about to load has been published since.
`AsksInv` says that a handler keeps the name it came with and asks, at `cas`, for
the model of that name. `FewerOvertaken`: a handler that compares goes on only if
its name does not match the published model, so without the publication of another
one nobody becomes overtaken. `ReloaderWasOvertaken`: the task that takes the flag
for the model that is published does so for a handler whose name the published model
answers to (`LoadedNameIsServed`), which is then done. So each publication of
another model costs at most one reload for each handler that was between the two
reads.

*The emitter.* `Shape` says what is true of block, flag and frames at each await;
under it every step maps to a step of MessageProtocol or leaves its view alone.
`Told` adds that the frames sent end with `message_delta` or `message_stop` only
once the response is logged.

*The inference thread.* A true record between commands needs a statement about
every moment of a command: `Prefilling` says that the KV cache begins with the
part of the prompt that was decoded or skipped, `Answering` that during the answer
it is the prompt and the tokens made, `Recorded` what the record says meanwhile,
`Ended` what the receiver has been told. That a skipped prefix is a prefix of both
prompts is `PastIsShared`, from a lemma that `Common` is the longest one.

*The pipeline.* For each stream, `OnTheWay`: while the emitter works and the client
reads, what the client has, followed by what is in the five places behind it, is
`Story`, all that the reader was told. Each task's step moves an event from one
place to the next, so the concatenation stays. When a task ends, only `Delivered` is
left: what the client has begins the story. `Places` says what each program counter
means for its neighbours. The gauge needs `Orderly`: a request not yet made has no
handler, and what is logged is behind the body. The counts need `CountInv`: those
that are `Accounted`, logged without standing between log and count or with their
Done behind the tracker, are no more than the requests counted, and successes and
errors together no more than those `Past` their count; and `InOrder`: a reader ends
with what ends the response, and a client is told of the end after the log. They
compare a counter with the cardinality of a set, so every step shows that it changes
both by the same.

*The log.* A file alone does not say where an entry may still turn up: the rest of
a failed write waits in the buffer, and goes to the file with the next flush, the
rotation or the end. `Flow(d)` is the file of the day, with the buffer behind it if
the day is the open one; `Flows` says that flows are whole lines with at most the
last of them torn, share no piece, and hold nothing from later days than their own.
A write makes one flow grow; a rotation, which may lose the end of the buffer, cuts
it short at the end. `Orders` says that steps are taken in the order of the code.

*The window.* A request is in the totals before it is in the window, and `/health`
and the statistics read the window before the totals, while requests go on. `Counted`
and `Summed` are the requests between a total and the window: `Covered` says that
the window and `Counted` together are no more than the requests counted, and the
tokens of the window and those of `Summed` together no more than the tokens counted.
A step of a request moves it from one of these to the next and a full window loses
its oldest sample, so neither sum outgrows its total. `ViewOK` says the same of the parts of an answer a
reader has put together so far. How `SumFunction` changes with one place of its
argument is derived first, from a smallest set that would contradict it.

*The percentiles.* That every window can be sorted is proved: a smallest set of places
without an ascending order would have a greatest value, to be put last. `Percentile`
then picks a place in an ascending order, whose values up to that place are at or
below its own and whose values from there on are not below it; `Shares` says of
`Index` that these are as many as `PercentilesRank` asks for.

*The reader.* `Behind(k)`: k events are drained, and the buffer is the bytes between
the end of event k and what was read. A chunk makes it longer by the next bytes, a
drain takes one event off, which ends at the first blank line since no byte of an
event's data is a line end. When the body is over and no whole event is left, k is
all of them. `Behind` also says what tokens, finish reason and usage are after k
events; the contents of k events are a recursive function, so what it computes for
every k comes from a least k for which it would not.

*The parser.* `ReadOf[c]` is what the first c symbols of the text say, where a tag
counts when its second half is read. At the end it is `Meaning`, shown word by word
(`MeaningRead`). `Inv`: there is a place c such that the lookahead is what has come
since, no tag is cut there, and `ReadOf[c]` is the parser's state, buffer and
events. Between pushes no tag that matters starts in the lookahead, which in a tool
call is empty. Inside the loop, with tokens of two symbols, such a tag ends in the
last two places, so the tag found is the first one although `<think>` is looked for
before `<tool_call>`. A turn moves c behind the tag (`CutAt`) or to where holding
back begins (`HoldAt`). Halves of a tag stand side by side (`WirePaired`), so nothing
let go is half a tag. Events are only added (`Monotone`), hence the prefix.

*The conversation.* A prompt is `Lead`, which depends on the client's settings
alone, and behind it one entry for each message (`PrepareIs`), so every request's
prompt is the last one with entries added. `Inv`: the model's answers are `past` and
the one it gives `now`; the messages behind the opening are a `tail` whose entries
`Recalls` the past: the assistant's are as many, each `Fits` its answer, and the
names of the results are those of the calls; and what the client has put together
`Tells` what has been said `now`. Of a whole answer that is all of it; what
`Relayed` leaves of a stream is built part by part (`RelayedNothing`,
`RelayedMore`). `Heard` shows that one more part of an answer keeps `Tells`, for
each way a protocol has of passing it on, and `AnswerLine` that an answer that is
told becomes, in the next request, an entry that fits. The sequences are of any
length, and what a filter or a concatenation gives is had from sets of places closed
under the next one (`Climbs`, `Grows`). `PromptShows` says what `Lead` adds to all
this: the tools, once, and no answer, call or result.

*Dates.* `days_to_ymd` finds the year of an era by one division. `YearOfDay` shows
that this is the year that contains the day, by cases on the quotients by 1460,
36524 and 146096; `MonthOfDay` does the same for months; the days before a year of
the calendar come from the leap years counted in the quotients.

*Type invariants*: those of InferenceThread, Accounting and StreamPipeline are
proved and not run.

*Only model-checked*: liveness under fairness (`RequestsAnswered`, `FlagReleased`,
`CrashHandled`, `StreamsDrain`, `TaskEnds`, `CommandsEnd`), since the provers do not
reason about `ENABLED`. The library's induction theorems take an
operator as a parameter, which no installed prover can instantiate; where a proof
needs induction it argues with a least counterexample instead. No module declares a
RECURSIVE operator.

## Divergences

Met while modelling: the code does not do what a comment, a document or the
source's own wording says. The first is a run. Each other property stands at
the end of its module; to see it refuted, add it to the named configuration
with the changes given. (i) is INVARIANT, (p) is PROPERTY.

| property | configuration | the code | what is said |
|---|---|---|---|
| Supervisor `RestartPollsNewBackend` | run `FindRestartPoll` | `admin.rs:57`: the new server is started while the old one holds the port, the old one answers its poll, the new one cannot bind, installing it kills the old one | `llama_process.rs:31` "the call blocks (async) until the backend `/health` endpoint returns 200" |
| Gateway `NoKillInFlight` (i) | `Gate` | `openai.rs:64`: the time stamp is that of the arrival, so a long generation looks idle | `mod.rs:58` "Timestamp of the most recent completed inference request."; `README.md:45` "prevents mid-session model switches" |
| Gateway `NoReloadOfLoaded` (p) | `Gate`; or `Fair` with "alias" in Names and Wanted; or `Fair` with Wanted = {"a", "part"} | `openai.rs:57`: the name is compared before the CAS, so of two requests for one model the second reloads it (how often is `ReloadsAreSpent`); `matches_current` compares with the file stem, `resolve` with the registry name, so an alias reloads on every request; and a recovery revives the process a failed switch has stopped while the failed config is published, so the name of the model that runs reloads it | `openai.rs:54` "If the client requested a specific model that differs from the loaded one" |
| Gateway `ModelIgnored` (p) | `Gate` | `anthropic.rs:64`: the model of an Anthropic request is compared and switched to | `types/anthropic.rs:122` "Ignored — model is always the one loaded in config" |
| Gateway `GateHolds` (p) | `Gate` with IdleGuard FALSE | `openai.rs:37`: the flag is read once, the request sent later | `README.md:291` "While switching, all requests return 503 until the new model passes `/health`" |
| Registry `ListedLoadsItself` | a condition on a configuration, not on a run: false when a file's stem is part of an entry's name or of an earlier file's stem | `registry.rs:85`: the first match is taken, the exact stem is not preferred | `registry.rs:90` "substring match on file stem" |
| Registry `ActiveIsListed` | as above: false for an entry with a name of its own | `models.rs`: active compares the entry's name with the file stem | `models.rs:7` 'The currently-loaded model is annotated with `"active": true`' |
| Supervisor `CrashedMeansExited` (i) | `Switch` | `llama_process.rs:114`: the reader of a killed child marks the respawned process Crashed | `llama_process.rs:113` "When stderr closes the process has exited." |
| Supervisor `DeadIsNotReady` (p) | `Fair` with Procs {p1} | `llama_process.rs:146`: Ready overwrites a Crashed written while the poll was answered | `config/backend.rs:30` "Automatically respawn the subprocess if it exits unexpectedly." |
| Supervisor `WatchdogGivesUp` (p) | as above | `mod.rs:264`: after three attempts the state is Crashed, so the next tick begins again | `mod.rs:222` "(up to 3 attempts, 15 s apart before giving up)" |
| Supervisor `NoOverrideLeak` (i) | `Switch` | `mod.rs:146`: the base of the new config is the published one, with the last model's overrides | `mod.rs:145` "falling back to base values" |
| Supervisor `NamesLoadedModel` (i) | `Switch` | `mod.rs:92`: the name comes from the config, which a failed switch leaves published | `mod.rs:90` "Short name of the currently-loaded model" |
| Supervisor `SwitchPollsNewBackend` (p) | `Switch` | `llama_process.rs:222`: `kill` does not wait, so the dying server may answer its successor's poll | `README.md:291`, as above |
| Supervisor `RecoversCurrent` (i) | `Switch` | `mod.rs:241`: a whole switch fits between the look and the CAS, then the replaced process is restarted, and dropped with its new child when its last borrower returns (`CutOnlyBySwitch` fails with RestartOnCrash TRUE) | `mod.rs:230` "Don't interfere with an in-progress model switch or a prior restart." |
| StreamParser `SplitTagsDetected` (i) | `Parse` with `Whole = {}` | `stream_parser.rs:196`: in ToolCall nothing is held back, so a closing tag two tokens share is not found | `stream_parser.rs:10` "Tokens can straddle tag boundaries" |
| StreamParser `IncompleteCallParsed` (i) | `Parse` | `stream_parser.rs:83`: flush returns on an empty lookahead, which ToolCall always leaves | `stream_parser.rs:90` "best-effort: try to parse what we have" |
| StreamParser `ParsesAsWritten` (i) | `Parse` with MaxToken = 3, MaxWords = 4 | `stream_parser.rs:111`: `<think>` is looked for first, so a `<tool_call>` before it in the same lookahead is emitted as text | `stream_parser.rs:10`, as above |
| AnthropicStream `ThinkingApart` (i) | `Anthropic` | `anthropic.rs:486`: thinking is sent as text deltas of the text block | `anthropic.rs:8` "content_block_start  (thinking, index=0)" |
| Dialogue `CallsKeptApart` (i) | `Dialogue` | `openai.rs:268`: every call of an answer has index 0, so a client joins two calls into one | `README.md:37` "Qwen3 tool-call XML injection + parsing": Done |
| Dialogue `ToolsNotForwarded` (i) | `Dialogue` | `anthropic.rs:237`: the tools are put into the system message | `types/anthropic.rs:138` tool definitions are "not yet forwarded to the model" |
| Dialogue `ReasonsAgree` (i) | `Dialogue` | `proxy.rs:253`: the metrics get what llama-server ended with; a call is found later, by the emitter | `README.md:331` "finish_reason": stop, length or tool_calls |
| SseReader `CharactersKept` (i) | `Sse` with Kinds {"token", "wide", "done"} | `proxy.rs:133`: each chunk is decoded on its own, a cut character is replaced twice | `proxy.rs:89` "converting each delta into a [`GenerateEvent`]" |
| SseReader `TokensCounted` (i) | `Sse` | `proxy.rs:166`: without usage the count stops at 1 | `model/backend.rs:72` "Total number of tokens produced." |
| StreamPipeline `GaugeCountsInFlight` (i) | `Pipe` | `openai.rs:403`, `anthropic.rs:140`: `?`, or a dropped handler, skips the decrement | `metrics.rs:43` "Number of requests currently in flight" |
| StreamPipeline `DoneMeansComplete` (i) | `Pipe` | `proxy.rs:182`: an error event is skipped and Done follows | `model/backend.rs:63` "Generation finished successfully" |
| StreamPipeline `ErrorsCounted` (i) | `Pipe` | `proxy.rs:107`: refused and broken responses are not counted | `routes/metrics.rs:132` "Total inference errors" |
| Accounting `ConversationsSwept` (p) | `Accounting` | `main.rs:522`: the sweep looks only at `turboquant*.log` | `README.md:371` "Conversation files share the same log_retention_days cleanup sweep" |
| Accounting `LinesWhole` (i) | `Accounting` | `conversation_log.rs:124`: after a write that failed half-way the next entry follows the torn one on its line | `conversation_log.rs:1`: one JSON line per exchange |
| Accounting `MetricsCoverWindow` (i) | `Accounting` | `routes/metrics.rs:99`: `/metrics` reads the totals before the window, so the finish reasons can exceed the requests | the two figures stand in one answer |
| InferenceThread `StopStringsHalt` (i) | `Infer` with `StopStrings <- StopAtAB`, MaxPrompt 1, MaxAnswer 3 | `llama_cpp.rs:422`: stop strings are looked for in one token | `model/backend.rs:54` "Generation halts when any of these strings appears in the output." |
| InferenceThread `LengthIsTold` (i) | `Infer` | `llama_cpp.rs:477`: the reason is always stop | `model/backend.rs:78` 'e.g., "stop", "length"' |

Two more are in the wording only: `routes/metrics.rs:128` calls `total_requests`
the requests received, and it counts those completed; `README.md:337` speaks of
streaming responses in the conversation log, where whole ones are logged too.

## Not modelled

- *Configuration, command line*: read once, before anything is concurrent. What of
  it matters afterwards is a constant of the models.
- *Response framing* (`sse.rs`, `error.rs`), *GPU statistics*: formatting and the
  output of another program, without state.
- *Observability routes*: what they read of the request metrics, and in which
  order, is in Accounting; the backend's state and the GPU figures they show are
  one read each.
- *REPL, one-shot, bench*: sequential clients of the inference thread.
- *KV cache configuration*, `turbo_quant.rs`: constants and stubs.
- *`proxy_request`*: not called.
- Inside the models: wall-clock times (a time-out may strike whenever its await is
  pending), a clock that goes back, text and JSON, the arguments of a tool call,
  the wording of the tool prompt, the walk through the models directory, memory and
  GPU use.

## Plan

What the runs check and no theorem states is liveness. Left to add:

1. StreamParser with longer tokens in a second run, once a tag is found in the
   order it stands.
2. With recoveries: which of `SingleBackend`, `ConfigMatchesProcess` and
   `CutOnlyBySwitch` are left if a recovery concerns the current process.
