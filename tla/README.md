# TLA+ models of the agent server

The agent server is a Go program that holds voice conversations over websockets:
a device sends audio or text, the server decides when a turn has been said, runs
an agent on it, and plays the answer back while it listens for the user to talk
over it. This directory holds TLA+ models of its concurrent core, the TLC
configurations that check them, and TLAPS proofs. Paths below are relative to
`src/`; `PROJECT.json` gives the source lines of every definition.

## 1. Inventory

| Part | State it keeps | Operations | Hard behaviours |
|---|---|---|---|
| Session core, `internal/session/realtime_session.go` | session id, input and output lane, cached compatibility state, audio chunks, byte/frame/turn counters, close reason, under one mutex | `Start`, `IngestAudioFrame`, `AcceptText`, `CommitTurn`, `SetState`, `SetInputState`, `SetOutputState`, `End`, `ClearTurn`, `Reset`, `Snapshot` | long call sequences; state derived in two ways; counters cleared at different points of a turn |
| Turn response future, `internal/voice/orchestrated_response.go` | resolved response or error, recorded audio start, `audioClaimed`, `responseDelivered` | `PublishAudioStart`, `Resolve`, `Wait`, `WaitAudioStart` | two ways out for one audio stream, raced by goroutines and by cancellation |
| Turn execution, `internal/gateway/turn_flow.go` | the select loop's locals, `deltaCh`, the playback's outcome future | `executeOrchestratedTurnResponse` and its waiter goroutines; the streaming and the plain paths | order of deltas, audio start and response; who closes the channel; cancellation |
| Speech planner, `internal/voice/speech_planner.go` | text buffer, bounded clause queue, worker, start announcement, result channel | `ObserveDelta`, `Finalize`, `Close`, `WaitAudioStart`, the queued stream's `Next`/`Close` | back-pressure through three buffers; truncated playback that looks complete |
| ASR responder, `internal/voice/asr_responder.go` | preview sessions, prewarm, the two advisers' requests | `RespondOrchestrated`; `PushAudio`, `Poll` and `Close` of a preview | advice about a wording that has moved on; a suggestion reported once |
| Native realtime gateway, `internal/gateway/realtime_ws.go`, `realtime_runtime.go`, `output_flow.go`, `barge_in_runtime.go` | current output, staged barge-in audio, preview, playback-ack state | one handler per client message, the endpoint tick, one output goroutine per playback | read loop and output goroutines share session, output and staging; snapshots used after they are stale; session end from either side |
| Voice collaboration, `internal/gateway/voice_collaboration.go` | playback segments, marks, terminal ack | meta, mark, completed, cleared; ack timeout | late, duplicate and reordered acks |
| Session orchestrator, `internal/voice/session_orchestrator.go` | heard text, playback facts, the current preview | prepare, start, progress, interrupt, complete; ensure, push, poll, clear the preview | what the user really heard; what memory keeps of it |
| Turn detector, `internal/voice/turn_detector.go` | audio and silence of one utterance, partial text, stable prefix, latched decisions | observe audio, observe a delta, snapshot | boundaries of times and ratios; a decision outliving the words it was made for |
| Semantic judge, slot parser, `internal/voice/semantic_judge.go`, `semantic_slot_parser.go` | last answer, its key, the request in flight | launch, store, clear, merge | late, failed and overtaken answers |
| Barge-in policy, `internal/voice/barge_in.go` | none; the profile's settings | `EvaluateBargeIn` | rules that overlap, scores at their limits |
| Agent runtime, `internal/agent/` | memory store, prewarm candidates, the executor's locals | `StreamTurn`, `PrewarmTurn`, `SaveTurn`, `LoadTurnContext`, the tool loop | three writers of a turn's record, one of them on another goroutine; a prewarm older than the turn; the step budget |
| Xiaozhi adapter, `internal/gateway/xiaozhi_ws.go`, `xiaozhi_protocol.go` | as the native gateway, and `audioTurnOpen`, the framing version | hello, listen start/stop/detect, abort, binary frames, tick, read timeout, one output goroutine per response | interruption by any audio; errors that leave the session where it is; no early audio |
| Channel bridge, control plane, codecs, providers, app wiring, clients, Python worker | mostly none | request/response | external services |

The read loop of a connection calls the session core and blocks in the turn
execution until the response has settled. Turn execution starts the responder
goroutine, which writes deltas to `deltaCh`, clauses to the planner and the
result to the future; two waiter goroutines move the future's results into the
select loop. When audio starts, early or with the response, the gateway sets the
session to speaking and starts an output goroutine, which reads the planner's
stream, waits for the client's playback ack and for the turn's outcome, and then
returns the session to active or ends it, while the read loop is already
handling the client's next message.

What makes these parts correct:

* session core: counters mean what their readers take them for, a snapshot agrees
  with the session, nothing leaks from one session into the next, audio is
  handed over in order and once;
* future: a stream has one owner and is not lost;
* turn execution and planner: text and audio reach the client whole, in order and
  once, every goroutine ends, a playback that reports completion was complete;
* gateway: a session that says speaking is being brought out of it, interruptions
  reach the playback that is on, a finished playback does not act on a later turn;
* preview: a turn is ended in silence and only then, advice counts for the words it is
  about, noise does not interrupt;
* xiaozhi adapter: the device can tell where speech begins and ends, damaged frames do
  not reach the session, every message is answered;
* agent: a turn has one record with all that was said, a prewarm hides nothing, each tool
  call is answered by the tool meant, the loop ends;
* playback record: what the next turn is told of the last answer is consistent, rests
  on that playback's own acks, agrees with the memory, and exists for every playback.

## 2. Modules

| Module | Models | Uses |
|---|---|---|
| `RealtimeSession` | the session core, every method an action | |
| `TurnBuffer` | what the core promises about audio (abstract) | implemented by `RealtimeSession` |
| `RealtimeSessionProofs` | theorems | extends `RealtimeSession` |
| `TurnResponseFuture` | the future and any sets of callers | |
| `AudioOwnership` | what the future promises about the stream (abstract) | implemented by `TurnResponseFuture` |
| `TurnResponseFutureProofs` | theorems | extends `TurnResponseFuture` |
| `TurnPipeline` | one turn: responder, planner, worker, publisher, waiters, select loop, playback | instance of `TurnResponseFuture` |
| `TurnPipelineProofs` | theorems | extends `TurnPipeline`, instance of `TurnResponseFutureProofs` |
| `RealtimeGateway` | one connection: read loop and output goroutines | instance of `RealtimeSession` |
| `RealtimeGatewayProofs` | theorems | extends `RealtimeGateway`, instance of `RealtimeSessionProofs` |
| `PlaybackRecord` | the orchestrator's record of a spoken answer, every method an action | |
| `PlaybackAck` | read loop, output goroutine and playback-ack state, calling the record | extends `PlaybackRecord` |
| `PlaybackProofs` | theorems about both | extends `PlaybackAck` |
| `TurnDetector` | one utterance: audio, text, silence, the arbitration of its end (operators) | |
| `SemanticAdvice` | judge and slot parser: requests, answers, merging (operators) | extends `TurnDetector` |
| `BargeIn` | the interruption policy (operators) | extends `SemanticAdvice` |
| `InputPreview` | frames, polls, advisers and the end of a playback around one preview | extends `BargeIn` |
| `InputPreviewProofs` | theorems | extends `InputPreview` |
| `XiaozhiGateway` | one xiaozhi connection: read loop and output goroutines | instance of `RealtimeSession` |
| `XiaozhiGatewayProofs` | theorems | extends `XiaozhiGateway`, instance of `RealtimeSessionProofs` |
| `AgentTurn` | executor, tool loop, memory store, prewarm, and the others who write memory | |
| `AgentTurnProofs` | theorems | extends `AgentTurn` |
| `MC...` | constants and bounds for TLC | |

### RealtimeSession

Each method body runs under the session's mutex, so each is one action, written
as a function of the session record (`StartOp`, `IngestOp`, ...) so that
`RealtimeGateway` calls the same definitions. A call on a session that is not
active returns `ErrNoActiveSession` and changes nothing. `session.state` is the
cached compatibility state; `SnapshotOf` derives it again as `cloneSnapshot`
does. A frame has one byte or none (`NoBytes`: it is counted and not stored).
`handed` is a history variable, the audio handed over by commits since the
buffer was last emptied. Codec, device and time fields are left out: no method
reads them.

### TurnResponseFuture

Each method has one critical section after a select on the context and a ready
channel: the select is the guard of the action, the section its effect. When
both channels are ready the model may take either branch, as Go does. `Settle`
is the responder's only `Resolve` call; a turn whose planner has announced a
stream answers with that stream.

### TurnPipeline

One turn from the accepted request to the end of the playback. `exec` is the
responder goroutine (it emits a delta, cuts clauses, enqueues them, flushes,
closes the queue, resolves), `worker` and `publisher` belong to the planner, the
callers `"wait"` and `"audio"` of the future are the two waiter goroutines, `gw`
is the select loop and `playback` the output goroutine. Channels are sequences
with their capacities, closing is a flag. A send on the closed `deltaCh` sets
`panicked`. Delta `i` is the number `i`, so order and completeness of text and
audio are compared as sequences; `InOrder` puts a set of deltas in the order of their
emission, and the response's text is `InOrder(spoken)`. Which deltas carry text, and where
a clause ends, are choices: the clause rules of `nextPlannedSpeechClause` only decide how
much text is taken at a time. `EarlyAudio = FALSE` is the xiaozhi adapter, which
passes no `StartResponseAudio`, and `NumDeltas` is the number of deltas of the answer.

### RealtimeGateway

`main` is the read loop: a program counter inside the handler it runs and the
locals the handler carries over. Output goroutines are records in `outputs`.
The two meet at the session's mutex and the runtime's, so an action makes at
most one call of the session core, and what a handler read earlier (the
snapshot that decides where a frame goes, the flag that the state was speaking,
the frames taken from the staging area) is in its record and may be stale when
it is used. The endpoint decision, the barge-in decision, the moment a stream
ends or fails and the kind of a turn's outcome are choices. `AudioOutCleared`
and `OutputAck` follow the playback acks only as far as the identity of the
playback and the fact that the goroutine waits.

Two constants name assumptions about the surroundings:

* `PromptExit`: a cancelled output goroutine ends within the 100 ms that
  `interruptOutputWithPolicy` waits for it. The code goes on after the timeout
  all the same. Without the assumption (a write that blocks for longer) TLC finds
  `ReturnIsTimely` violated: a late goroutine acts on the session beside the read loop.
  No line of the repository says it may not, so this is recorded as a hazard and not as
  a finding.
* `TurnsCrossEnd`: the client's text may be on the wire while the server sends
  `session.end`. `gateway` runs without it, `MCRealtimeGatewayEnd.cfg` with it.

### PlaybackRecord

The playback half of `SessionOrchestrator`: `turn` is `o.turn`, `outcome` is
`lastPlaybackOutcome` and `memory` the record last saved in the memory store (a turn's
record is replaced by its next save). Every method holds the mutex, so each is one
action, and the helpers (`UpdateHeard`, `CaptureSoft`, `ApplySoft`, ...) are functions
of the turn record with the names and the order of the code. The answer of a turn exists
in two spellings: the response, with white space between its clauses (the aggregated
deltas), and what is announced, the trimmed clauses joined without it
(`nextSegmentAudioPlaybackMeta`). A text is a prefix of one of the two, given by its
`form` and its length in runes. The spellings agree on their first `Common` runes and
differ after them, which is what `IsPrefixOf` decides by; `Blanks` says where each has
white space, so a prefix that ends there is trimmed (`Trimmed`) and a missed tail that
begins there is shorter (`MissedRunes`). As in the code, nothing is missed of a text
that does not begin with what was heard, and an exact mark that is no prefix falls back
to the estimate. White space is single, and stands neither first nor last. Durations are
milliseconds, the ratios are exact where the code uses floats, and confidence and
precision, which are functions of the source, are left out. `RecordSpec` allows any
order of calls and any arguments, which is what the proofs are about; `PlaybackAck`
makes the calls the gateway makes.

### PlaybackAck

`loop` is the read loop inside `emitTurnResponse`, an interruption or an ack handler,
`out` the output goroutines, `ack` the playback-ack state. An answer has `Segments`
segments with cumulated text and duration, as `nextSegmentAudioPlaybackMeta` adds them
up; `TextAfter` gives the length of the text in each spelling. Deltas and the settled
response deliver the response's spelling, a segment its own; a stream that is not
segmented is announced whole, in the response's. The client may send any ack, of
any playback, at any time. `syncAnnouncedPlaybackContext` is two actions, because it
reads the newest segment under one mutex and reports it under another; so are the
finishing of the ack state and the report of the fact to the record, and the two parts
of `waitForPlaybackAckTerminal`. The session core is reduced to a flag that it says
speaking, and `PromptExit` (see `RealtimeGateway`) is assumed throughout: `AwaitOutput`
waits for the cancelled goroutine. `acked` is a history variable.

### TurnDetector, SemanticAdvice, BargeIn

Operators with the code's names, on records with the code's fields. A text is a sequence
of words out of a small vocabulary, and a word stands for the entries of the code's word
lists that are in the same lists, so `looksLexicallyComplete`, `looksLikeCorrection` and
the others are computed and not assumed. Times are milliseconds, an instant is its age
(capped where the code tells no larger ones apart), ratios and scores are percentages. The rules
of `recomputeTurnArbitration` and `EvaluateBargeIn` stand in the order of the code. A
judge's or parser's reply is whatever the model returned; the decoders normalise it as
the code does. Prompts, rollout percentages and the entity catalog's grounding are inputs.

### InputPreview

`main` is the read loop in `handleBinary` or `handleServerEndpointTick`, `out` the output
goroutine in `resolvePostPlaybackActiveSnapshot`, `questions` the adviser goroutines.
A frame goes by the session state read at its start; each of its chunks is one call of
the recogniser, which may be slow, fail, or return a text. `Observe` is what a push and a
poll have in common: snapshot, launch, merge, and the suggestion to commit, which
`recordInputPreviewSnapshot` reports the first time only. A question of a closed preview
is dropped, since its goroutine writes to state that nobody reads. Looking for staged
audio and dropping it are two steps of the output goroutine, as in the code.

### XiaozhiGateway

Laid out like `RealtimeGateway`: a program counter for the read loop, a record per output
goroutine, one call of the session core per action. Every message of the protocol that
changes something is an action (`handleHello`, `ListenStart`, `ListenStop`,
`ListenDetect`, `handleAbort`, `handleBinary`), as are the endpoint tick and the read
timeout. A binary frame is its header fields and lengths, wrapped and unwrapped by the
three framings. `tts` is what the device believes is being said; `stray` and `stalled`
are history variables. `SessionSpec` says that the adapter uses the session core as
the core's own specification allows, so the theorems about `RealtimeSession` hold in it.

### AgentTurn

A session's turn is at one of the executor's stages (`consume` a prewarm, `load` context,
`route` to a command, a follow-up or the model, `model`, `tools`, `save`) and then at the
gateway's (`prepare`, `deliver`). `orch` is the orchestrator's turn, whose saves
(`PrepareTurn` before and after, `UpdatePlayback`, the end of a playback) go to the same
`store` as the executor's. Playback and prewarm are goroutines of their own. A produced
text is the number of its pieces, a heard one nothing, a part or all; the model's tool
names are made as `makeModelToolName` and its suffixing make them, so clashes occur. A
spoken turn's metadata is never empty, which is why `Matches` fails for it.

## 3. Runs

| Run | Configuration | Shows |
|---|---|---|
| `future` | 2 callers of `Wait`, 2 of `WaitAudioStart` | `SingleOwner`, `AudioDelivered`; implements `AudioOwnership` |
| `session` | 2 ids, 2 payloads and the empty one, 3 frames, 2 turns | `BytesCountAudio`, `NothingSurvivesReset`, `SnapshotAgrees`; implements `TurnBuffer` |
| `pipeline` | 3 deltas, buffers of 1, faults and interruptions anywhere | audio once, in order and complete when it says so, no text lost, `TurnSettles`; the future is used as its specification allows |
| `gateway` | 1 id, 1 frame per turn, 1 staged frame, 2 turns per session, 2 output goroutines | `SpeakingIsBacked`, `InterruptReaches`, `ReturnIsTimely`, `OneVoice`, `SpeakingEnds` |
| `playback` | 2 turns, the first spoken in 2 segments (4 and 6 runes, a space between), acks on or off, both soft policies, faults | `OutcomeTruth`, `MemoryFollowsOutcome`, `CompletedIsAcked`, `SettlesOwnTurn`, `EndedIsRecorded`, `DuckedTailIsMissed` |
| `preview` | 2 frames of up to 2 chunks, 5 replies of the recogniser, slow and failing calls, 2 questions in flight | `TurnEndsInSilence`, `SilenceIsNoticed`, `AdviceIsCurrent`, `EvaluatingIsBacked`, `SoundAloneNeverInterrupts`, `InterruptIsMonotone` |
| `xiaozhi` | 2 frames and 2 turns per session, 3 framings, 2 output goroutines, network failure | `AudioIsBracketed`, `SpeechIsStopped`, `NothingHeardWhileSpeaking`, `SessionSpec`, `ReadLoopReturns` |
| `agent` | 3 turns, a memory of 2, 2 tools with clashing names, 2 steps of 2 calls, one prewarm at a time | `OneRecordPerTurn`, `PrewarmHidesNothing`, `ToolsAnswered`, `SaidIsSaved`, `TurnReturns` |
| `send_on_closed` | 2 deltas, buffers as in the code, faults | finding 1 |
| `min_audio_bypassed` | as `preview` | finding 2 |
| `listen_stop_ignored` | as `xiaozhi` | finding 3 |
| `ducked_tail_heard` | as `playback`, without faults | finding 4 |

Each module of a component also has a type invariant, `TypeOK` (`RecordTypeOK` in the
playback record). All of them are proved (section 5).

**Bounds.** Two callers of each kind are the fewest that can disagree; the proofs remove
the bound. The session's methods look at counters only to add to them and at the buffer
only as a whole, so three frames and two turns reach every combination of stored,
committed and empty frames; the proofs remove these bounds too. In the pipeline a buffer
of one fills up as one of eight does, only sooner; three deltas give a first, a middle
and a last one, and together with the worker and the result buffer as many clauses as
the buffers hold. In the gateway two output goroutines are one that is finishing and one
that has begun; `MaxTurns` counts turns of one session, and a connection may run any
number of sessions one after the other. One session id means that a client reuses its
id, which is the worst case for code that compares ids. A run of the gateway's
invariants with two ids (7.8 million states, too long to repeat routinely) found no
error either. In `playback` two segments are one to clear after and one that is still to
come, and the lengths are chosen so that an estimate falls short of, at and beyond a
segment, in white space and on either side of it; the second turn brings acks of the
playback before. A run with two spoken turns of one segment each (9.1 million states,
without soft policies) found no error. In `preview` two frames of two chunks are enough
audio to pass the minimum of 80 ms and to fall short of it, before and after the
playback ends; the replies give a command, hinted or not, its correction, an
acknowledgement and no text, so that the wording an adviser was asked about can be gone
and come back; the thresholds are those of the code in proportion to a chunk of 40 ms.
In `xiaozhi` two turns of a session are one that plays and one that interrupts it. In
`agent` three turns with a memory of two make the store drop a record, and a step budget
of two is used up.

**Fairness.** Weak fairness for every goroutine's steps: the Go scheduler runs
what can run, and a blocked channel operation is a disabled action. This
includes that the executor, the synthesizer and a write answer or fail, which
their contexts and deadlines see to, and that audio streams end. A client's
message, an interruption and a disconnection are never fair, with two
exceptions: once a write has failed, the read pump notices the broken connection
(`broken /\ Disconnect`), and after the select loop has failed, its caller does
interrupt the output. `xiaozhi` assumes the same of its read loop and its goroutines,
and `agent` of the turn (the model and a tool answer, or their context ends); a message,
a broken network, a playback's progress and a prewarm are not fair. No strong fairness
is used. `PlaybackAck` and `InputPreview` state no fairness: their properties are of
safety. That a playback comes to an end is checked in `gateway`, and what an endless
silence leads to is an action property of the poll that notices it (`SilenceIsNoticed`),
which needs no assumption about the poll timer.

**Deadlock** is checked in `session`, `future` and `preview`. The other models may stop: a
turn is over, a connection is closed, the turns of the bound are used up.

## 4. Findings

1. `send_on_closed`: after a cancellation the waiter closes `deltaCh` while the
   executor may still send; its select can choose the closed send and panic
   (`turn_flow.go:145`). Sessions are expected to end without a server panic
   (`realtime_ws_test.go:346`).
2. `min_audio_bypassed`: the detector gives every preview with text an endpoint reason,
   which makes it an accept candidate, and the rule for accept candidates
   (`barge_in.go:110`) does not look at the staged audio. The configured minimum, which
   `runtime-configuration.md:159` describes as the audio needed before a complete
   interruption is accepted, has no effect on it.
3. `listen_stop_ignored`: a turn that fails leaves the xiaozhi session in thinking
   (`xiaozhi_ws.go:667`). Audio is still buffered, and `listen.stop`, which the protocol
   says commits it, does nothing until the device aborts or sends a text.
4. `ducked_tail_heard`: audio starts early, the response settles (the delivered text now
   has a space between its clauses), the user talks over the second clause and the output
   is ducked. The snapshot quotes the text up to there. The next segment is announced
   without the space, so the delivered text no longer begins with the quotation,
   `missedTextForTexts` finds nothing missed (`session_orchestrator.go:1103`), and the
   playback completes as heard to its end. ADR 0040:43 says that completion is no longer
   treated as proof of that. While the text still begins with the quotation it is not:
   `DuckedTailIsMissed`.

**Further configurations.** These state a sentence of a document or a test as well, and
TLC finds each of them violated. They are kept with the modules for whoever works on
that code; the hazards they belong to are in `PROJECT.json`.

| Configuration | Property | What TLC shows |
|---|---|---|
| `MCTurnPipelineXiaozhi.cfg` | `TurnSettles` | without early audio nobody reads the planner's stream until the response has settled, and a response of more clauses than queue, worker and result buffer hold (six in the code) never settles (`speech_planner.go:240`); `xiaozhi-compat-ws-v0.md:540` promises audio and `tts.stop` |
| `MCTurnPipelineText.cfg` | `TextDeliveredOnce` | the response may overtake the deltas still in `deltaCh`; its whole text is then sent, and the deltas after it (`turn_flow.go:256`; `turn_flow_test.go:344` expects it once) |
| `MCRealtimeGatewayAck.cfg` | `AckBelongs` | the deferred clearing of a finished playback removes the identity the next one has installed, whose acks are then refused (`realtime_ws.go:1326`; `realtime-session-v0.md:112`) |
| `MCRealtimeGatewayEnd.cfg` | `NoTurnAfterEnd` | between `session.end` and `Reset` on the output goroutine a text turn is accepted (`realtime_ws.go:741`; `rtos-device-ws-v0.md:153`) |
| `MCPlaybackAckCleared.cfg` | `ClearedAnchorsHeard` | the waiting goroutine is woken before the cleared segment is reported, and records an estimate instead (`realtime_ws.go:956`; `realtime-session-v0.md:179`) |
| `MCInputPreviewSwallowed.cfg` | `SuggestionIsTaken` | a push that outlasts the silence consumes the one report of the suggestion to commit; the poll that could act on it does not get it again (`session_orchestrator.go:329`). The protocol only says the server may end the turn |
| `MCAgentTurnHeard.cfg` | `HeardStays` | an early playback that ends before the response settles has its heard text erased by the second `PrepareTurn` (`realtime_ws.go:1125`; ADR 0024:27) |
| `MCAgentTurnDevice.cfg` | `DeviceIsRemembered` | the first `PrepareTurn` creates a record in the session's scope before the executor loads its context, which therefore never falls back to the device's (`agent-runtime-core.md:46`) |
| `MCAgentTurnCommands.cfg` | `CommandsLeaveNoTrace` | the executor takes care not to save `/memory` and `/tool` turns, but `PrepareTurn` saves every turn, so debug commands end up in turn memory (`session_orchestrator.go:618`; `agent-runtime-core.md:68`) |
| `MCAgentTurnFamily.cfg` | `ToolsAnswered` | of three tools with the same base name two get the same model name, and one cannot be called (`llm_executor.go:592`; ADR 0011:30) |
| `MCAgentTurnNumbered.cfg` | `ToolsAnswered` | `lamp.on.2`, `lamp.on` and `lamp/on`: the suffix makes the third the name the first has already, and the first cannot be called (`llm_executor.go:606`; ADR 0011:30) |

Seen while modelling, and not stated by any configuration: a spoken turn never uses a
prewarm, because the transcription's metadata changes the signature it is compared by
(`llm_executor.go:741`); tool calls whose model gives no ids are told apart by nothing
in the answers; a hello during a playback changes the framing of its remaining packets;
a text turn leaves `audioTurnOpen` set and takes the audio buffered before it along;
the stable prefix may be a text the recogniser has since revised (`turn_detector.go:302`).

## 5. Proofs

TLAPS proves the following for every value of the constants.

**RealtimeSession**, from `IDAssumption` (the null id is no id) and
`PayloadAssumption` (the empty payload is no frame): `SessionTypeOK`,
`SessionBytes`, `SessionForgets`, `SessionSnapshots`, `SessionIdentity` (an action
property) and `SessionRefinesBuffer`. The inductive invariant `IInv` joins the
type invariant, `BytesCountAudio` and `NothingSurvivesReset` with two facts the
others rest on: the cached state is the one `deriveCompatState` gives for the
lanes (`StateDerived`), and a session is active exactly when it has an id.
`SnapshotAgrees` alone is not inductive, since the mutators derive the state from the
active flag and `cloneSnapshot` from the id; `BytesCountAudio` needs
`NothingSurvivesReset`, because a `Start` after a `Reset` keeps what the idle session
holds. There is one lemma per method, and `NextInv` combines them. The
refinement maps `accepted` to `handed \o chunks` and `delivered` to `Len(handed)`;
each method is one step of `TurnBuffer` or a stutter.

**TurnResponseFuture**, from `CallersAssumption` (a call is of one kind):
`FutureTypeOK`, `FutureSingleOwner`, `FutureDelivers`, `FutureSaysTransferred` and
`FutureRefinesOwnership`. `SingleOwner` is not inductive: that a second call gets no
stream rests on `audioClaimed` and `responseDelivered` telling the truth. `Settled`
relates the future's fields (in particular, the two flags are never both set),
`Flags` says that an owner has set its flag, `Holders` that a set flag has an
owner, which is what `AudioDelivered` follows from.

**TurnPipeline**, from `BoundsAssumption` (capacities are at least one): `PipelineTypeOK`,
`PipelineUsesFuture` (`FutureSpec`), `PipelinePlaysOnce`, `PipelinePlaysInOrder`,
`PipelinePlaysAll` and `PipelineDeliversText`, for any number of deltas, any choice of
clauses and of deltas with text, any capacity, with early audio or without, with faults or
without. The argument has three strands.

* The use of the future. Every step of the turn is a step of `TurnResponseFuture` or leaves
  it alone, provided the responder is where it resolves and a published stream is the
  planner's (`Responding`, `Producing`); so the future's own invariant, with its theorems,
  holds of the turn, and is part of `IInv`. It gives `Handover`: once the waiter has the
  response, the stream has an owner exactly if the response has audio, and a waiter whose
  response was stripped of it is told so. `Conveying` follows what the select loop was told
  to the playback it starts, and `Streaming` concludes that the turn's context is not
  cancelled, nor the planner's stream closed, under a playback, unless the loop or the
  responder has failed.
* The line of text. What was played, the results, the worker's clause, the queue, the
  clause being queued and the pending text are in order, each part before those behind it
  and apart from what was skipped (`Staged`); as long as the stream is open every text delta
  observed is in one of them (`Conserved`). `PlayedInOrder` is the first part of the line.
  The end of the stream comes when the worker has left; by `Streaming` and `Working` it left
  because the queue was closed and drained, so the line is empty but for what was played
  (`StreamEnds`). In a turn whose gateway failed the same end of stream comes from a
  cancelled worker, which is why `FinishedMeansAllPlayed` excludes it.
* The deltas. `deltaCh` holds the last deltas emitted (`Delivering`), and what was sent ends
  with the text of those before them (`SentText`). What goes out beside them, the start event
  or the whole text as a fallback, goes out before the first of them.

That the order of a set of deltas exists and is one (`Enumerated`, `IncreasingIsInOrder`)
would be an induction over data; it is shown on sets instead, on a smallest set without an
order, which the well-founded order of finite sets provides.

**PlaybackRecord**, from `RecordAssumption` (the null turn is no turn, lengths and
durations are natural numbers, white space is single and not at the start):
`RecordTypes`, `RecordOutcome` and `RecordMemory`, for every order of calls.
`OutcomeTruth` speaks of the last outcome only, so the inductive invariant (`RecordInv`)
says what makes the next one true: while a playback is active, what was heard is a
prefix of what was delivered, whatever their spellings, and the cached boundary is the
one of these two texts (`Fresh`), and no turn carries the flags of an interruption
before it is finished (`Unfinished`). Lemmas show that each update of the heard text
re-establishes `Fresh`, down to the estimate itself (`HeardRunesPrefix`); `Alive` and
`Ending` say what a method that keeps or ends the turn has to show, and each method has
a lemma. A playback that is not active may well be stale (`UpdatePlayback` changes the
text alone), which is why `Fresh` is claimed only of active ones.

**PlaybackAck**, from `AckAssumption`: `AckTypeOK`, `AckCompleted`, `AckSettlesOwn`,
`AckEnded`, `AckOutcome` and `AckDucked`, for any number of segments, marks and turns.
`RecordInv` is part of the invariant; the rest is again custody. A busy output goroutine is
the current output of the current turn, the session says speaking, and the read loop
listens or, once it has cancelled the goroutine, waits for it (`Custody`). So the record
holds the turn that plays, though no call names one (`OwnTurn`), and an ack taken while
there is a turn is of its playback, although the state of an earlier one may still be there
and be cleared at any moment (`OwnAck`). `Acked` follows the client's word that all was
played through the source, the snapshot, the ack state and the verdict to the outcome.
`DuckedTailIsMissed` does not hold of arbitrary calls of the record (a text finalised on an
active playback counts as heard) but of those the gateway makes: it finalises a text only
without an active playback, and every other completion is limited by `ApplySoft`. It
speaks of a tail that follows what had been heard; where the spelling has changed in
between there is none, which is finding 4.

**RealtimeGateway**, from `GatewayAssumption`: `GatewayTypeOK`, and `GatewayUsesCore`,
that the gateway uses the session core as the core's specification allows, so what is
proved of the core holds of the session of every connection. Under the hypotheses
`PromptExit` and `~TurnsCrossEnd`, which the theorems name: `GatewayInterruptReaches`,
`GatewayReturnIsTimely`, `GatewayOneVoice` and `GatewaySpeakingIsBacked`, for any number of
ids, frames, turns and goroutines. None of the four is inductive; they follow from an
argument of custody. An output goroutine holds the session from its start until it has
set the output lane, ended the session or left (`Held`). While it does (`Owning`), it is
the one `runtime.output` names, the session is the one it was started in, and the read
loop is at a place that answers no turn (`Listening`), waiting if it has cancelled the
goroutine. So nobody holds the session while a turn is answered, and the turn's session
is still the one it was accepted in (`Answering`). `Backed` adds that a session in
speaking is held, or the read loop is on its way to it. If either hypothesis is dropped,
TLC finds `InterruptReaches`, `ReturnIsTimely` and `OneVoice` violated.

**XiaozhiGateway**, from `XiaozhiAssumption`: `XiaozhiTypeOK` and `XiaozhiRefinesSession`
(`SessionSpec`) with and without `PromptExit`; under `PromptExit`, `XiaozhiBrackets`,
`XiaozhiStops` and `XiaozhiHearsNothing`. The type of the session is not inductive in the
adapter: it is taken from the core's own invariant by way of the refinement. The three
properties rest on `Playing`: a goroutine that plays is the current output, the session
says speaking, and the read loop is at its channel, closed, or waiting for it. So nobody
moves the session under a playing goroutine.

**AgentTurn**, from `AgentAssumption`: `AgentTypeOK` (with the bound on the memory),
`AgentSavesOnce`, `AgentSavesSaid` and `AgentPrewarms`, for any number of sessions, turns,
tools and steps. Three writers save one turn: the inductive invariant says that they mean
the same turn (`SameTurn`), that identifiers are above all that were used, so a save is
always of the latest turn of its session (`Identified`), that they have the same text
(`SameText`), and that a session with records of an earlier turn has had a playback whose
outcome is metadata of the next (`OwnRecords`), which no prewarm matches. `AgentAnswers`
(`ToolsAnswered`) names a hypothesis, `NoClash`: no three tools of a catalog have the same
base name, and no tool's base is the suffixed name of a second tool. A name is one value,
base and suffix joined, so it can be given twice; under the hypothesis a name is given to
one tool (`NamesGiven`), and the tool it leads back to is the one it was made from
(`NamesLeadBack`). Where either part fails, TLC finds two tools with one name
(`MCAgentTurnFamily.cfg`, `MCAgentTurnNumbered.cfg`).

**InputPreview**, from `DetectorAssumption`, `BargeInAssumption` and `PreviewAssumption`
(settings are natural numbers): `PreviewTypeOK`, `PreviewAdviceIsCurrent`,
`PreviewEvaluatingIsBacked`, `PreviewEndsInSilence`, `PreviewSoundAlone`,
`PreviewMonotone` and the action property `PreviewNotices`, for every reply of the
recogniser and of the advisers and every setting. An answer is filed under the wording it
was asked about, and an adviser marked as evaluating has its question in the bag of
questions in flight (`Asking`). A suggestion the detector has latched has been reported,
so one that is new was made in the present silence (`Observed`), which is what
`TurnEndsInSilence` needs. A snapshot without words carries no sign of an end, and its
intrusion score is at most 60, below the 72 that interrupts (`SoundIsNoIntrusion`); with
words the score never decides, and every other rule is monotone in the audio
(`LouderInterrupts`). `Counted` follows each chunk to the turn, the staging buffer and the
detector.

**Only model-checked:** liveness (`TurnSettles`, `SpeakingEnds`, `ReadLoopReturns`,
`TurnReturns`), which is outside what the prover does. Every other property of a run that
passes is stated by a theorem. The properties of runs that expect a violation are false,
and there is nothing to prove.

## 6. Not modelled

* Text: clause boundaries, prompts, slot values, the entity catalog. They are pure
  functions, and the models leave their outcome open; the detector's and the policy's
  word lists are modelled on a small vocabulary.
* Audio samples, codecs, resampling; a decoding error is `BinaryRejected`.
* Providers and the Python worker are external services; to a turn they answer,
  fail or are cancelled.
* Wall-clock deadlines: a timeout is an action that may come when its timer is armed.
* Logging, tracing, configuration, control plane: they change nothing the
  modelled parts read.
* The channel bridge: one function that maps a message to a turn and back. It keeps no
  state, and nothing in the program constructs it yet.
* The streaming and the plain turn paths (`executeStreamingTurnResponse` and the
  responder without streaming): the program's responders are orchestrated ones, so
  they are not taken.
* Preview and early-processing events to the client: the server reads nothing back.
* A session id that comes back: in `AgentTurn` a session whose turn failed is over, while
  the code lets a client ask for the same id on a new connection, with an empty previous
  outcome (`realtime_ws.go:560`). `PrewarmHidesNothing` is shown for ids that are not
  reused.
* In `AgentTurn`, the saves of `UpdatePlayback` while the executor runs
  (`realtime_ws.go:1070`): the second `PrepareTurn` replaces the record they write.
  `PlaybackAck` has them (`CollectDelta`).
* In `TurnPipeline`, deltas whose audio does not come from the planner
  (`asr_responder.go:200`, `314`, `355`: no planner, or a single text): the whole response
  is synthesized then, without queue and worker, as the model has it for a response
  without a clause (`FinalAudio`). `PlaybackAck` has the playback (`FinalizeAudio`).

## 7. Plan

Done: the session core and its abstract specification, the future and its abstract
specification, the pipeline of a turn, the gateway over the session core, the playback
record and the acks that feed it, the input preview with detector, advisers and barge-in
policy, the xiaozhi adapter over the session core, the agent runtime with its memory, and
the proofs of section 5. Next:

1. An abstract specification of the playback record (a turn is prepared, played and
   settled once) and the refinement by `PlaybackAck`.
