----------------------------- MODULE XiaozhiGateway -----------------------------
(***************************************************************************)
(* One connection of the xiaozhi compatibility adapter                     *)
(* (internal/gateway/xiaozhi_ws.go, xiaozhi_protocol.go): the read loop    *)
(* that answers hello, listen, abort and binary frames, and the goroutine  *)
(* that plays a response between tts.start and tts.stop.  The session core *)
(* is module RealtimeSession.                                              *)
(*                                                                         *)
(* An action makes at most one call of the session core.  Generating a     *)
(* response is module TurnPipeline; the preview is module InputPreview:    *)
(* here it is open or not, and a poll may suggest the end of the turn.     *)
(*                                                                         *)
(* Data: a binary frame is its header fields and its lengths; an audio     *)
(* payload is known by its length.  A message that changes nothing (mcp,   *)
(* an unknown event, a frame that cannot be unwrapped) is no action.  The  *)
(* adapter stages no audio, so pendingBargeIn is always empty.             *)
(***************************************************************************)
EXTENDS Integers, Sequences

CONSTANTS
    SessionID,      \* state.sessionID: one for the connection
    NoID,           \* no session
    Bodies,         \* lengths of audio payloads
    MaxFrames,      \* bound: frames of one turn
    MaxTurns,       \* bound: turns of one session
    MaxOutputs,     \* bound: output goroutines alive at once
    PromptExit      \* a cancelled output goroutine ends within the 100 ms that
                    \* interruptOutput waits for it

ASSUME XiaozhiAssumption ==
    /\ SessionID # NoID
    /\ Bodies \subseteq Nat \ {0}
    /\ {MaxFrames, MaxTurns} \subseteq Nat /\ MaxOutputs \in Nat \ {0}
    /\ PromptExit \in BOOLEAN

NoBytes == 0
Outputs == 1 .. MaxOutputs
NoOutput == 0

VARIABLES
    session, handed,    \* the session core
    audioTurnOpen,      \* state.audioTurnOpen: between listen.start and the turn's end
    version,            \* state.binaryProtocolVersion
    preview,            \* an input preview is open
    main,               \* the read loop: where it is, and its locals
    outputs,            \* the output goroutines
    output,             \* runtime.output, the current one
    tts,                \* the response whose speech the device was told has started
                        \* and was not told has stopped
    stalled,            \* history: that response's stream failed
    stray,              \* history: audio was sent outside its own start and stop
    connected           \* the connection can be written to

sessionVars == <<session, handed>>
deviceVars == <<tts, stalled, stray>>
vars == <<sessionVars, audioTurnOpen, version, preview, main, outputs, output,
          deviceVars, connected>>

S == INSTANCE RealtimeSession WITH SessionIDs <- {SessionID}, Frames <- Bodies

State == S!SnapshotOf(session).state

-----------------------------------------------------------------------------
(* The binary framings.                                                     *)

normalizeXiaozhiProtocolVersion(v) == IF v \in {2, 3} THEN v ELSE 1

resolveXiaozhiProtocolVersion(hello, fallback) ==
    normalizeXiaozhiProtocolVersion(IF hello > 0 THEN hello ELSE fallback)

HeaderSize(v) == IF v = 2 THEN 16 ELSE IF v = 3 THEN 4 ELSE 0

wrapXiaozhiBinaryFrame(n, v) ==
    [len |-> HeaderSize(v) + n, version |-> v, type |-> 0, size |-> n]

BadFrame == -1

\* Mutant: the declared size is not compared with what arrived.
unwrapUnchecked(f, v) ==
    IF v = 1 THEN f.len
    ELSE IF f.len < HeaderSize(v) \/ (v = 2 /\ f.version # 2) \/ f.type # 0
    THEN BadFrame ELSE f.size

\* The length of the payload; version 3 has no version field.
unwrapXiaozhiBinaryFrame(f, v) ==
    IF v = 1 THEN f.len
    ELSE IF \/ f.len < HeaderSize(v)
            \/ v = 2 /\ f.version # 2
            \/ f.type # 0
            \/ f.size > f.len - HeaderSize(v)
    THEN BadFrame ELSE f.size

\* What a device may send in version v: audio, and frames with a damaged header.
DeviceFrames(v) ==
    UNION {LET f == wrapXiaozhiBinaryFrame(n, v)
           IN  {f} \cup IF v = 1 THEN {}
                        ELSE {[f EXCEPT !.type = 1], [f EXCEPT !.size = @ + 1],
                              [f EXCEPT !.len = HeaderSize(v) - 1]} : n \in Bodies}

-----------------------------------------------------------------------------
(* State.                                                                   *)

MainPCs ==
    {"loop", "closed", "interrupt", "wait", "lane", "ensure", "decode", "ingest", "push",
     "poll", "consume", "accept", "commit", "respond", "finalize", "speak", "encode",
     "return", "end", "reset"}

\* msg: the message being handled; cont: where an interruption continues; lane: the
\* state was speaking when it began; waiting: the goroutine it waits for; body: the
\* frame; ready: the turn had audio before the poll; audio, ends: of the response.
Mains ==
    [pc : MainPCs, msg : {"none", "start", "detect", "binary", "tick", "timeout"},
     cont : {"loop", "ensure", "end"}, lane : BOOLEAN, waiting : Outputs \cup {NoOutput},
     body : Bodies \cup {NoBytes}, ready : BOOLEAN, audio : BOOLEAN, ends : BOOLEAN]

AtLoop ==
    [pc |-> "loop", msg |-> "none", cont |-> "loop", lane |-> FALSE, waiting |-> NoOutput,
     body |-> NoBytes, ready |-> FALSE, audio |-> FALSE, ends |-> FALSE]
Goto(pc) == [main EXCEPT !.pc = pc]

\* A handler that returns an error ends the connection.
Closed == [AtLoop EXCEPT !.pc = "closed"]
\* A write to the device, after which the handler goes on.
Written(next) == IF connected THEN next ELSE Closed

OutputPCs == {"none", "start", "play", "write", "check", "stop", "await", "resolve",
              "active", "end", "close", "exit"}
NoOutputRec == [pc |-> "none", cancelled |-> FALSE, ends |-> FALSE]

Alive(o) == outputs[o].pc # "none"

TypeOK ==
    /\ S!TypeOK
    /\ version \in 1 .. 3
    /\ main \in Mains
    /\ outputs \in [Outputs -> [pc : OutputPCs, cancelled : BOOLEAN, ends : BOOLEAN]]
    /\ {output, tts} \subseteq Outputs \cup {NoOutput}
    /\ {audioTurnOpen, preview, stalled, stray, connected} \subseteq BOOLEAN

Init ==
    /\ S!Init
    /\ version \in {normalizeXiaozhiProtocolVersion(v) : v \in 0 .. 3}
    /\ audioTurnOpen = FALSE /\ preview = FALSE
    /\ main = AtLoop
    /\ outputs = [o \in Outputs |-> NoOutputRec] /\ output = NoOutput
    /\ tts = NoOutput /\ stalled = FALSE /\ stray = FALSE
    /\ connected = TRUE

-----------------------------------------------------------------------------
(* hello, listen, abort, binary frames                                      *)

Begin(msg, cont) ==
    /\ main.pc = "loop" /\ connected
    /\ main' = [AtLoop EXCEPT !.msg = msg, !.pc = "interrupt", !.cont = cont]
    /\ UNCHANGED <<sessionVars, version, preview, outputs, output, deviceVars, connected>>

handleHello(v) ==
    /\ main.pc = "loop" /\ connected
    /\ version' = resolveXiaozhiProtocolVersion(v, version)
    /\ UNCHANGED <<sessionVars, audioTurnOpen, preview, main, outputs, output, deviceVars,
                   connected>>

ListenStart == Begin("start", "ensure") /\ UNCHANGED audioTurnOpen

ListenDetect ==
    session.turns < MaxTurns /\ Begin("detect", "ensure") /\ UNCHANGED audioTurnOpen

handleAbort == Begin("none", "loop") /\ UNCHANGED audioTurnOpen

\* Any audio interrupts the playback; without a turn or a session it is dropped.
handleBinary(f) ==
    /\ audioTurnOpen \/ session.active
    /\ session.frames < MaxFrames
    /\ main.pc = "loop" /\ connected
    /\ unwrapXiaozhiBinaryFrame(f, version) # BadFrame
    /\ main' = [AtLoop EXCEPT !.msg = "binary", !.pc = "interrupt", !.cont = "ensure",
                              !.body = unwrapXiaozhiBinaryFrame(f, version)]
    /\ UNCHANGED <<sessionVars, audioTurnOpen, version, preview, outputs, output, deviceVars,
                   connected>>

\* listen.stop closes the turn in any case and commits it if the session is active.
ListenStop ==
    /\ main.pc = "loop" /\ connected /\ session.turns < MaxTurns
    /\ audioTurnOpen' = FALSE
    /\ main' = IF session.active /\ session.bytes > 0 /\ State = "active"
               THEN Goto("consume") ELSE main
    /\ UNCHANGED <<sessionVars, version, preview, outputs, output, deviceVars, connected>>

\* handleServerEndpointTick
Tick ==
    /\ main.pc = "loop" /\ State = "active" /\ audioTurnOpen /\ preview
    /\ session.turns < MaxTurns
    /\ main' = [AtLoop EXCEPT !.msg = "tick", !.pc = "poll", !.ready = session.bytes > 0]
    /\ UNCHANGED <<sessionVars, audioTurnOpen, version, preview, outputs, output, deviceVars,
                   connected>>

Poll ==
    /\ main.pc = "poll"
    /\ S!SetInputState("previewing")
    /\ \/ main' = AtLoop /\ UNCHANGED audioTurnOpen
       \/ main.ready /\ main' = Goto("consume") /\ audioTurnOpen' = FALSE
    /\ UNCHANGED <<version, preview, outputs, output, deviceVars, connected>>

-----------------------------------------------------------------------------
(* interruptSpeaking                                                        *)

CancelOutput(o) ==
    outputs' = IF o = NoOutput THEN outputs ELSE [outputs EXCEPT ![o].cancelled = TRUE]

Interrupt ==
    /\ main.pc = "interrupt"
    /\ IF State # "speaking" /\ output = NoOutput
       THEN main' = Goto(main.cont) /\ UNCHANGED outputs
       ELSE /\ CancelOutput(output)
            /\ main' = [main EXCEPT !.pc = "wait", !.waiting = output,
                                    !.lane = (State = "speaking")]
    /\ UNCHANGED <<sessionVars, audioTurnOpen, version, preview, output, deviceVars, connected>>

\* Mutant: the interruption cancels and does not wait.
StreamNeedNotEnd(o) == TRUE

StreamDone(o) == PromptExit /\ o # NoOutput => ~ Alive(o)

\* Mutant: an interruption does not tell the device.
StopsNever == FALSE

\* tts.stop is sent if there was an output to interrupt, and before a timeout closes.
StopsDevice == main.waiting # NoOutput \/ main.msg = "timeout"

InterruptWait ==
    /\ main.pc = "wait"
    /\ StreamDone(main.waiting)
    /\ tts' = IF StopsDevice /\ connected THEN NoOutput ELSE tts
    /\ LET next == [main EXCEPT !.pc = IF main.lane THEN "lane" ELSE main.cont]
       IN  main' = IF StopsDevice /\ main.msg # "timeout" THEN Written(next) ELSE next
    /\ UNCHANGED <<sessionVars, audioTurnOpen, version, preview, outputs, output, stalled, stray,
                   connected>>

\* SetOutputState, then clearInputPreview: while speaking the input lane is not
\* previewing, so that leaves the session alone.
InterruptLane ==
    /\ main.pc = "lane"
    /\ S!SetOutputState("idle")
    /\ preview' = FALSE
    /\ main' = IF session.active THEN Goto(main.cont) ELSE Closed
    /\ UNCHANGED <<audioTurnOpen, version, outputs, output, deviceVars, connected>>

\* ensureSessionStarted
Ensure ==
    /\ main.pc = "ensure"
    /\ S!Start(SessionID)
    /\ audioTurnOpen' = (audioTurnOpen \/ main.msg = "start")
    /\ main' = IF main.msg = "binary" THEN Goto("decode")
               ELSE IF main.msg = "detect" THEN Goto("accept") ELSE AtLoop
    /\ UNCHANGED <<version, preview, outputs, output, deviceVars, connected>>

\* inputNormalizer.Decode fails, has nothing to give yet, or gives the audio.
Decode ==
    /\ main.pc = "decode"
    /\ main' \in {AtLoop, Goto("ingest")}
    /\ UNCHANGED <<sessionVars, audioTurnOpen, version, preview, outputs, output, deviceVars,
                   connected>>

Ingest ==
    /\ main.pc = "ingest"
    /\ S!IngestOwnedAudioFrame(main.body)
    /\ main' = IF session.active /\ audioTurnOpen THEN Goto("push") ELSE AtLoop
    /\ UNCHANGED <<audioTurnOpen, version, preview, outputs, output, deviceVars, connected>>

\* ensureInputPreview and pushInputPreviewAudio; an error of either is only logged.
Push ==
    /\ main.pc = "push"
    /\ \/ S!SetInputState("previewing") /\ preview' = TRUE
       \/ UNCHANGED <<sessionVars, preview>>
    /\ main' = AtLoop
    /\ UNCHANGED <<audioTurnOpen, version, outputs, output, deviceVars, connected>>

-----------------------------------------------------------------------------
(* A turn and its response                                                  *)

\* consumeInputPreview
Consume ==
    /\ main.pc = "consume"
    /\ preview' = FALSE
    /\ IF session.active /\ session.input = "previewing"
       THEN S!SetInputState("active") ELSE UNCHANGED sessionVars
    /\ main' = Goto("commit")
    /\ UNCHANGED <<audioTurnOpen, version, outputs, output, deviceVars, connected>>

Accept ==
    /\ main.pc = "accept"
    /\ S!AcceptText
    /\ main' = IF session.active THEN Goto("commit") ELSE AtLoop
    /\ UNCHANGED <<audioTurnOpen, version, preview, outputs, output, deviceVars, connected>>

\* A detected text is echoed (stt) and its turn drops the preview.
CommitTurn ==
    /\ main.pc = "commit"
    /\ S!CommitTurn
    /\ preview' = (preview /\ main.msg # "detect")
    /\ main' = IF ~ session.active
               THEN IF main.msg = "tick" THEN Closed ELSE AtLoop
               ELSE IF main.msg = "detect" THEN Written(Goto("respond")) ELSE Goto("respond")
    /\ UNCHANGED <<audioTurnOpen, version, outputs, output, deviceVars, connected>>

\* executeTurnResponse fails: the device gets an error, and that is all.
RespondFails ==
    /\ main.pc = "respond"
    /\ main' = Written(AtLoop)
    /\ UNCHANGED <<sessionVars, audioTurnOpen, version, preview, outputs, output, deviceVars,
                   connected>>

\* stt for what was spoken, PrepareTurn, clearInputPreview
Respond(audio, ends) ==
    /\ main.pc = "respond"
    /\ preview' = FALSE
    /\ LET next == [main EXCEPT !.pc = "finalize", !.audio = audio, !.ends = ends]
       IN  main' = IF main.msg = "detect" THEN next ELSE Written(next)
    /\ UNCHANGED <<sessionVars, audioTurnOpen, version, outputs, output, deviceVars, connected>>

Finalize ==
    /\ main.pc = "finalize"
    /\ S!ClearTurn
    /\ main' = IF main.audio THEN Goto("speak")
               ELSE Written(Goto(IF main.ends THEN "reset" ELSE "return"))
    /\ UNCHANGED <<audioTurnOpen, version, preview, outputs, output, deviceVars, connected>>

Speak ==
    /\ main.pc = "speak"
    /\ S!SetOutputState("speaking")
    /\ main' = IF session.active THEN Goto("encode") ELSE Closed
    /\ UNCHANGED <<audioTurnOpen, version, preview, outputs, output, deviceVars, connected>>

EncodeFails ==
    /\ main.pc = "encode"
    /\ main' = Goto(IF main.ends THEN "reset" ELSE "return")
    /\ UNCHANGED <<sessionVars, audioTurnOpen, version, preview, outputs, output, deviceVars,
                   connected>>

\* startAudioStream
Spawn ==
    /\ main.pc = "encode"
    /\ \E o \in Outputs :
         /\ ~ Alive(o) /\ \A p \in Outputs : p < o => Alive(p)
         /\ outputs' = [outputs EXCEPT ![o] = [NoOutputRec EXCEPT !.pc = "start",
                                                                  !.ends = main.ends]]
         /\ output' = o
    /\ main' = AtLoop
    /\ UNCHANGED <<sessionVars, audioTurnOpen, version, preview, deviceVars, connected>>

\* SetState(StateActive); after an encoding error its own error is ignored, and the
\* encoding error is reported.
Return ==
    /\ main.pc = "return"
    /\ S!SetState("active")
    /\ main' = IF main.audio THEN Written(AtLoop)
               ELSE IF session.active THEN AtLoop ELSE Closed
    /\ UNCHANGED <<audioTurnOpen, version, preview, outputs, output, deviceVars, connected>>

\* Reset and Close, at the end of a dialog and after a timeout.
Reset ==
    /\ main.pc = "reset"
    /\ S!Reset
    /\ preview' = FALSE
    /\ connected' = FALSE
    /\ main' = IF main.msg = "timeout" THEN Closed ELSE AtLoop
    /\ UNCHANGED <<audioTurnOpen, version, outputs, output, deviceVars>>

-----------------------------------------------------------------------------
(* The end of the connection                                                *)

\* handleReadError for a deadline, which only a session has.
ReadTimeout ==
    /\ main.pc = "loop" /\ session.active
    /\ CancelOutput(output)
    /\ main' = [AtLoop EXCEPT !.pc = "wait", !.waiting = output, !.cont = "end",
                              !.msg = "timeout"]
    /\ UNCHANGED <<sessionVars, audioTurnOpen, version, preview, output, deviceVars, connected>>

End ==
    /\ main.pc = "end"
    /\ \E reason \in {"idle_timeout", "max_duration", "error"} : S!End(reason)
    /\ main' = Goto("reset")
    /\ UNCHANGED <<audioTurnOpen, version, preview, outputs, output, deviceVars, connected>>

\* The network breaks.
Break ==
    /\ connected
    /\ connected' = FALSE
    /\ UNCHANGED <<sessionVars, audioTurnOpen, version, preview, main, outputs, output,
                   deviceVars>>

\* A read error, and the deferred calls of ServeHTTP.
Disconnect ==
    /\ main.pc = "loop" /\ ~ connected
    /\ main' = Closed
    /\ UNCHANGED <<sessionVars, audioTurnOpen, version, preview, outputs, output, deviceVars,
                   connected>>

CancelAll ==
    /\ main.pc = "closed" /\ \E o \in Outputs : Alive(o) /\ ~ outputs[o].cancelled
    /\ outputs' = [o \in Outputs |-> [outputs[o] EXCEPT !.cancelled = Alive(o)]]
    /\ UNCHANGED <<sessionVars, audioTurnOpen, version, preview, main, output, deviceVars,
                   connected>>

-----------------------------------------------------------------------------
(* The output goroutine o (startAudioStream)                                *)

OutGoto(o, pc) == outputs' = [outputs EXCEPT ![o].pc = pc]
OutVars == <<audioTurnOpen, version, main>>

At(o, pc) == outputs[o].pc = pc

OutStart(o) ==
    /\ At(o, "start")
    /\ IF connected
       THEN tts' = o /\ stalled' = FALSE /\ OutGoto(o, "play")
       ELSE UNCHANGED <<tts, stalled>> /\ OutGoto(o, "exit")
    /\ UNCHANGED <<sessionVars, preview, output, stray, connected, OutVars>>

\* Mutant: the context is not looked at.
OutNextBlind(o) ==
    /\ At(o, "play")
    /\ OutGoto(o, "write")
    /\ UNCHANGED <<sessionVars, preview, output, deviceVars, connected, OutVars>>

\* The context is looked at before the next packet is asked for, and a packet that
\* arrives after the cancellation is still sent.
OutNext(o) ==
    /\ At(o, "play")
    /\ OutGoto(o, IF outputs[o].cancelled THEN "exit" ELSE "write")
    /\ UNCHANGED <<sessionVars, preview, output, deviceVars, connected, OutVars>>

OutWrite(o) ==
    /\ At(o, "write")
    /\ stray' = (stray \/ (connected /\ tts # o))
    /\ OutGoto(o, IF connected THEN "play" ELSE "exit")
    /\ UNCHANGED <<sessionVars, preview, output, tts, stalled, connected, OutVars>>

OutEOF(o) ==
    /\ At(o, "play")
    /\ OutGoto(o, "check")
    /\ UNCHANGED <<sessionVars, preview, output, deviceVars, connected, OutVars>>

\* An error of the stream: the goroutine reports it and is gone.
OutFails(o) ==
    /\ At(o, "play") /\ ~ outputs[o].cancelled
    /\ stalled' = TRUE
    /\ OutGoto(o, "exit")
    /\ UNCHANGED <<sessionVars, preview, output, tts, stray, connected, OutVars>>

OutCheck(o) ==
    /\ At(o, "check")
    /\ OutGoto(o, IF outputs[o].cancelled THEN "exit" ELSE "stop")
    /\ UNCHANGED <<sessionVars, preview, output, deviceVars, connected, OutVars>>

\* tts.stop and CompletePlayback; an error of the write is ignored.
OutStop(o) ==
    /\ At(o, "stop")
    /\ tts' = IF connected THEN NoOutput ELSE tts
    /\ OutGoto(o, "await")
    /\ UNCHANGED <<sessionVars, preview, output, stalled, stray, connected, OutVars>>

\* The outcome is known from the start; a cancelled wait may still return it.
OutAwait(o) ==
    /\ At(o, "await")
    /\ \/ OutGoto(o, IF outputs[o].ends THEN "end" ELSE "resolve")
       \/ outputs[o].cancelled /\ OutGoto(o, "exit")
    /\ UNCHANGED <<sessionVars, preview, output, deviceVars, connected, OutVars>>

\* resolvePostPlaybackActiveSnapshot, with nothing staged and no preview of the user's
\* voice (NothingHeardWhileSpeaking): clearInputPreview.
OutResolve(o) ==
    /\ At(o, "resolve")
    /\ preview' = (preview /\ ~ session.active)
    /\ OutGoto(o, "active")
    /\ UNCHANGED <<sessionVars, output, deviceVars, connected, OutVars>>

OutActive(o) ==
    /\ At(o, "active")
    /\ S!SetState("active")
    /\ OutGoto(o, "exit")
    /\ UNCHANGED <<preview, output, deviceVars, connected, OutVars>>

OutEnd(o) ==
    /\ At(o, "end")
    /\ S!Reset
    /\ OutGoto(o, "close")
    /\ UNCHANGED <<preview, output, deviceVars, connected, OutVars>>

OutClose(o) ==
    /\ At(o, "close")
    /\ connected' = FALSE
    /\ OutGoto(o, "exit")
    /\ UNCHANGED <<sessionVars, preview, output, deviceVars, OutVars>>

\* clearOutput and close(stream.done)
OutExit(o) ==
    /\ At(o, "exit")
    /\ outputs' = [outputs EXCEPT ![o] = NoOutputRec]
    /\ output' = IF output = o THEN NoOutput ELSE output
    /\ UNCHANGED <<sessionVars, preview, deviceVars, connected, OutVars>>

-----------------------------------------------------------------------------

Message ==
    \/ \E v \in 0 .. 3 : handleHello(v)
    \/ ListenStart \/ ListenStop \/ ListenDetect \/ handleAbort
    \/ \E f \in DeviceFrames(version) : handleBinary(f)
    \/ Tick \/ ReadTimeout

MainStep ==
    \/ Interrupt \/ InterruptWait \/ InterruptLane
    \/ Ensure \/ Decode \/ Ingest \/ Push \/ Poll \/ Consume \/ Accept \/ CommitTurn
    \/ RespondFails \/ \E audio, ends \in BOOLEAN : Respond(audio, ends)
    \/ Finalize \/ Speak \/ EncodeFails \/ Spawn \/ Return \/ Reset \/ End
    \/ Disconnect \/ CancelAll

OutStep(o) ==
    \/ OutStart(o) \/ OutNext(o) \/ OutWrite(o) \/ OutEOF(o) \/ OutFails(o) \/ OutCheck(o)
    \/ OutStop(o) \/ OutAwait(o) \/ OutResolve(o) \/ OutActive(o) \/ OutEnd(o) \/ OutClose(o)
    \/ OutExit(o)

Next == Message \/ MainStep \/ Break \/ \E o \in Outputs : OutStep(o)

Spec == Init /\ [][Next]_vars

\* The read loop and the goroutines run; the client and the network need not act.
FairSpec == Spec /\ WF_vars(MainStep) /\ \A o \in Outputs : WF_vars(OutStep(o))

-----------------------------------------------------------------------------
(* Properties.                                                              *)

\* The audio of a response is sent between its own tts.start and tts.stop, whatever
\* interrupts it and whatever is played next.
AudioIsBracketed == ~ stray

\* When the read loop is back at its channel and no goroutine plays, the device has
\* been told that the speech is over, unless the stream failed or the network did.
SpeechIsStopped ==
    main.pc = "loop" /\ tts # NoOutput /\ connected => Alive(tts) \/ stalled

\* While a goroutine plays and until it has returned the session nobody has heard the
\* user, and no newer turn is under way: what it does to the session is in time.
NothingHeardWhileSpeaking ==
    \A o \in Outputs : outputs[o].pc \in {"resolve", "active", "end"} =>
        session.active /\ session.output = "speaking" /\ session.input # "previewing"

\* The adapter implements the session core's interface, with the payloads that the
\* device wrapped: what is proved of the core holds for it.
SessionSpec == S!Spec

\* Every message is answered: the read loop gets back to its channel or closes.
ReadLoopReturns == main.pc # "loop" ~> main.pc \in {"loop", "closed"}

\* What the protocol guide says: listen.stop commits the buffered audio turn.
ListenStopCommits ==
    [][ ListenStop /\ session.bytes > 0 /\ State # "speaking" => main'.pc = "consume" ]_vars
=============================================================================
