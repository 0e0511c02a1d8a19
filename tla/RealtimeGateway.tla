---------------------------- MODULE RealtimeGateway ----------------------------
(***************************************************************************)
(* One native realtime connection (internal/gateway/realtime_ws.go): the   *)
(* read loop that handles the client's messages one at a time, the output  *)
(* goroutines that play responses, and what they share: the session core   *)
(* (module RealtimeSession), the current output, the audio staged during   *)
(* playback and the playback-ack state.                                    *)
(*                                                                         *)
(* The two kinds of goroutine meet at the session's lock, so an action     *)
(* makes at most one call of the session core; what a handler read before  *)
(* such a call and uses after it is in its local record.  Response         *)
(* generation, which blocks the read loop, is module TurnPipeline: here it *)
(* may start audio early, settle or fail.                                  *)
(*                                                                         *)
(* Data: an audio frame is labelled with the session it was received in;   *)
(* write errors of the read loop count as the disconnection they announce. *)
(***************************************************************************)
EXTENDS Naturals, Sequences

CONSTANTS
    SessionIDs, NoID, NoBytes,
    MaxFrames,      \* bound: frames of one turn
    MaxPending,     \* bound: frames staged during one playback
    MaxTurns,       \* bound: turns of one session
    MaxOutputs,     \* bound: output goroutines alive at once
    TurnsCrossEnd,  \* text from the client may arrive while the server ends the
                    \* session: the two messages cross on the wire
    PromptExit      \* a cancelled output goroutine ends within the 100 ms that
                    \* interruptOutput waits for it

ASSUME GatewayAssumption ==
    /\ NoID \notin SessionIDs
    /\ NoBytes \notin SessionIDs
    /\ MaxFrames \in Nat /\ MaxPending \in Nat /\ MaxTurns \in Nat
    /\ MaxOutputs \in Nat \ {0}
    /\ TurnsCrossEnd \in BOOLEAN /\ PromptExit \in BOOLEAN

Outputs == 1 .. MaxOutputs
NoOutput == 0

VARIABLES
    session, handed,    \* the session core
    main,               \* the read loop: where it is, and its locals
    outputs,            \* the output goroutines
    output,             \* runtime.output, the current one
    pending,            \* runtime.pendingBargeIn: staged frames
    ack,                \* runtime.playbackAckState: the playback it identifies
    ended,              \* history: the session.end events sent to the client
                        \* since the last session.start
    lateTurn,           \* history: a turn was accepted after session.end
    broken              \* a write on the connection failed

sessionVars == <<session, handed>>
historyVars == <<ended, lateTurn>>
vars == <<sessionVars, main, outputs, output, pending, ack, historyVars, broken>>

S == INSTANCE RealtimeSession WITH Frames <- SessionIDs

State == S!SnapshotOf(session).state

MainPCs ==
    {"loop", "closed",
     "ingest", "preview", "stage", "judge",                 \* handleBinary
     "interrupt", "wait", "lane", "clear", "flush",         \* interruptSpeakingFlow
     "committable", "commit", "accept", "poll",             \* handleCommit, handleText
     "respond", "failed", "spawn", "finalized", "return",   \* emitTurnResponse
     "end", "reset"}                                        \* endSession

\* msg: the kind of message being handled; cont: where an interruption or a
\* flush continues; lane: the state was speaking when it began;
\* clear: ClearPreview and ClearPending; waiting: the
\* goroutine it waits for; sid: the session a frame or a turn belongs to;
\* early: audio was started before the response settled; out: its goroutine;
\* took: what flushPendingBargeInAudio took and has not ingested yet;
\* ready: the snapshot after the flush says active; last: the read pump ended.
Mains ==
    [pc : MainPCs, msg : {"none", "binary", "commit", "text", "tick"},
     cont : {"loop", "flush", "accept", "end"}, lane : BOOLEAN, clear : BOOLEAN,
     waiting : Outputs \cup {NoOutput}, sid : SessionIDs \cup {NoID},
     early : BOOLEAN, out : Outputs \cup {NoOutput},
     took : Seq(SessionIDs), ready : BOOLEAN, last : BOOLEAN]

AtLoop ==
    [pc |-> "loop", msg |-> "none", cont |-> "loop", lane |-> FALSE, clear |-> FALSE,
     waiting |-> NoOutput, sid |-> NoID, early |-> FALSE, out |-> NoOutput,
     took |-> <<>>, ready |-> FALSE, last |-> FALSE]

\* The locals of a handler end with it; after a read error so does the loop.
Back == IF main.last THEN [AtLoop EXCEPT !.pc = "closed"] ELSE AtLoop
Goto(pc) == [main EXCEPT !.pc = pc]

\* ErrNoActiveSession ends a control handler quietly; after handleBinary and
\* handleServerEndpointTick it ends the connection.
HandlerFails ==
    IF main.msg \in {"binary", "tick"} THEN [AtLoop EXCEPT !.pc = "closed"] ELSE Back

OutputPCs == {"none", "play", "check", "ack", "await", "resolve", "drop", "idle", "take",
              "ingest", "preview", "active", "end", "reset", "tidy", "exit"}
OutputRecs ==
    [pc : OutputPCs, cancelled : BOOLEAN, sid : SessionIDs \cup {NoID},
     outcome : {"open", "return", "end"}, keepPreview : BOOLEAN,
     keepPending : BOOLEAN, took : Seq(SessionIDs)]
NoOutputRec ==
    [pc |-> "none", cancelled |-> FALSE, sid |-> NoID, outcome |-> "open",
     keepPreview |-> FALSE, keepPending |-> FALSE, took |-> <<>>]

Alive(o) == outputs[o].pc # "none"

TypeOK ==
    /\ session \in S!Sessions
    /\ handed \in Seq(SessionIDs)
    /\ main \in Mains
    /\ outputs \in [Outputs -> OutputRecs]
    /\ output \in Outputs \cup {NoOutput}
    /\ pending \in Seq(SessionIDs)
    /\ ack \in Outputs \cup {NoOutput}
    /\ ended \in Nat
    /\ lateTurn \in BOOLEAN
    /\ broken \in BOOLEAN

Init ==
    /\ S!Init
    /\ main = AtLoop
    /\ outputs = [o \in Outputs |-> NoOutputRec]
    /\ output = NoOutput
    /\ pending = <<>>
    /\ ack = NoOutput
    /\ ended = 0
    /\ lateTurn = FALSE
    /\ broken = FALSE

-----------------------------------------------------------------------------
(* handleSessionStart; a session that is already active stays as it is.     *)
SessionStart ==
    /\ main.pc = "loop"
    /\ ~session.active
    /\ \E id \in SessionIDs : S!Start(id)
    /\ ack' = NoOutput
    /\ ended' = 0
    /\ UNCHANGED <<main, outputs, output, pending, lateTurn, broken>>

-----------------------------------------------------------------------------
(* handleBinary: the snapshot taken first decides where the frame goes.     *)
Binary ==
    /\ main.pc = "loop"
    /\ session.active
    /\ session.frames < MaxFrames /\ Len(pending) < MaxPending
    /\ main' = [AtLoop EXCEPT !.msg = "binary", !.sid = session.id,
                              !.pc = IF State = "speaking" THEN "stage" ELSE "ingest",
                              !.ready = (State = "active")]
    /\ UNCHANGED <<sessionVars, outputs, output, pending, ack, historyVars, broken>>

\* A frame that finds no session any more gets a recoverable error.
BinaryIngest ==
    /\ main.pc = "ingest"
    /\ S!IngestOwnedAudioFrame(main.sid)
    /\ main' = IF session.active /\ main.ready THEN Goto("preview") ELSE Back
    /\ UNCHANGED <<outputs, output, pending, ack, historyVars, broken>>

\* pushInputPreviewAudio: an active preview marks the input lane.
BinaryPreview ==
    /\ main.pc = "preview"
    /\ S!SetInputState("previewing") \/ UNCHANGED sessionVars
    /\ main' = Back
    /\ UNCHANGED <<outputs, output, pending, ack, historyVars, broken>>

\* stagePendingBargeInAudio, then the preview of what the user is saying.
BinaryStage ==
    /\ main.pc = "stage"
    /\ pending' = Append(pending, main.sid)
    /\ S!SetInputState("previewing") \/ UNCHANGED sessionVars
    /\ main' = Goto("judge")
    /\ UNCHANGED <<outputs, output, ack, historyVars, broken>>

\* EvaluateBargeIn: ignore and duck leave the playback alone, a hard interrupt
\* stops it and moves the staged frames into the turn.
BinaryJudge ==
    /\ main.pc = "judge"
    /\ \/ main' = Back
       \/ main' = [main EXCEPT !.pc = "interrupt", !.cont = "flush"]
    /\ UNCHANGED <<sessionVars, outputs, output, pending, ack, historyVars, broken>>

-----------------------------------------------------------------------------
(* interruptOutput and interruptSpeakingFlowWithOptions                      *)

CancelOutput(o) ==
    outputs' = IF o = NoOutput THEN outputs
               ELSE [outputs EXCEPT ![o].cancelled = TRUE]

\* Nothing to interrupt: the flow returns at once.  Otherwise the current output
\* is cancelled and its end awaited.
Interrupt ==
    /\ main.pc = "interrupt"
    /\ IF State # "speaking" /\ output = NoOutput
       THEN /\ main' = Goto(main.cont)
            /\ UNCHANGED outputs
       ELSE /\ CancelOutput(output)
            /\ main' = [main EXCEPT !.pc = "wait", !.waiting = output,
                                    !.lane = (State = "speaking")]
    /\ UNCHANGED <<sessionVars, output, pending, ack, historyVars, broken>>

\* Mutant: interruptOutput cancels and does not wait.
StreamNeedNotEnd(o) == TRUE

StreamDone(o) == PromptExit /\ o # NoOutput => ~Alive(o)

\* select { case <-stream.done ; case <-time.After(wait) }
InterruptWait ==
    /\ main.pc = "wait"
    /\ StreamDone(main.waiting)
    /\ main' = [main EXCEPT !.pc = IF main.lane THEN "lane" ELSE main.cont,
                            !.waiting = NoOutput]
    /\ UNCHANGED <<sessionVars, outputs, output, pending, ack, historyVars, broken>>

\* The session may be gone by now.
InterruptLane ==
    /\ main.pc = "lane"
    /\ S!SetOutputState("idle")
    /\ main' = IF ~session.active
               THEN HandlerFails
               ELSE IF main.clear THEN Goto("clear") ELSE Goto(main.cont)
    /\ UNCHANGED <<outputs, output, pending, ack, historyVars, broken>>

\* clearInputPreview and resetPendingBargeInAudio
InterruptClear ==
    /\ main.pc = "clear"
    /\ IF session.input = "previewing" THEN S!SetInputState("active")
                                       ELSE UNCHANGED sessionVars
    /\ pending' = <<>>
    /\ main' = Goto(main.cont)
    /\ UNCHANGED <<outputs, output, ack, historyVars, broken>>

\* flushPendingBargeInAudio: take everything, then ingest frame by frame.
FlushTake ==
    /\ main.pc = "flush" /\ main.took = <<>> /\ pending # <<>>
    /\ main' = [main EXCEPT !.took = pending]
    /\ pending' = <<>>
    /\ UNCHANGED <<sessionVars, outputs, output, ack, historyVars, broken>>

FlushIngest ==
    /\ main.pc = "flush" /\ main.took # <<>>
    /\ S!IngestOwnedAudioFrame(Head(main.took))
    /\ main' = IF ~session.active
               THEN HandlerFails
               ELSE IF Len(main.took) > 1
               THEN [main EXCEPT !.took = Tail(@)]
               ELSE IF main.msg = "binary" THEN Back
               ELSE [main EXCEPT !.took = <<>>, !.pc = "committable",
                                 !.ready = (session'.state = "active")]
    /\ UNCHANGED <<outputs, output, pending, ack, historyVars, broken>>

\* Somebody else took the staged frames: a commit sees the zero snapshot.
FlushNothing ==
    /\ main.pc = "flush" /\ main.took = <<>> /\ pending = <<>>
    /\ main' = IF main.msg = "binary" THEN Back
               ELSE [main EXCEPT !.pc = "committable", !.ready = FALSE]
    /\ UNCHANGED <<sessionVars, outputs, output, pending, ack, historyVars, broken>>

-----------------------------------------------------------------------------
(* Accepting a turn: handleCommit, handleText and the server endpoint tick   *)

Commit ==
    /\ main.pc = "loop" /\ session.active /\ session.turns < MaxTurns
    /\ main' = IF State = "speaking" /\ pending # <<>>
               THEN [AtLoop EXCEPT !.msg = "commit", !.pc = "interrupt", !.cont = "flush"]
               ELSE [AtLoop EXCEPT !.msg = "commit", !.pc = "committable",
                                   !.ready = (State = "active")]
    /\ UNCHANGED <<sessionVars, outputs, output, pending, ack, historyVars, broken>>

\* Mutant: the state is not looked at.
MayCommitAlways == TRUE

MayCommit == main.ready

\* "audio.in.commit is accepted only while the session is active"
Committable ==
    /\ main.pc = "committable"
    /\ main' = IF MayCommit THEN Goto("commit") ELSE Back
    /\ UNCHANGED <<sessionVars, outputs, output, pending, ack, historyVars, broken>>

\* handleServerEndpointTick, with a preview under way (pollInputPreview): it
\* commits when the preview suggests the end of the user's speech.
EndpointTick ==
    /\ main.pc = "loop" /\ State = "active" /\ session.turns < MaxTurns
    /\ main' = [AtLoop EXCEPT !.msg = "tick", !.pc = "poll", !.ready = (session.bytes > 0)]
    /\ UNCHANGED <<sessionVars, outputs, output, pending, ack, historyVars, broken>>

TickPoll ==
    /\ main.pc = "poll"
    /\ S!SetInputState("previewing")
    /\ \/ main' = Back
       \/ main.ready /\ main' = Goto("commit")
    /\ UNCHANGED <<outputs, output, pending, ack, historyVars, broken>>

\* A text turn interrupts the playback first, if there is one.
Text ==
    /\ main.pc = "loop" /\ session.active /\ session.turns < MaxTurns
    /\ State = "closing" => TurnsCrossEnd
    /\ main' = IF State = "speaking"
               THEN [AtLoop EXCEPT !.msg = "text", !.pc = "interrupt", !.cont = "accept",
                                   !.clear = TRUE]
               ELSE [AtLoop EXCEPT !.msg = "text", !.pc = "accept"]
    /\ UNCHANGED <<sessionVars, outputs, output, pending, ack, historyVars, broken>>

TextAccept ==
    /\ main.pc = "accept"
    /\ S!AcceptText
    /\ main' = IF session.active THEN Goto("commit") ELSE Back
    /\ UNCHANGED <<outputs, output, pending, ack, historyVars, broken>>

\* Only handleCommit drops what is still staged.
CommitTurn ==
    /\ main.pc = "commit"
    /\ S!CommitTurn
    /\ main' = IF session.active
               THEN [AtLoop EXCEPT !.pc = "respond", !.sid = session.id,
                                   !.msg = IF main.msg = "tick" THEN "tick" ELSE "none"]
               ELSE HandlerFails
    /\ pending' = IF session.active /\ main.msg = "commit" THEN <<>> ELSE pending
    /\ lateTurn' = (lateTurn \/ (session.active /\ ended > 0))
    /\ UNCHANGED <<outputs, output, ack, ended, broken>>

-----------------------------------------------------------------------------
(* emitTurnResponse: the read loop is in here until the response settles.    *)

\* StartResponseAudio: audio is ready before the response is.
RespondEarly ==
    /\ main.pc = "respond" /\ ~main.early
    /\ S!SetOutputState("speaking")
    /\ main' = IF session.active
               THEN [main EXCEPT !.pc = "spawn", !.early = TRUE]
               ELSE Goto("failed")
    /\ UNCHANGED <<outputs, output, pending, ack, historyVars, broken>>

\* startAudioStream: installOutput, installPlaybackAckMeta, go.  The outcome of
\* the turn is known unless the audio is early.
Spawn ==
    /\ main.pc = "spawn"
    /\ \E o \in Outputs, outcome \in {"open", "return", "end"} :
         /\ ~Alive(o) /\ \A p \in Outputs : p < o => Alive(p)
         /\ (outcome = "open") = main.early
         /\ outputs' = [outputs EXCEPT ![o] = [NoOutputRec EXCEPT
                            !.pc = "play", !.sid = main.sid, !.outcome = outcome]]
         /\ output' = o
         /\ ack' = o
         /\ main' = IF main.early THEN [main EXCEPT !.pc = "respond", !.out = o] ELSE Back
    /\ UNCHANGED <<sessionVars, pending, historyVars, broken>>

\* Mutant: the outcome is never resolved.
OpenOutcomes == {"open"}

Outcomes == {"return", "end"}

\* The response settles after early audio: it resolves the outcome the output
\* goroutine waits for, and the handler returns without clearing the turn.
RespondTransferred ==
    /\ main.pc = "respond" /\ main.early
    /\ \E outcome \in Outcomes :
         outputs' = [outputs EXCEPT ![main.out].outcome =
                        IF Alive(main.out) THEN outcome ELSE @]
    /\ main' = Back
    /\ UNCHANGED <<sessionVars, output, pending, ack, historyVars, broken>>

RespondFails ==
    /\ main.pc \in {"respond", "failed"}
    /\ CancelOutput(output)
    /\ main' = [main EXCEPT !.pc = "wait", !.waiting = output, !.lane = FALSE,
                            !.cont = "end"]
    /\ UNCHANGED <<sessionVars, output, pending, ack, historyVars, broken>>

\* finalizeTurnLifecycle: ClearTurn, then play the response's audio ...
Finalize ==
    /\ main.pc = "respond" /\ ~main.early
    /\ S!ClearTurn
    /\ \E pc \in {"finalized", "return", "end"} : main' = Goto(pc)
    /\ UNCHANGED <<outputs, output, pending, ack, historyVars, broken>>

FinalizeSpeaking ==
    /\ main.pc = "finalized"
    /\ S!SetOutputState("speaking")
    /\ main' = IF session.active THEN Goto("spawn") ELSE HandlerFails
    /\ UNCHANGED <<outputs, output, pending, ack, historyVars, broken>>

\* ... or go back to active at once (completeTurnReturnOrClose).
FinalizeActive ==
    /\ main.pc = "return"
    /\ S!SetState("active")
    /\ main' = IF session.active THEN Back ELSE HandlerFails
    /\ UNCHANGED <<outputs, output, pending, ack, historyVars, broken>>

-----------------------------------------------------------------------------
(* handleClientEnd, handleSessionUpdate, audio.out.cleared, read errors      *)

\* interruptOutput, then endSession: on the client's request, after the read
\* deadline, and for a frame that is too large or cannot be decoded.
EndRequested(msg, last) ==
    /\ main.pc = "loop"
    /\ session.active
    /\ CancelOutput(output)
    /\ main' = [AtLoop EXCEPT !.pc = "wait", !.waiting = output, !.cont = "end",
                              !.msg = msg, !.last = last]
    /\ UNCHANGED <<sessionVars, output, pending, ack, historyVars, broken>>

ClientEnd      == EndRequested("none", FALSE)
ReadTimeout    == EndRequested("none", TRUE)
BinaryRejected == EndRequested("binary", FALSE)

InterruptHint ==
    /\ main.pc = "loop" /\ State = "speaking"
    /\ main' = [AtLoop EXCEPT !.pc = "interrupt", !.clear = TRUE]
    /\ UNCHANGED <<sessionVars, outputs, output, pending, ack, historyVars, broken>>

\* handleAudioOutCleared, for the playback whose identity the ack state has.
AudioOutCleared ==
    /\ main.pc = "loop" /\ State = "speaking" /\ ack # NoOutput
    /\ main' = [AtLoop EXCEPT !.pc = "interrupt"]
    /\ UNCHANGED <<sessionVars, outputs, output, pending, ack, historyVars, broken>>

\* The client is gone: the loop returns, which cancels every output.
Disconnect ==
    /\ main.pc = "loop"
    /\ main' = [AtLoop EXCEPT !.pc = "closed"]
    /\ UNCHANGED <<sessionVars, outputs, output, pending, ack, historyVars, broken>>

CancelAll ==
    /\ main.pc = "closed"
    /\ \E o \in Outputs : Alive(o) /\ ~outputs[o].cancelled
    /\ outputs' = [o \in Outputs |-> [outputs[o] EXCEPT !.cancelled = TRUE]]
    /\ UNCHANGED <<sessionVars, main, output, pending, ack, historyVars, broken>>

\* endSession, on the read loop: End (the reason is not looked at again) and the
\* event, then Reset.  terminateWithError
\* looks for a session first, so it may or may not see that there is none.
End ==
    /\ main.pc = "end"
    /\ S!End("client_stop")
    /\ main' \in IF session.active THEN {Goto("reset")} ELSE {Back, HandlerFails}
    /\ ended' = IF session.active THEN ended + 1 ELSE ended
    /\ UNCHANGED <<outputs, output, pending, ack, lateTurn, broken>>

Reset ==
    /\ main.pc = "reset"
    /\ S!Reset
    /\ ack' = NoOutput
    /\ main' = Back
    /\ UNCHANGED <<outputs, output, pending, historyVars, broken>>

-----------------------------------------------------------------------------
(* The output goroutine o                                                    *)

At(o, pc) == outputs[o].pc = pc
Exiting == [NoOutputRec EXCEPT !.pc = "exit"]     \* its locals are done with
OutputGoto(o, pc) ==
    outputs' = [outputs EXCEPT ![o] = IF pc = "exit" THEN Exiting ELSE [@ EXCEPT !.pc = pc]]

\* streamCtx.Err() != nil, or ctx.Done() in a select.
OutputCancelled(o) ==
    /\ outputs[o].pc \in {"play", "ack", "await"} /\ outputs[o].cancelled
    /\ OutputGoto(o, IF At(o, "ack") THEN "await" ELSE "exit")
    /\ UNCHANGED <<sessionVars, main, output, pending, ack, historyVars, broken>>

\* The stream ends; only a playback that was not cancelled goes on.
OutputEOF(o) ==
    /\ At(o, "play") /\ ~outputs[o].cancelled
    /\ OutputGoto(o, "check")
    /\ UNCHANGED <<sessionVars, main, output, pending, ack, historyVars, broken>>

\* Mutant: the goroutine just returns.
AfterFailureReturns(o) == "exit"

AfterFailure(o) ==
    IF session.id = outputs[o].sid /\ State = "speaking" THEN "end" ELSE "exit"

\* The audio stream fails: the session is ended, if it is still this one.
OutputStreamFails(o) ==
    /\ At(o, "play") /\ ~outputs[o].cancelled
    /\ OutputGoto(o, AfterFailure(o))
    /\ UNCHANGED <<sessionVars, main, output, pending, ack, historyVars, broken>>

\* emitAudioOutMeta: the playback-ack state takes the segment's identity.
OutputMeta(o) ==
    /\ At(o, "play")
    /\ ack' = o
    /\ UNCHANGED <<sessionVars, main, outputs, output, pending, historyVars, broken>>

\* A frame or audio.out.meta cannot be written: the goroutine just returns.
OutputWriteFails(o) ==
    /\ At(o, "play") /\ ~outputs[o].cancelled
    /\ broken' = TRUE
    /\ OutputGoto(o, "exit")
    /\ UNCHANGED <<sessionVars, main, output, pending, ack, historyVars>>

\* A playback whose session has moved on drops what was staged for it.
OutputCheck(o) ==
    /\ At(o, "check")
    /\ IF session.id = outputs[o].sid /\ State = "speaking"
       THEN /\ OutputGoto(o, "ack")
            /\ UNCHANGED <<sessionVars, pending>>
       ELSE /\ OutputGoto(o, "exit")
            /\ pending' = <<>>
            /\ IF session.input = "previewing" THEN S!SetInputState("active")
                                               ELSE UNCHANGED sessionVars
    /\ UNCHANGED <<main, output, ack, historyVars, broken>>

\* waitForPlaybackAckTerminal: the ack, or the timeout.
OutputAck(o) ==
    /\ At(o, "ack")
    /\ OutputGoto(o, "await")
    /\ UNCHANGED <<sessionVars, main, output, pending, ack, historyVars, broken>>

\* stream.completion.Wait
OutputAwait(o) ==
    /\ At(o, "await") /\ outputs[o].outcome # "open"
    /\ OutputGoto(o, IF outputs[o].outcome = "end" THEN "end" ELSE "resolve")
    /\ UNCHANGED <<sessionVars, main, output, pending, ack, historyVars, broken>>

\* resolvePostPlaybackActiveSnapshot: keep what the user has begun to say ...
OutputResolve(o) ==
    /\ At(o, "resolve")
    /\ LET keepPreview == session.active /\ session.input = "previewing"
           keepPending == session.active /\ pending # <<>>
       IN  outputs' = [outputs EXCEPT
                ![o].pc = IF keepPreview \/ keepPending THEN "idle"
                          ELSE IF session.active THEN "drop" ELSE "active",
                ![o].keepPreview = keepPreview, ![o].keepPending = keepPending]
    /\ UNCHANGED <<sessionVars, main, output, pending, ack, historyVars, broken>>

\* ... or, when there was nothing, clear what may have come since.
OutputDrop(o) ==
    /\ At(o, "drop")
    /\ pending' = <<>>
    /\ IF session.input = "previewing" THEN S!SetInputState("active")
                                       ELSE UNCHANGED sessionVars
    /\ OutputGoto(o, "active")
    /\ UNCHANGED <<main, output, ack, historyVars, broken>>

OutputIdle(o) ==
    /\ At(o, "idle")
    /\ S!SetOutputState("idle")
    /\ OutputGoto(o, IF ~session.active THEN "exit"
                     ELSE IF outputs[o].keepPending THEN "take" ELSE "preview")
    /\ UNCHANGED <<main, output, pending, ack, historyVars, broken>>

OutputTake(o) ==
    /\ At(o, "take")
    /\ outputs' = [outputs EXCEPT ![o].took = pending, ![o].pc = "ingest"]
    /\ pending' = <<>>
    /\ UNCHANGED <<sessionVars, main, output, ack, historyVars, broken>>

OutputIngest(o) ==
    /\ At(o, "ingest") /\ outputs[o].took # <<>>
    /\ S!IngestOwnedAudioFrame(Head(outputs[o].took))
    /\ outputs' = [outputs EXCEPT ![o] =
                        IF session.active
                        THEN [outputs[o] EXCEPT !.took = Tail(outputs[o].took)]
                        ELSE Exiting]
    /\ UNCHANGED <<main, output, pending, ack, historyVars, broken>>

OutputIngested(o) ==
    /\ At(o, "ingest") /\ outputs[o].took = <<>>
    /\ OutputGoto(o, IF outputs[o].keepPreview THEN "preview" ELSE "exit")
    /\ UNCHANGED <<sessionVars, main, output, pending, ack, historyVars, broken>>

OutputPreview(o) ==
    /\ At(o, "preview")
    /\ S!SetInputState("previewing")
    /\ OutputGoto(o, "exit")
    /\ UNCHANGED <<main, output, pending, ack, historyVars, broken>>

OutputActive(o) ==
    /\ At(o, "active")
    /\ S!SetState("active")
    /\ OutputGoto(o, "exit")
    /\ UNCHANGED <<main, output, pending, ack, historyVars, broken>>

\* endSession, on the output goroutine; without Reset when session.end cannot be
\* written.
OutputEnd(o) ==
    /\ At(o, "end")
    /\ S!End("completed")
    /\ \/ /\ OutputGoto(o, IF session.active THEN "reset" ELSE "exit")
          /\ ended' = IF session.active THEN ended + 1 ELSE ended
          /\ UNCHANGED broken
       \/ /\ session.active
          /\ OutputGoto(o, "exit")
          /\ broken' = TRUE
          /\ UNCHANGED ended
    /\ UNCHANGED <<main, output, pending, ack, lateTurn>>

OutputReset(o) ==
    /\ At(o, "reset")
    /\ S!Reset
    /\ OutputGoto(o, "tidy")
    /\ UNCHANGED <<main, output, pending, ack, historyVars, broken>>

\* clearInputPreview and clearPlaybackAckState, with a new session perhaps begun.
OutputTidy(o) ==
    /\ At(o, "tidy")
    /\ IF session.input = "previewing" THEN S!SetInputState("active")
                                       ELSE UNCHANGED sessionVars
    /\ ack' = NoOutput
    /\ OutputGoto(o, "exit")
    /\ UNCHANGED <<main, output, pending, historyVars, broken>>

\* Mutant: clearOutput does not look whose output it clears.
ClearAnyOutput(o) == NoOutput

ClearOutput(o) == IF output = o THEN NoOutput ELSE output

\* The deferred calls: clearPlaybackAckState, whoever owns it; clearOutput, if
\* it is still this one; close(stream.done).
OutputExit(o) ==
    /\ At(o, "exit")
    /\ outputs' = [outputs EXCEPT ![o] = NoOutputRec]
    /\ output' = ClearOutput(o)
    /\ ack' = NoOutput
    /\ UNCHANGED <<sessionVars, main, pending, historyVars, broken>>

-----------------------------------------------------------------------------
\* On a broken connection a handler gets as far as its first write, so what is
\* still in the inbound channel counts for nothing.
Receive ==
    /\ ~broken
    /\ \/ SessionStart \/ Binary \/ Commit \/ EndpointTick \/ Text \/ ClientEnd
       \/ ReadTimeout \/ BinaryRejected \/ InterruptHint \/ AudioOutCleared

Handle ==
    \/ BinaryIngest \/ BinaryPreview \/ BinaryStage \/ BinaryJudge
    \/ Interrupt \/ InterruptWait \/ InterruptLane \/ InterruptClear
    \/ FlushTake \/ FlushIngest \/ FlushNothing
    \/ Committable \/ TickPoll \/ TextAccept \/ CommitTurn
    \/ RespondEarly \/ Spawn \/ RespondTransferred \/ RespondFails
    \/ Finalize \/ FinalizeSpeaking \/ FinalizeActive
    \/ End \/ Reset \/ CancelAll

OutputStep(o) ==
    \/ OutputCancelled(o) \/ OutputEOF(o) \/ OutputStreamFails(o) \/ OutputWriteFails(o)
    \/ OutputCheck(o) \/ OutputAck(o) \/ OutputAwait(o) \/ OutputResolve(o)
    \/ OutputDrop(o)
    \/ OutputIdle(o) \/ OutputTake(o) \/ OutputIngest(o) \/ OutputIngested(o)
    \/ OutputPreview(o) \/ OutputActive(o) \/ OutputEnd(o) \/ OutputReset(o)
    \/ OutputTidy(o) \/ OutputExit(o) \/ OutputMeta(o)

Next ==
    \/ Receive
    \/ Disconnect
    \/ Handle
    \/ \E o \in Outputs : OutputStep(o)

Spec == Init /\ [][Next]_vars

\* A handler that has begun goes on and responses settle; output goroutines run,
\* and their streams end; a broken connection is noticed by the read pump.
Fairness ==
    /\ WF_vars(Handle)
    /\ \A o \in Outputs : WF_vars(OutputStep(o) /\ outputs' # outputs)
    /\ WF_vars(broken /\ Disconnect)

FairSpec == Spec /\ Fairness

-----------------------------------------------------------------------------
(* A session that says speaking is being spoken for: some output goroutine  *)
(* of it is alive to bring it back to active or to end it, or the read loop *)
(* is about to.  Otherwise every later commit is refused for ever.          *)
SpeakingIsBacked ==
    State = "speaking" /\ ~broken /\ main.pc # "closed" =>
        \/ \E o \in Outputs : Alive(o) /\ outputs[o].sid = session.id
        \/ main.pc \in {"spawn", "wait", "lane", "end"}

(* A playback that nobody cancelled is the one runtime.output names, so an  *)
(* interruption reaches it, and the client never gets two at once.          *)
InterruptReaches ==
    \A o \in Outputs :
        outputs[o].pc \in {"play", "check", "ack", "await"} /\ ~outputs[o].cancelled
            => output = o

(* An output goroutine that is about to bring the session back to active    *)
(* finds it speaking, in the session it played for: it never overrides the  *)
(* thinking or the speaking of a later turn, nor another session.           *)
ReturnIsTimely ==
    \A o \in Outputs :
        outputs[o].pc \in {"resolve", "drop", "idle", "active"}
            => State = "speaking" /\ session.id = outputs[o].sid

(* A turn is answered in silence: no playback that was not cancelled is     *)
(* under way while the response to a new turn is prepared.                  *)
OneVoice ==
    main.pc \in {"respond", "finalized"} /\ ~main.early
        => \A o \in Outputs :
              outputs[o].pc \in {"play", "check", "ack", "await"} => outputs[o].cancelled

(* The playback-ack state is the current playback's until that playback is  *)
(* over (realtime-session-v0.md:112, audio.out.meta "establishes the IDs    *)
(* used by later playback ACK facts").                                      *)
AckBelongs ==
    output # NoOutput /\ outputs[output].pc \in {"play", "check", "ack"}
        => ack = output

(* rtos-device-ws-v0.md:153: "After sending `session.end`, no new turn      *)
(* starts on that socket until a new `session.start`."                      *)
NoTurnAfterEnd == ~lateTurn

(* A session does not stay in speaking: the playback ends, is interrupted,  *)
(* or the connection closes.                                                *)
SpeakingEnds == (State = "speaking") ~> (State # "speaking" \/ main.pc = "closed")
=============================================================================
