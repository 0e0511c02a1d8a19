------------------------------- MODULE InputPreview -------------------------------
(***************************************************************************)
(* The input preview of one connection: the recogniser, the turn detector  *)
(* and the two advisers follow the user's audio while it arrives, so that  *)
(* the server can end the turn by itself and tell an interruption from a   *)
(* murmur.  asrInputPreviewSession (internal/voice/asr_responder.go) is    *)
(* the preview, SessionOrchestrator (session_orchestrator.go) holds the    *)
(* current one, and the read loop of the gateway (internal/gateway) feeds  *)
(* it with frames and polls it when no frame arrives.                      *)
(*                                                                         *)
(* The read loop handles a frame chunk by chunk; the advisers answer in    *)
(* goroutines of their own; the output goroutine, when its playback ends,  *)
(* decides whether to keep the preview and the audio staged meanwhile.     *)
(* Time passes in the poll timer and in a slow call of the recogniser.     *)
(* Audio is counted in milliseconds.  Turn generation and playback are     *)
(* modules TurnPipeline and RealtimeGateway.                               *)
(***************************************************************************)
EXTENDS BargeIn, Bags

CONSTANTS
    Replies,        \* what the recogniser may return: a text and an endpoint hint
    Judgements,     \* what the semantic judge may return
    SlotParses,     \* what the slot parser may return
    ChunkMs,        \* the audio of one preview chunk
    PollMs,         \* the time between two polls
    SlowPushMs,     \* the time a slow call of the recogniser takes
    MaxFrames,      \* bound: frames received
    MaxChunks,      \* bound: chunks of a frame
    MaxRequests     \* bound: questions in flight

ASSUME PreviewAssumption ==
    /\ \A r \in Replies : r.text \in Seq(STRING) /\ r.hint \in BOOLEAN
    /\ {ChunkMs, PollMs} \subseteq Nat \ {0}
    /\ {SlowPushMs, MaxFrames, MaxChunks, MaxRequests} \subseteq Nat

VARIABLES
    speaking,   \* the session is in state speaking, else active
    audio,      \* the audio of the session's current turn
    previewing, \* the session's input lane
    staged,     \* runtime.pendingBargeIn: audio staged during playback
    preview,    \* SessionOrchestrator.preview and the session it holds
    questions,  \* the questions in flight, a bag
    main,       \* the read loop: where it is, and its locals
    out,        \* the output goroutine, likewise
    frames      \* the frames received

vars == <<speaking, audio, previewing, staged, preview, questions, main, out, frames>>

NoSnapshot ==
    [partial |-> <<>>, stable |-> <<>>, audio |-> 0, speechStarted |-> FALSE,
     utteranceComplete |-> FALSE, commitSuggested |-> FALSE, endpointReason |-> "",
     arbitration |-> NoArbitration]
NoPreview ==
    [open |-> FALSE, detector |-> NewSilenceTurnDetector, lastPartial |-> <<>>, lastHint |-> FALSE,
     judge |-> NoRequest, slots |-> NoRequest, lastCommitLogged |-> FALSE]
StartInputPreview == [NoPreview EXCEPT !.open = TRUE]

\* speaking: the snapshot at the start of handleBinary said so; chunks: still to push;
\* heard: the snapshot that the frame, the interruption or the turn's end is judged by
Idle == [pc |-> "idle", speaking |-> FALSE, chunks |-> 0, heard |-> NoSnapshot]
NoOutput == [pc |-> "none", keepPreview |-> FALSE, keepPending |-> FALSE]

Init ==
    /\ speaking \in BOOLEAN
    /\ out = IF speaking THEN [NoOutput EXCEPT !.pc = "play"] ELSE NoOutput
    /\ audio = 0 /\ staged = 0 /\ previewing = FALSE
    /\ preview = NoPreview /\ questions = EmptyBag
    /\ main = Idle
    /\ frames = 0

-----------------------------------------------------------------------------
(* One observation of the preview: its snapshot, with the advisers' answers *)
(* to that wording merged in, and the questions it asks.                    *)

KeyOf(p) == semanticCandidateKey(p.stable, p.partial)

mergedSemanticSnapshot(s, p) ==
    IF s.key = KeyOf(p) THEN mergeSemanticJudgement(p, s.answer) ELSE p

mergedSlotSnapshot(s, p) ==
    IF s.key = KeyOf(p) THEN mergeSemanticSlotParse(p, s.answer) ELSE p

maybeLaunchSemanticJudge(s, p) == shouldJudgeSemantic(p) /\ shouldLaunch(s, KeyOf(p))
maybeLaunchSlotParser(s, p) == shouldParseSemanticSlots(p) /\ shouldLaunch(s, KeyOf(p))

Launched(s, key) == [s EXCEPT !.evaluating = TRUE, !.lastRequestedKey = key]

\* Mutant: the suggestion is reported as long as it stands.
CommitStands(v, p) == p.commitSuggested

\* recordInputPreviewSnapshot reports the suggestion to commit the first time only.
CommitNew(v, p) == p.commitSuggested /\ ~ v.lastCommitLogged

\* seen: the detector's snapshot; judged: with the judge's answer merged in.
Observation(v, seen, judged) ==
    LET key == KeyOf(seen)
        asksJudge == maybeLaunchSemanticJudge(v.judge, seen)
        asksSlots == maybeLaunchSlotParser(v.slots, judged)
    IN  [snapshot |-> mergedSlotSnapshot(v.slots, judged),
         commitNew |-> CommitNew(v, seen),
         questions |-> SetToBag({[to |-> t, key |-> key] :
                                   t \in {u \in {"judge", "slots"} :
                                            IF u = "judge" THEN asksJudge ELSE asksSlots}}),
         preview |-> [v EXCEPT !.detector = Latched(@, seen),
                               !.judge = IF asksJudge THEN Launched(@, key) ELSE @,
                               !.slots = IF asksSlots THEN Launched(@, key) ELSE @,
                               !.lastCommitLogged = @ \/ CommitNew(v, seen)]]

ObservationOf(v, seen) == Observation(v, seen, mergedSemanticSnapshot(v.judge, seen))

\* Poll, and pushPreviewChunk after the recogniser's answer.
Observe(v) == ObservationOf(v, Snapshot(v.detector))

-----------------------------------------------------------------------------
(* The read loop: a binary frame (handleBinary).                            *)

\* The loop decides by the state it reads here, before decoding the frame.
Frame(n) ==
    /\ main.pc = "idle" /\ frames < MaxFrames
    /\ main' = [Idle EXCEPT !.pc = "accept", !.speaking = speaking, !.chunks = n]
    /\ frames' = frames + 1
    /\ UNCHANGED <<speaking, audio, previewing, staged, preview, questions, out>>

\* stagePendingBargeInAudio, or IngestOwnedAudioFrame, which leaves the output lane
\* alone.
AcceptFrame ==
    /\ main.pc = "accept"
    /\ IF main.speaking
       THEN staged' = staged + main.chunks * ChunkMs /\ UNCHANGED audio
       ELSE audio' = audio + main.chunks * ChunkMs /\ UNCHANGED staged
    /\ main' = [main EXCEPT !.pc = "ensure"]
    /\ UNCHANGED <<speaking, previewing, preview, questions, out, frames>>

\* Where the loop goes when the preview has nothing more to say about the frame.
AfterPush == IF main.speaking THEN [main EXCEPT !.pc = "judge", !.chunks = 0] ELSE Idle

\* EnsureInputPreview; starting the recogniser's stream may fail.
EnsureInputPreview ==
    /\ main.pc = "ensure"
    /\ \/ /\ preview' = IF preview.open THEN preview ELSE StartInputPreview
          /\ main' = [main EXCEPT !.pc = "push"]
       \/ /\ ~ preview.open
          /\ main' = AfterPush
          /\ UNCHANGED preview
    /\ UNCHANGED <<speaking, audio, previewing, staged, questions, out, frames>>

\* httpStreamingSession.PushAudio answers with a delta when the text or the hint is
\* new.  Nothing the user says can make a known text disappear.
Delta(v, text, hint) ==
    IF text = v.lastPartial /\ hint = v.lastHint THEN v
    ELSE [v EXCEPT !.detector = ObserveTranscriptionDelta(@, text, hint, FALSE),
                   !.lastPartial = text, !.lastHint = hint]

\* pushPreviewChunk: the audio counts from before the recogniser's call, the
\* snapshot is taken after it.
PushedChunk(v, elapsed, text, hint) ==
    LET heard == [v EXCEPT !.detector = Elapse(ObserveAudio(@, ChunkMs), elapsed)]
    IN  IF text = <<>> THEN heard ELSE Delta(heard, text, hint)

\* The suggestion that an observation of a push carries is not acted on.
PushInputPreviewAudio(elapsed, text, hint) ==
    /\ main.pc = "push" /\ preview.open /\ main.chunks > 0
    /\ \E seen \in {Observe(PushedChunk(preview, elapsed, text, hint))} :
           /\ BagCardinality(questions) + BagCardinality(seen.questions) <= MaxRequests
           /\ preview' = seen.preview
           /\ questions' = questions (+) seen.questions
           /\ main' = [main EXCEPT !.chunks = @ - 1,
                                   !.heard = IF main.speaking THEN seen.snapshot ELSE @]
    /\ previewing' = TRUE
    /\ UNCHANGED <<speaking, audio, staged, out, frames>>

\* The recogniser's call fails after the detector has counted the chunk; the frame's
\* observations are dropped.
PushFails ==
    /\ main.pc = "push" /\ preview.open /\ main.chunks > 0
    /\ preview' = [preview EXCEPT !.detector = ObserveAudio(@, ChunkMs)]
    /\ main' = [AfterPush EXCEPT !.heard = NoSnapshot]
    /\ UNCHANGED <<speaking, audio, previewing, staged, questions, out, frames>>

\* All chunks pushed, or the preview is gone: the output goroutine closed it.
PushEnds ==
    /\ main.pc = "push" /\ (main.chunks = 0 \/ ~ preview.open)
    /\ main' = IF main.chunks = 0 THEN AfterPush ELSE [AfterPush EXCEPT !.heard = NoSnapshot]
    /\ UNCHANGED <<speaking, audio, previewing, staged, preview, questions, out, frames>>

\* pendingBargeInPreview: the staged audio counts when it is more than the preview's.
pendingBargeInPreview(p) ==
    [p EXCEPT !.audio = IF staged > @ THEN staged ELSE @,
              !.speechStarted = @ \/ staged > 0]

JudgeFrame ==
    /\ main.pc = "judge"
    /\ LET p == pendingBargeInPreview(main.heard)
           policy == EvaluateBargeIn(p)
       IN  main' = IF playbackDirectiveForDecision(policy) = "interrupt"
                   THEN [Idle EXCEPT !.pc = "interrupt", !.heard = p] ELSE Idle
    /\ UNCHANGED <<speaking, audio, previewing, staged, preview, questions, out, frames>>

\* interruptSpeakingFlowWithOptions, keeping preview and staged audio: it ends the
\* playback, or waits for the goroutine whose playback has ended already.
InterruptOutput ==
    /\ main.pc = "interrupt" /\ out.pc \in {"play", "none"}
    /\ out' = NoOutput /\ speaking' = FALSE
    /\ main' = [Idle EXCEPT !.pc = "flush"]
    /\ UNCHANGED <<audio, previewing, staged, preview, questions, frames>>

FlushStaged ==
    /\ main.pc = "flush"
    /\ audio' = audio + staged /\ staged' = 0
    /\ main' = Idle
    /\ UNCHANGED <<speaking, previewing, preview, questions, out, frames>>

-----------------------------------------------------------------------------
(* The read loop: the poll timer.                                           *)

\* handleServerEndpointTick while the state is active and a preview is open: poll,
\* and on a new suggestion, with audio to commit, end the turn (consumeInputPreview,
\* CommitTurn).  The response is played next.
Poll ==
    \E seen \in {Observe([preview EXCEPT !.detector = Elapse(@, PollMs)])} :
        /\ BagCardinality(questions) + BagCardinality(seen.questions) <= MaxRequests
        /\ IF seen.commitNew /\ audio > 0
           THEN /\ preview' = NoPreview /\ questions' = EmptyBag
                /\ audio' = 0 /\ previewing' = FALSE
                /\ main' = [Idle EXCEPT !.pc = "respond", !.heard = seen.snapshot]
           ELSE /\ preview' = seen.preview /\ questions' = questions (+) seen.questions
                /\ previewing' = TRUE
                /\ UNCHANGED <<audio, main>>

Tick ==
    /\ main.pc = "idle"
    /\ IF speaking \/ ~ preview.open
       THEN /\ preview' = [preview EXCEPT !.detector = Elapse(@, PollMs)]
            /\ UNCHANGED <<audio, previewing, questions, main>>
       ELSE Poll
    /\ UNCHANGED <<speaking, staged, out, frames>>

\* The turn's response plays audio, or has none.
Respond(plays) ==
    /\ main.pc = "respond"
    /\ out.pc = "none"
    /\ speaking' = plays
    /\ out' = IF plays THEN [NoOutput EXCEPT !.pc = "play"] ELSE out
    /\ main' = Idle
    /\ UNCHANGED <<audio, previewing, staged, preview, questions, frames>>

\* The client commits the turn itself (handleAudioCommit): the preview is consumed.
ClientCommit ==
    /\ main.pc = "idle" /\ ~ speaking /\ audio > 0
    /\ preview' = NoPreview /\ questions' = EmptyBag
    /\ audio' = 0 /\ previewing' = FALSE
    /\ main' = [Idle EXCEPT !.pc = "respond"]
    /\ UNCHANGED <<speaking, staged, out, frames>>

-----------------------------------------------------------------------------
(* The advisers.  A goroutine of a closed preview writes to that preview's  *)
(* state, which nobody reads again, so closing drops its questions.         *)

JudgeAnswers(q, raw) ==
    /\ q.to = "judge"
    /\ preview' = [preview EXCEPT
                     !.judge = storeResult(@, q.key, q.key, decodeSemanticTurnJudgement(raw))]

SlotsAnswer(q, raw) ==
    /\ q.to = "slots"
    /\ preview' = [preview EXCEPT
                     !.slots = storeResult(@, q.key, q.key, decodeSemanticSlotParseResult(raw))]

\* An error, an undecodable reply or the timeout: the request is forgotten, whatever
\* wording it was about.
AdviserFails(q) ==
    preview' = [preview EXCEPT !.judge = IF q.to = "judge" THEN clearRequest(@) ELSE @,
                               !.slots = IF q.to = "slots" THEN clearRequest(@) ELSE @]

Answer ==
    \E q \in BagToSet(questions) :
        /\ \/ \E raw \in Judgements : JudgeAnswers(q, raw)
           \/ \E raw \in SlotParses : SlotsAnswer(q, raw)
           \/ AdviserFails(q)
        /\ questions' = questions (-) SetToBag({q})
        /\ UNCHANGED <<speaking, audio, previewing, staged, main, out, frames>>

-----------------------------------------------------------------------------
(* The output goroutine, from the end of its playback                       *)
(* (resolvePostPlaybackActiveSnapshot).                                     *)

OutVars == <<main, frames>>

OutGoto(pc) == out' = [out EXCEPT !.pc = pc]

PlaybackEnds ==
    /\ out.pc = "play"
    /\ out' = [out EXCEPT !.pc = "look", !.keepPreview = previewing]
    /\ UNCHANGED <<speaking, audio, previewing, staged, preview, questions, OutVars>>

LookForStaged ==
    /\ out.pc = "look"
    /\ out' = [out EXCEPT !.keepPending = staged > 0,
                          !.pc = IF out.keepPreview \/ staged > 0 THEN "idle" ELSE "drop"]
    /\ UNCHANGED <<speaking, audio, previewing, staged, preview, questions, OutVars>>

DropStaged ==
    /\ out.pc = "drop"
    /\ staged' = 0
    /\ OutGoto("clear")
    /\ UNCHANGED <<speaking, audio, previewing, preview, questions, OutVars>>

ClearInputPreview ==
    /\ out.pc = "clear"
    /\ preview' = NoPreview /\ questions' = EmptyBag /\ previewing' = FALSE
    /\ OutGoto("active")
    /\ UNCHANGED <<speaking, audio, staged, OutVars>>

\* completeTurnReturnOrClose: ClearTurn
ReturnActive ==
    /\ out.pc = "active"
    /\ speaking' = FALSE /\ audio' = 0
    /\ out' = NoOutput
    /\ UNCHANGED <<previewing, staged, preview, questions, OutVars>>

OutputIdle ==
    /\ out.pc = "idle"
    /\ speaking' = FALSE
    /\ OutGoto("flush")
    /\ UNCHANGED <<audio, previewing, staged, preview, questions, OutVars>>

OutputFlushes ==
    /\ out.pc = "flush"
    /\ IF out.keepPending THEN audio' = audio + staged /\ staged' = 0
       ELSE UNCHANGED <<audio, staged>>
    /\ previewing' = (previewing \/ out.keepPreview)
    /\ out' = NoOutput
    /\ UNCHANGED <<speaking, preview, questions, OutVars>>

-----------------------------------------------------------------------------

Push ==
    \/ \E elapsed \in {0, SlowPushMs}, r \in Replies :
          PushInputPreviewAudio(elapsed, r.text, r.hint)
    \/ PushFails
    \/ PushEnds

MainStep ==
    \/ AcceptFrame \/ EnsureInputPreview \/ Push \/ JudgeFrame
    \/ InterruptOutput \/ FlushStaged \/ \E plays \in BOOLEAN : Respond(plays)

OutStep ==
    \/ PlaybackEnds \/ LookForStaged \/ DropStaged \/ ClearInputPreview \/ ReturnActive
    \/ OutputIdle \/ OutputFlushes

Next ==
    \/ \E n \in 1 .. MaxChunks : Frame(n)
    \/ MainStep \/ Tick \/ ClientCommit
    \/ Answer
    \/ OutStep

Spec == Init /\ [][Next]_vars
-----------------------------------------------------------------------------
(* Properties.                                                              *)

\* The shape of the state: audio is counted in chunks, what is in the turn and what
\* is staged are no more than what arrived, and the read loop and the output
\* goroutine are at a step of theirs.
TypeOK ==
    /\ {speaking, previewing, preview.open} \subseteq BOOLEAN
    /\ {audio, staged, preview.detector.audio} \subseteq
          {n * ChunkMs : n \in 0 .. MaxFrames * MaxChunks}
    /\ audio + staged <= frames * MaxChunks * ChunkMs
    /\ preview.detector.silence \in Never .. MaxWaitMs
    /\ preview.detector.stableAge \in Never .. DraftStableForMs
    /\ \A q \in BagToSet(questions) : q.to \in {"judge", "slots"}
    /\ main.pc \in {"idle", "accept", "ensure", "push", "judge", "interrupt", "flush", "respond"}
    /\ out.pc \in {"none", "play", "look", "idle", "flush", "drop", "clear", "active"}
    /\ frames \in 0 .. MaxFrames

\* The server ends a turn (handleServerEndpointTick) only in the silence that the
\* detector asks for after the wording it has, and with enough audio: never because of
\* a suggestion that was made before the user went on speaking.
TurnEndsInSilence ==
    main.pc = "respond" /\ main.heard.commitSuggested =>
        LET a == main.heard.arbitration
        IN  /\ main.heard.partial # <<>>
            /\ a.audio >= config.minAudio
            /\ a.silence >= clampInt(a.baseWait + a.ruleAdjust + a.punctuationAdjust,
                                     MinWaitMs, MaxWaitMs)

\* An adviser's answer counts only for the wording it was asked about, however late
\* it arrives and whatever was asked meanwhile (mergedSemanticSnapshot,
\* mergedSlotSnapshot).
AdviceIsCurrent ==
    \A seen \in {Observe(preview).snapshot} :
        /\ seen.arbitration.semanticReady => preview.judge.asked = KeyOf(seen)
        /\ seen.arbitration.slotReady => preview.slots.asked = KeyOf(seen)

\* An adviser marked as evaluating has that question in flight: no wording is left
\* waiting for an answer that nobody is going to give (shouldLaunch).
EvaluatingIsBacked ==
    /\ preview.judge.evaluating =>
          BagIn([to |-> "judge", key |-> preview.judge.lastRequestedKey], questions)
    /\ preview.slots.evaluating =>
          BagIn([to |-> "slots", key |-> preview.slots.lastRequestedKey], questions)

\* Sound without words lowers the playback and never stops it: no amount of staged
\* audio interrupts by itself (EvaluateBargeIn's intrusion score).
SoundAloneNeverInterrupts ==
    main.pc = "interrupt" => main.heard.partial # <<>>

\* More audio of the same words never takes an interruption back.
InterruptIsMonotone ==
    main.pc = "judge" =>
        LET p(more) == [pendingBargeInPreview(main.heard) EXCEPT !.audio = @ + more]
        IN  \A n \in 1 .. 10 : EvaluateBargeIn(p(0)) = "hard_interrupt" =>
                                  EvaluateBargeIn(p(n * ChunkMs)) = "hard_interrupt"

\* Silence after enough words is noticed, whatever the wording and the advisers say:
\* the poll that finds it MaxWaitMs long suggests the end of the turn, at the latest
\* (recomputeTurnArbitration).
SilenceIsNoticed ==
    [][ /\ main.pc = "idle" /\ ~ speaking /\ preview.open /\ preview'.open
        /\ preview.detector.partial # <<>> /\ preview.detector.audio >= config.minAudio
        /\ preview.detector.silence < MaxWaitMs /\ preview'.detector.silence = MaxWaitMs
        => preview'.detector.commitSuggested ]_vars

\* What the configuration guide says: staged interrupt audio reaches the configured
\* minimum before a complete preview is accepted as an interruption.
CompleteBargeInWaits ==
    main.pc = "interrupt" /\ ~ semanticIntentIsTakeover(main.heard.arbitration.semanticIntent) =>
        main.heard.audio >= bargeInConfig.minAudio

\* What the protocol promises with server endpointing on: a turn that the preview
\* suggests to end is ended.  A suggestion once reported is not reported again, so the
\* read loop has to take it before it waits for the next message.
SuggestionIsTaken ==
    main.pc = "idle" /\ ~ speaking => ~ preview.lastCommitLogged
=============================================================================
