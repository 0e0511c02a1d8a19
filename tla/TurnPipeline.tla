------------------------------ MODULE TurnPipeline ------------------------------
(***************************************************************************)
(* One turn, from the accepted request to the end of its playback, as the  *)
(* goroutines run it:                                                      *)
(*   - the responder goroutine (voice/asr_responder.go), which streams text *)
(*     deltas to the gateway and cuts them into clauses for the planner;   *)
(*   - the speech planner's worker and its audio-start publisher           *)
(*     (voice/speech_planner.go);                                          *)
(*   - the two waiters on the turn's future and the select loop of         *)
(*     executeOrchestratedTurnResponse (gateway/turn_flow.go);             *)
(*   - the output goroutine that plays the audio (gateway/realtime_ws.go,  *)
(*     startAudioStream).                                                  *)
(* The future is the one of module TurnResponseFuture, with one caller of  *)
(* each kind.                                                              *)
(*                                                                         *)
(* Data: delta i is the number i; a clause is the sequence of the text     *)
(* deltas it was cut from; the response's text is the sequence of all its  *)
(* text deltas.                                                            *)
(***************************************************************************)
EXTENDS Naturals, Sequences, FiniteSets, SequencesExt

CONSTANTS
    NumDeltas,      \* deltas the executor emits in the turn
    DeltaCap,       \* buffer of deltaCh (8 in the code)
    QueueCap,       \* buffer of the planner's clause queue (4 in the code)
    EarlyAudio,     \* the gateway passes StartResponseAudio: realtime does,
                    \* the xiaozhi adapter does not
    Faults          \* executor and synthesis errors, broken connections and
                    \* interruptions may happen

ASSUME BoundsAssumption ==
    /\ NumDeltas \in Nat
    /\ DeltaCap \in Nat \ {0}
    /\ QueueCap \in Nat \ {0}
    /\ EarlyAudio \in BOOLEAN /\ Faults \in BOOLEAN

Deltas == 1 .. NumDeltas
ResponseStart == 0  \* the response.start event in what the client was sent
ResultsCap == 1     \* buffer of queuedSpeechAudioStream.results

VARIABLES
    spoken,         \* the deltas that carry text (the others are tool deltas)
    exec,           \* the responder goroutine
    start,          \* the planner's startOnce: "unset", "started", "silent"
    queue, queueClosed,         \* the planner's clause queue
    worker,                     \* the planner's worker goroutine
    results, resultsClosed,     \* synthesized clauses ready to play
    streamClosed,   \* queuedSpeechAudioStream.Close was called
    publisher,      \* the goroutine that publishes the audio start
    ctxDone,        \* streamCtx is cancelled
    deltaCh, deltaClosed,       \* deltas on their way to the gateway
    future, result,             \* the turn's future and its callers
    gw,             \* the gateway's select loop
    sent,           \* what the client was sent: response.start, text deltas
    playback,       \* the output goroutine
    played,         \* the text whose audio was played
    skipped,        \* history: the text whose synthesis failed
    panicked        \* a send on the closed deltaCh killed the process

plannerVars == <<start, queue, queueClosed, worker, results, resultsClosed, streamClosed>>
futureVars  == <<future, result>>
clientVars  == <<sent, played, skipped>>
vars == <<spoken, exec, plannerVars, publisher, ctxDone, deltaCh, deltaClosed,
          futureVars, gw, clientVars, playback, panicked>>

F == INSTANCE TurnResponseFuture WITH
    Waiters <- {"wait"},
    AudioWaiters <- IF EarlyAudio THEN {"audio"} ELSE {},
    cancelled <- ctxDone

-----------------------------------------------------------------------------
\* The members of a set of deltas in the order they were emitted.
InOrder(S) ==
    [k \in 1 .. Cardinality(S) |-> CHOOSE d \in S : Cardinality({e \in S : e < d}) = k - 1]

ResponseText == InOrder(spoken)

\* The worker's context is a child of the turn's, cancelled by the stream's Close.
WorkerCtxDone == ctxDone \/ streamClosed

\* startOnce: the first caller decides.
ResolveStart(outcome) == IF start = "unset" THEN outcome ELSE start

TypeOK ==
    /\ spoken \subseteq Deltas
    /\ exec \in [pc : {"emit", "observe", "enqueue", "flush", "close", "abort",
                       "resolve", "done"},
                 next : 1 .. NumDeltas + 1,
                 pending : Seq(Deltas), clause : Seq(Deltas),
                 audio : F!Audio, failed : BOOLEAN]
    /\ start \in {"unset", "started", "silent"}
    /\ queue \in Seq(Seq(Deltas)) /\ Len(queue) <= QueueCap
    /\ queueClosed \in BOOLEAN
    /\ worker \in [pc : {"take", "put", "done"}, clause : Seq(Deltas)]
    /\ results \in Seq(Seq(Deltas)) /\ Len(results) <= ResultsCap
    /\ resultsClosed \in BOOLEAN /\ streamClosed \in BOOLEAN
    /\ publisher \in {"wait", "done"}
    /\ ctxDone \in BOOLEAN
    /\ deltaCh \in Seq(Deltas) /\ Len(deltaCh) <= DeltaCap
    /\ deltaClosed \in BOOLEAN
    /\ future \in F!Futures
    /\ result \in [F!Callers -> F!Results]
    /\ gw \in [pc : {"select", "ok", "failed", "interrupted", "terminated"},
               gotResponse : BOOLEAN, gotAudio : BOOLEAN, deltaNil : BOOLEAN,
               sentStart : BOOLEAN, transferred : BOOLEAN, audio : F!Audio,
               completion : {"none", "open", "resolved"}]
    /\ sent \in Seq(Deltas \cup {ResponseStart})
    /\ playback \in [pc : {"off", "play", "await", "closed"}, source : F!Audio,
                     cancelled : BOOLEAN, starts : Nat, finished : BOOLEAN]
    /\ played \in Seq(Deltas)
    /\ skipped \subseteq Deltas
    /\ panicked \in BOOLEAN

Init ==
    /\ spoken \in SUBSET Deltas
    /\ exec = [pc |-> "emit", next |-> 1, pending |-> <<>>, clause |-> <<>>,
               audio |-> "none", failed |-> FALSE]
    /\ start = "unset"
    /\ queue = <<>> /\ queueClosed = FALSE
    /\ worker = [pc |-> "take", clause |-> <<>>]
    /\ results = <<>> /\ resultsClosed = FALSE /\ streamClosed = FALSE
    /\ publisher = "wait"
    /\ ctxDone = FALSE
    /\ deltaCh = <<>> /\ deltaClosed = FALSE
    /\ future = F!NewFuture
    /\ result = [c \in F!Callers |-> F!Pending]
    /\ gw = [pc |-> "select", gotResponse |-> FALSE, gotAudio |-> ~EarlyAudio,
             deltaNil |-> FALSE, sentStart |-> FALSE, transferred |-> FALSE,
             audio |-> "none", completion |-> "none"]
    /\ sent = <<>>
    /\ playback = [pc |-> "off", source |-> "none", cancelled |-> FALSE,
                   starts |-> 0, finished |-> FALSE]
    /\ played = <<>> /\ skipped = {}
    /\ panicked = FALSE

-----------------------------------------------------------------------------
(* The responder goroutine *)

\* The gateway's sink: select { case <-ctx.Done() ; case deltaCh <- delta }.
ExecEmit ==
    /\ exec.pc = "emit" /\ exec.next <= NumDeltas
    /\ ~deltaClosed /\ Len(deltaCh) < DeltaCap
    /\ deltaCh' = Append(deltaCh, exec.next)
    /\ exec' = [exec EXCEPT !.pc = "observe"]
    /\ UNCHANGED <<spoken, plannerVars, publisher, ctxDone, deltaClosed,
                   futureVars, gw, clientVars, playback, panicked>>

\* The waiter closes deltaCh without knowing whether the executor still sends:
\* the select may choose the closed send, which panics.
ExecPanic ==
    /\ exec.pc = "emit" /\ exec.next <= NumDeltas
    /\ deltaClosed
    /\ panicked' = TRUE
    /\ UNCHANGED <<spoken, exec, plannerVars, publisher, ctxDone, deltaCh, deltaClosed,
                   futureVars, gw, clientVars, playback>>

\* The sink or the executor itself returns an error.
ExecFail ==
    /\ exec.pc = "emit"
    /\ ctxDone \/ Faults
    /\ exec' = [exec EXCEPT !.pc = "abort", !.failed = TRUE]
    /\ UNCHANGED <<spoken, plannerVars, publisher, ctxDone, deltaCh, deltaClosed,
                   futureVars, gw, clientVars, playback, panicked>>

\* ObserveDelta: a text delta may complete a clause, which is announced
\* (resolveStart) before it is queued.
ExecObserve ==
    /\ exec.pc = "observe"
    /\ LET text == IF exec.next \in spoken THEN Append(exec.pending, exec.next)
                                           ELSE exec.pending
       IN  \/ /\ exec' = [exec EXCEPT !.pc = "emit", !.next = @ + 1, !.pending = text]
              /\ UNCHANGED start
           \/ /\ exec.next \in spoken
              /\ exec' = [exec EXCEPT !.pc = "enqueue", !.next = @ + 1,
                                      !.pending = <<>>, !.clause = text]
              /\ start' = ResolveStart("started")
    /\ UNCHANGED <<spoken, queue, queueClosed, worker, results, resultsClosed, streamClosed,
                   publisher, ctxDone, deltaCh, deltaClosed, futureVars, gw, clientVars,
                   playback, panicked>>

HasRoom(q) == Len(q) < QueueCap

\* enqueueClause: select { case <-workerCtx.Done() ; case queue <- clause }.
ExecEnqueue ==
    /\ exec.pc \in {"enqueue", "flush"}
    /\ \/ WorkerCtxDone /\ UNCHANGED queue
       \/ HasRoom(queue) /\ queue' = Append(queue, exec.clause)
    /\ exec' = [exec EXCEPT !.pc = IF exec.pc = "enqueue" THEN "emit" ELSE "close",
                            !.clause = <<>>]
    /\ UNCHANGED <<spoken, start, queueClosed, worker, results, resultsClosed, streamClosed,
                   publisher, ctxDone, deltaCh, deltaClosed, futureVars, gw, clientVars,
                   playback, panicked>>

\* Finalize flushes the text that is not in a clause yet ...
ExecFinalize ==
    /\ exec.pc = "emit" /\ exec.next = NumDeltas + 1
    /\ IF exec.pending = <<>>
       THEN /\ exec' = [exec EXCEPT !.pc = "close"]
            /\ UNCHANGED start
       ELSE /\ exec' = [exec EXCEPT !.pc = "flush", !.clause = exec.pending,
                                    !.pending = <<>>]
            /\ start' = ResolveStart("started")
    /\ UNCHANGED <<spoken, queue, queueClosed, worker, results, resultsClosed, streamClosed,
                   publisher, ctxDone, deltaCh, deltaClosed, futureVars, gw, clientVars,
                   playback, panicked>>

\* Mutant: a turn that is being spoken is synthesized whole once more.
FinalAudioAgain == {"early", "final"}

\* The audio of the response: the planner's stream once there is a clause.
FinalAudio == IF spoken # {} THEN {"early"} ELSE {"none", "final"}

\* ... closes the queue and returns the planner's stream; without any clause
\* the stream is closed and the response's audio, if any, is synthesized whole.
ExecClose ==
    /\ exec.pc = "close"
    /\ queueClosed' = TRUE
    /\ start' = ResolveStart("silent")
    /\ \E audio \in FinalAudio : exec' = [exec EXCEPT !.pc = "resolve", !.audio = audio]
    /\ IF spoken # {}
       THEN UNCHANGED <<streamClosed, results>>
       ELSE streamClosed' = TRUE /\ results' = <<>>
    /\ UNCHANGED <<spoken, queue, worker, resultsClosed, publisher, ctxDone, deltaCh,
                   deltaClosed, futureVars, gw, clientVars, playback, panicked>>

\* planner.Close() on an executor error.
ExecAbort ==
    /\ exec.pc = "abort"
    /\ queueClosed' = TRUE
    /\ start' = ResolveStart("silent")
    /\ streamClosed' = TRUE
    /\ results' = <<>>
    /\ exec' = [exec EXCEPT !.pc = "resolve"]
    /\ UNCHANGED <<spoken, queue, worker, resultsClosed, publisher, ctxDone, deltaCh,
                   deltaClosed, futureVars, gw, clientVars, playback, panicked>>

ExecResolve ==
    /\ exec.pc = "resolve"
    /\ future' = F!Resolve(future, [audio |-> exec.audio, transferred |-> FALSE],
                           exec.failed)
    /\ exec' = [exec EXCEPT !.pc = "done"]
    /\ UNCHANGED <<spoken, plannerVars, publisher, ctxDone, deltaCh, deltaClosed, result,
                   gw, clientVars, playback, panicked>>

-----------------------------------------------------------------------------
(* The planner's worker and the goroutine that publishes its start *)

\* A clause whose synthesis fails is skipped.
WorkerTake ==
    /\ worker.pc = "take" /\ queue # <<>>
    /\ queue' = Tail(queue)
    /\ \/ /\ worker' = [pc |-> "put", clause |-> Head(queue)]
          /\ UNCHANGED skipped
       \/ /\ Faults
          /\ skipped' = skipped \cup ToSet(Head(queue))
          /\ UNCHANGED worker
    /\ UNCHANGED <<spoken, exec, start, queueClosed, results, resultsClosed, streamClosed,
                   publisher, ctxDone, deltaCh, deltaClosed, futureVars, gw, sent, played,
                   playback, panicked>>

WorkerPut ==
    /\ worker.pc = "put" /\ Len(results) < ResultsCap
    /\ results' = Append(results, worker.clause)
    /\ worker' = [pc |-> "take", clause |-> <<>>]
    /\ UNCHANGED <<spoken, exec, start, queue, queueClosed, resultsClosed, streamClosed,
                   publisher, ctxDone, deltaCh, deltaClosed, futureVars, gw, clientVars,
                   playback, panicked>>

WorkerExit ==
    /\ \/ worker.pc \in {"take", "put"} /\ WorkerCtxDone
       \/ worker.pc = "take" /\ queue = <<>> /\ queueClosed
    /\ worker' = [pc |-> "done", clause |-> <<>>]
    /\ resultsClosed' = TRUE
    /\ UNCHANGED <<spoken, exec, start, queue, queueClosed, results, streamClosed,
                   publisher, ctxDone, deltaCh, deltaClosed, futureVars, gw, clientVars,
                   playback, panicked>>

PublishStart ==
    /\ publisher = "wait"
    /\ \/ start = "started" /\ future' = F!PublishAudioStart(future, "early")
       \/ (start = "silent" \/ ctxDone) /\ UNCHANGED future
    /\ publisher' = "done"
    /\ UNCHANGED <<spoken, exec, plannerVars, ctxDone, deltaCh, deltaClosed, result, gw,
                   clientVars, playback, panicked>>

-----------------------------------------------------------------------------
(* The two waiters *)

WaiterReturns ==
    /\ F!Wait("wait") \/ F!ReturnCtxErr("wait")
    /\ UNCHANGED <<spoken, exec, plannerVars, publisher, deltaCh, deltaClosed, gw,
                   clientVars, playback, panicked>>

WaiterDone == result["wait"] # F!Pending

WaiterCloses ==
    /\ WaiterDone /\ ~deltaClosed
    /\ deltaClosed' = TRUE
    /\ UNCHANGED <<spoken, exec, plannerVars, publisher, ctxDone, deltaCh, futureVars, gw,
                   clientVars, playback, panicked>>

AudioWaiterReturns ==
    /\ EarlyAudio
    /\ F!WaitAudioStart("audio") \/ F!ReturnCtxErr("audio")
    /\ UNCHANGED <<spoken, exec, plannerVars, publisher, deltaCh, deltaClosed, gw,
                   clientVars, playback, panicked>>

-----------------------------------------------------------------------------
(* The gateway's select loop *)

\* EmitResponseStart, unless it has been sent already.
StartEvent == IF gw.sentStart THEN <<>> ELSE <<ResponseStart>>

\* Any emission may fail when the connection is gone: cancel() and return.
GatewayFails(seen) ==
    /\ gw' = [seen EXCEPT !.pc = "failed"]
    /\ ctxDone' = TRUE
    /\ UNCHANGED <<sent, playback>>

StartPlayback(source) ==
    playback' = [playback EXCEPT !.pc = "play", !.source = source, !.starts = @ + 1]

GatewayDelta ==
    /\ gw.pc = "select" /\ ~gw.deltaNil /\ deltaCh # <<>>
    /\ deltaCh' = Tail(deltaCh)
    /\ LET text == IF Head(deltaCh) \in spoken THEN <<Head(deltaCh)>> ELSE <<>>
       IN  \/ /\ sent' = sent \o StartEvent \o text
              /\ gw' = [gw EXCEPT !.sentStart = TRUE]
              /\ UNCHANGED <<ctxDone, playback>>
           \/ Faults /\ GatewayFails(gw)
    /\ UNCHANGED <<spoken, exec, plannerVars, publisher, deltaClosed, futureVars, played,
                   skipped, panicked>>

GatewayDeltaClosed ==
    /\ gw.pc = "select" /\ ~gw.deltaNil /\ deltaCh = <<>> /\ deltaClosed
    /\ gw' = [gw EXCEPT !.deltaNil = TRUE]
    /\ UNCHANGED <<spoken, exec, plannerVars, publisher, ctxDone, deltaCh, deltaClosed,
                   futureVars, clientVars, playback, panicked>>

GatewayAudio ==
    /\ gw.pc = "select" /\ ~gw.gotAudio /\ result["audio"] # F!Pending
    /\ LET start_ == result["audio"]
           seen   == [gw EXCEPT !.gotAudio = TRUE]
       IN  \/ start_.kind # "ok" /\ GatewayFails(seen)
           \/ /\ start_.kind = "ok" /\ start_.audio = "none"
              /\ gw' = seen
              /\ UNCHANGED <<ctxDone, sent, playback>>
           \/ /\ start_.kind = "ok" /\ start_.audio # "none"
              /\ sent' = sent \o StartEvent
              /\ StartPlayback(start_.audio)
              /\ gw' = [seen EXCEPT !.sentStart = TRUE, !.audio = "none",
                            !.transferred = @ \/ gw.audio # "none",
                            !.completion = IF gw.gotResponse THEN "resolved" ELSE "open"]
              /\ UNCHANGED ctxDone
           \/ /\ start_.kind = "ok" /\ start_.audio # "none"
              /\ Faults /\ GatewayFails(seen)
    /\ UNCHANGED <<spoken, exec, plannerVars, publisher, deltaCh, deltaClosed, futureVars,
                   played, skipped, panicked>>

\* Mutant: the gateway expects all audio to come early.
KeptAudioNever(response) == "none"

\* A stream that came with the response is dropped if one is playing already;
\* the playback under way learns the outcome of the turn.
KeptAudio(response) == IF gw.completion # "none" THEN "none" ELSE response.audio
SettledCompletion(completion) == IF completion = "none" THEN "none" ELSE "resolved"

\* The response arrives.  When nothing has been sent yet its whole text goes out
\* as one delta.
GatewayResponse ==
    /\ gw.pc = "select" /\ ~gw.gotResponse /\ result["wait"] # F!Pending
    /\ LET response == result["wait"]
           seen     == [gw EXCEPT !.gotResponse = TRUE]
           fallback == IF gw.sentStart THEN <<>> ELSE <<ResponseStart>> \o ResponseText
       IN  \/ response.kind # "ok" /\ GatewayFails(seen)
           \/ /\ response.kind = "ok"
              /\ sent' = sent \o fallback
              /\ gw' = [seen EXCEPT
                    !.sentStart = TRUE,
                    !.audio = KeptAudio(response),
                    !.transferred = response.transferred
                                    \/ (gw.completion # "none" /\ response.audio # "none"),
                    !.completion = SettledCompletion(@)]
              /\ UNCHANGED <<ctxDone, playback>>
           \/ /\ response.kind = "ok" /\ ~gw.sentStart
              /\ Faults /\ GatewayFails(seen)
    /\ UNCHANGED <<spoken, exec, plannerVars, publisher, deltaCh, deltaClosed, futureVars,
                   played, skipped, panicked>>

\* Mutant: the loop does not drain the deltas.
LoopDoneEarly == gw.gotResponse /\ gw.gotAudio

LoopDone == gw.gotResponse /\ gw.gotAudio /\ gw.deltaNil

\* The loop ends; finalizeTurnResponse plays a stream that came with the response.
GatewayReturns ==
    /\ gw.pc = "select" /\ LoopDone
    /\ gw' = [gw EXCEPT !.pc = "ok",
                        !.completion = IF gw.audio # "none" THEN "resolved" ELSE @]
    /\ IF gw.audio # "none" THEN StartPlayback(gw.audio) ELSE UNCHANGED playback
    /\ ctxDone' = (ctxDone \/ (gw.audio = "none" /\ ~gw.transferred))
    /\ UNCHANGED <<spoken, exec, plannerVars, publisher, deltaCh, deltaClosed, futureVars,
                   clientVars, panicked>>

\* After a failure emitTurnResponse interrupts the output; after a success the
\* connection's read loop may, on a barge-in.
GatewayInterrupts ==
    /\ \/ gw.pc = "failed"
       \/ gw.pc = "ok" /\ Faults
    /\ gw' = [gw EXCEPT !.pc = IF @ = "ok" THEN "interrupted" ELSE "terminated"]
    /\ playback' = [playback EXCEPT !.cancelled = TRUE]
    /\ UNCHANGED <<spoken, exec, plannerVars, publisher, ctxDone, deltaCh, deltaClosed,
                   futureVars, clientVars, panicked>>

-----------------------------------------------------------------------------
(* The output goroutine *)

\* cancelOnCloseAudioStream.Close around queuedSpeechAudioStream.Close.
ClosePlayback(finished) ==
    /\ playback' = [playback EXCEPT !.pc = "closed", !.finished = finished]
    /\ streamClosed' = TRUE
    /\ results' = <<>>
    /\ ctxDone' = TRUE

\* Mutant: the clause is played and stays in the channel.
AfterPlay(taken) == results

RestOfResults(taken) == Tail(taken)

PlayClause ==
    /\ playback.pc = "play" /\ playback.source = "early" /\ results # <<>>
    /\ played' = played \o Head(results)
    /\ results' = RestOfResults(results)
    /\ UNCHANGED <<spoken, exec, start, queue, queueClosed, worker, resultsClosed,
                   streamClosed, publisher, ctxDone, deltaCh, deltaClosed, futureVars, gw,
                   sent, skipped, playback, panicked>>

\* Mutant: nothing to play at the moment counts as the end.
EndOfStreamEmpty == results = <<>>

EndOfStream == results = <<>> /\ resultsClosed

\* End of stream: every result was taken and the worker has closed the channel.
PlayEOF ==
    /\ playback.pc = "play"
    /\ \/ /\ playback.source = "early" /\ EndOfStream
          /\ UNCHANGED played
       \/ /\ playback.source = "final"
          /\ played' = ResponseText
    /\ playback' = [playback EXCEPT !.pc = "await"]
    /\ UNCHANGED <<spoken, exec, plannerVars, publisher, ctxDone, deltaCh, deltaClosed,
                   futureVars, gw, sent, skipped, panicked>>

\* stream.completion.Wait(streamCtx), then the deferred Close.
PlayComplete ==
    /\ playback.pc = "await" /\ gw.completion = "resolved"
    /\ ClosePlayback(TRUE)
    /\ UNCHANGED <<spoken, exec, start, queue, queueClosed, worker, resultsClosed, publisher,
                   deltaCh, deltaClosed, futureVars, gw, clientVars, panicked>>

\* The playback is interrupted, or a frame cannot be written or synthesized.
PlayStops ==
    /\ \/ playback.pc \in {"play", "await"} /\ playback.cancelled
       \/ playback.pc = "play" /\ Faults
    /\ ClosePlayback(FALSE)
    /\ UNCHANGED <<spoken, exec, start, queue, queueClosed, worker, resultsClosed, publisher,
                   deltaCh, deltaClosed, futureVars, gw, clientVars, panicked>>

-----------------------------------------------------------------------------
ExecStep     == \/ ExecEmit \/ ExecPanic \/ ExecFail \/ ExecObserve \/ ExecEnqueue
                \/ ExecFinalize \/ ExecClose \/ ExecAbort \/ ExecResolve
WorkerStep   == WorkerTake \/ WorkerPut \/ WorkerExit
WaiterStep   == WaiterReturns \/ WaiterCloses
GatewayStep  == \/ GatewayDelta \/ GatewayDeltaClosed \/ GatewayAudio \/ GatewayResponse
                \/ GatewayReturns
PlaybackStep == PlayClause \/ PlayEOF \/ PlayComplete \/ PlayStops

Next ==
    /\ ~panicked
    /\ \/ ExecStep
       \/ WorkerStep
       \/ PublishStart
       \/ WaiterStep
       \/ AudioWaiterReturns
       \/ GatewayStep
       \/ GatewayInterrupts
       \/ PlaybackStep

Spec == Init /\ [][Next]_vars

\* The Go scheduler runs every goroutine that can take a step, and the executor,
\* the synthesizer and the connection answer or fail.  A barge-in need not come.
Fairness ==
    /\ WF_vars(~panicked /\ ExecStep)
    /\ WF_vars(~panicked /\ WorkerStep)
    /\ WF_vars(~panicked /\ PublishStart)
    /\ WF_vars(~panicked /\ WaiterStep)
    /\ WF_vars(~panicked /\ AudioWaiterReturns)
    /\ WF_vars(~panicked /\ GatewayStep)
    /\ WF_vars(~panicked /\ gw.pc = "failed" /\ GatewayInterrupts)
    /\ WF_vars(~panicked /\ PlaybackStep)

FairSpec == Spec /\ Fairness

-----------------------------------------------------------------------------
Answered == gw.pc = "ok"

(* The turn's audio is played once: never twice, whichever of the two ways  *)
(* out it takes, and when the gateway returns normally a turn that has      *)
(* audio has started it (contracts.go: "must not be started again").        *)
AudioPlayedOnce ==
    /\ playback.starts <= 1
    /\ Answered => (playback.starts = 1 <=> future.response.audio # "none")

(* No text is lost on the way to the client: when the gateway returns       *)
(* normally the client has been sent the whole response text, in order, as  *)
(* its last deltas.                                                         *)
TextDelivered == Answered => IsSuffix(ResponseText, sent)

(* The client is sent the response's text and nothing else                  *)
(* (turn_flow_test.go:345 expects the delivered text to be exactly it).     *)
TextDeliveredOnce == Answered => sent = <<ResponseStart>> \o ResponseText

(* Clauses are played in the order of the text, each at most once, however  *)
(* the queue, the worker and the cancellation interleave.                   *)
PlayedInOrder == \A i, j \in 1 .. Len(played) : i < j => played[i] < played[j]

(* A playback that ends normally and reports the turn complete has played   *)
(* the whole response, but for clauses whose synthesis failed: a worker     *)
(* that was cancelled also closes its results, which the output goroutine   *)
(* takes for the end of the stream.  (When the gateway fails after the      *)
(* response arrived, that is what happens: the session then ends.)          *)
FinishedMeansAllPlayed ==
    playback.finished /\ gw.pc \notin {"failed", "terminated"}
        => played = InOrder(spoken \ skipped)

(* The server survives the turn (the gateway tests assertNoServerPanic).    *)
NoServerPanic == ~panicked

(* Every goroutine of the turn ends, with or without faults: nobody is left *)
(* blocked on a channel.                                                    *)
Settled ==
    /\ exec.pc = "done" /\ worker.pc = "done" /\ publisher = "done"
    /\ deltaClosed /\ gw.pc # "select"
    /\ playback.pc \in {"off", "closed"}
TurnSettles == <>(Settled \/ panicked)

(* Whatever the turn does to its future is a behaviour of the future's own  *)
(* specification.                                                           *)
FutureSpec == F!Spec
=============================================================================
