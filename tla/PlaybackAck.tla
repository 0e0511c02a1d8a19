----------------------------- MODULE PlaybackAck -----------------------------
(***************************************************************************)
(* Playback and its acknowledgement on a native realtime connection: the   *)
(* output goroutine announces segments (audio.out.meta) and plays them,    *)
(* the read loop receives the client's acks (audio.out.started, mark,      *)
(* cleared, completed) and interrupts, and both report to the record of    *)
(* module PlaybackRecord and share the playback-ack state                  *)
(* (internal/gateway/voice_collaboration.go, realtime_ws.go).              *)
(*                                                                         *)
(* Turn n plays playback n.  Its answer has Segments segments, its         *)
(* clauses; TextAfter gives the length of the text up to the end of each,  *)
(* in the form of the response and in the form announced, DurationAfter    *)
(* the duration.                                                           *)
(* The client may send any ack of any playback at any time: late,          *)
(* repeated, out of order.  The session core is reduced to whether it      *)
(* says speaking; how it gets there is module RealtimeGateway, whose       *)
(* assumption PromptExit holds here: an interruption waits until the       *)
(* cancelled goroutine has ended.                                          *)
(***************************************************************************)
EXTENDS PlaybackRecord

CONSTANTS
    MaxTurns,                   \* bound: turns of the connection
    MaxPlaybacks,               \* bound: the turns answered with audio, the first ones
    Segments,                   \* segments of an answer
    TextAfter, DurationAfter,   \* text and duration to the end of segment k
    Marks,                      \* the durations a client reports in a mark
    Faults,                     \* synthesis and writes may fail
    SoftPolicies                \* the soft barge-in decisions that are taken

ASSUME AckAssumption ==
    /\ MaxTurns \in Nat /\ MaxPlaybacks \in Nat /\ Segments \in Nat \ {0}
    /\ Turns = 1 .. MaxTurns /\ NoTurn = 0
    /\ TextAfter \in [Forms -> [0 .. Segments -> Nat]]
    /\ \A f \in Forms : /\ TextAfter[f][0] = 0
                        /\ \A k \in 0 .. Segments :
                             [form |-> f, runes |-> TextAfter[f][k]] \in Texts
                        /\ \A k \in 1 .. Segments : TextAfter[f][k - 1] < TextAfter[f][k]
    /\ DurationAfter \in [0 .. Segments -> Durations] /\ DurationAfter[0] = 0
    /\ \A k \in 1 .. Segments : DurationAfter[k - 1] < DurationAfter[k]
    /\ Marks \subseteq Nat /\ Faults \in BOOLEAN
    /\ SoftPolicies \subseteq {"backchannel", "duck_only"}

VARIABLES
    ackOn,      \* collaboration.PlaybackAckEnabled(), negotiated at session.start
    speaking,   \* the session's output lane says speaking
    cur,        \* the current turn
    output,     \* runtime.output
    ack,        \* runtime.playbackAckState
    loop,       \* the read loop: where it is, and its locals
    out,        \* the output goroutine of each playback
    settled,    \* the playbacks whose completion future is resolved
    broken,     \* a write on the connection failed
    acked       \* history: for each playback, whether a completed ack was taken, and
                \* after which announced segment the client cleared it first

playVars == <<ackOn, speaking, cur, output, ack, loop, out, settled, broken, acked>>
vars == <<recordVars, playVars>>

\* A segment's meta: its playback, its index (0: none announced yet) and whether
\* it stands for the whole stream, as for a stream that is not segmented.
Metas == [playback : Turns \cup {NoTurn}, seg : 0 .. Segments, whole : BOOLEAN]
NoMeta == [playback |-> NoTurn, seg |-> 0, whole |-> FALSE]

\* waits: the playback whose waitCh is installed
AckStates == [meta : Metas, terminal : {"none", "cleared", "completed"},
              waits : Turns \cup {NoTurn}]
NoAck == [meta |-> NoMeta, terminal |-> "none", waits |-> NoTurn]

\* cont: where an interruption continues; collected: the text deltas received;
\* early: audio was started before the response settled; kind, seg, ms: the ack
\* being handled; known: the segment it names had been announced; meta: what
\* syncAnnouncedPlaybackContext read; total, heard: what the ack amounts to.
LoopPCs == {"loop", "closed", "begin", "respond", "settled", "finalize",
            "interrupt", "wait", "record", "idle",
            "sync", "update", "fact", "observe"}
Loops ==
    [pc : LoopPCs, cont : LoopPCs, collected : 0 .. Segments, early : BOOLEAN,
     kind : {"none", "started", "mark", "cleared", "completed"},
     seg : 0 .. Segments, ms : Marks \cup {0}, known : BOOLEAN, meta : Metas,
     total : Nat, heard : TextRecs]
AtLoop == [pc |-> "loop", cont |-> "loop", collected |-> 0, early |-> FALSE,
           kind |-> "none", seg |-> 0, ms |-> 0, known |-> FALSE, meta |-> NoMeta,
           total |-> 0, heard |-> NoText]
Goto(pc) == [loop EXCEPT !.pc = pc]
Back(pc) == [AtLoop EXCEPT !.pc = pc]

OutPCs == {"none", "next", "sync", "update", "play", "check", "ack", "select",
           "verdict", "await", "return", "tidy", "exit", "done"}
OutRecs == [pc : OutPCs, cancelled : BOOLEAN, woken : BOOLEAN, seg : 0 .. Segments,
            whole : BOOLEAN, meta : Metas, verdict : {"none", "cleared", "completed"}]
NoOut == [pc |-> "none", cancelled |-> FALSE, woken |-> FALSE, seg |-> 0,
          whole |-> FALSE, meta |-> NoMeta, verdict |-> "none"]

TypeOK ==
    /\ RecordTypeOK
    /\ ackOn \in BOOLEAN /\ speaking \in BOOLEAN /\ broken \in BOOLEAN
    /\ cur \in Turns \cup {NoTurn}
    /\ output \in Turns \cup {NoTurn}
    /\ ack \in AckStates
    /\ loop \in Loops
    /\ out \in [Turns -> OutRecs]
    /\ settled \subseteq Turns
    /\ acked \in [Turns -> [completed : BOOLEAN, cleared : 0 .. Segments]]

Init ==
    /\ RecordInit
    /\ ackOn \in BOOLEAN
    /\ speaking = FALSE
    /\ cur = NoTurn
    /\ output = NoTurn
    /\ ack = NoAck
    /\ loop = AtLoop
    /\ out = [p \in Turns |-> NoOut]
    /\ settled = {}
    /\ broken = FALSE
    /\ acked = [p \in Turns |-> [completed |-> FALSE, cleared |-> 0]]

\* The text to the end of segment k: what the deltas collected so far say, and what
\* is announced with the segment.  A stream that is not segmented announces the
\* response's own text (newAudioPlaybackMeta).
TextTo(form, k) == [form |-> form, runes |-> TextAfter[form][k]]
Collected(k) == TextTo("response", k)
FormOf(whole) == IF whole THEN "response" ELSE "announced"

Answer == Collected(Segments)

-----------------------------------------------------------------------------
(* emitTurnResponse *)

\* handleText or handleCommit; a playback that is on is interrupted first.
NextTurn ==
    /\ loop.pc = "loop" /\ ~broken
    /\ cur < MaxTurns
    /\ loop' = IF speaking THEN [Back("interrupt") EXCEPT !.cont = "begin"]
               ELSE Back("begin")
    /\ UNCHANGED <<recordVars, ackOn, speaking, cur, output, ack, out, settled, broken, acked>>

BeginTurn ==
    /\ loop.pc = "begin"
    /\ cur' = cur + 1
    /\ PrepareTurn(cur + 1)
    /\ loop' = Back("respond")
    /\ UNCHANGED <<ackOn, speaking, output, ack, out, settled, broken, acked>>

\* OnTextDeltaCollected: text that arrives while the answer is spoken extends it.
CollectDelta ==
    /\ loop.pc = "respond"
    /\ loop.collected < Segments
    /\ loop' = [loop EXCEPT !.collected = @ + 1]
    /\ IF speaking THEN UpdatePlayback(Collected(loop.collected + 1), 0) ELSE Ignored
    /\ UNCHANGED <<ackOn, speaking, cur, output, ack, out, settled, broken, acked>>

\* StartPlaybackWithOptions and startAudioStream: the output is installed, the ack
\* state identifies the new playback and the goroutine starts.
StartAudio(text, planned, whole) ==
    /\ speaking' = TRUE
    /\ StartPlaybackWithOptions(text, planned, ackOn)
    /\ output' = cur
    /\ ack' = [meta |-> [NoMeta EXCEPT !.playback = cur], terminal |-> "none", waits |-> cur]
    /\ out' = [out EXCEPT ![cur] = [NoOut EXCEPT !.pc = "next", !.whole = whole]]

\* StartResponseAudio: audio before the response settles.  The stream's duration
\* is that of the clauses planned so far.
StartEarly ==
    /\ loop.pc = "respond" /\ ~loop.early
    /\ cur <= MaxPlaybacks
    /\ \E k \in 1 .. Segments :
            StartAudio(Collected(loop.collected), DurationAfter[k], FALSE)
    /\ loop' = [loop EXCEPT !.early = TRUE]
    /\ UNCHANGED <<ackOn, cur, settled, broken, acked>>

\* The response settles: the turn's outcome is known to the playback, and the turn
\* is prepared again with the whole text.
SettleResponse ==
    /\ loop.pc = "respond"
    /\ PrepareTurn(cur)
    /\ settled' = settled \cup {cur}
    /\ loop' = Goto(IF loop.early THEN "settled" ELSE "finalize")
    /\ UNCHANGED <<ackOn, speaking, cur, output, ack, out, broken, acked>>

SettleEarly ==
    /\ loop.pc = "settled"
    /\ UpdatePlayback(Answer, 0)
    /\ loop' = Back("loop")
    /\ UNCHANGED <<ackOn, speaking, cur, output, ack, out, settled, broken, acked>>

\* finalizeTurnResponse without audio, or with the response's own stream
FinalizeText ==
    /\ loop.pc = "finalize"
    /\ FinalizeTextResponse(Answer)
    /\ loop' = Back("loop")
    /\ UNCHANGED <<ackOn, speaking, cur, output, ack, out, settled, broken, acked>>

FinalizeAudio ==
    /\ loop.pc = "finalize"
    /\ cur <= MaxPlaybacks
    /\ \E whole \in BOOLEAN : StartAudio(Answer, DurationAfter[Segments], whole)
    /\ loop' = Back("loop")
    /\ UNCHANGED <<ackOn, cur, settled, broken, acked>>

\* A response that fails ends the session, and with it any early playback.
ResponseFails ==
    /\ loop.pc = "respond"
    /\ loop' = [Back("interrupt") EXCEPT !.cont = "closed"]
    /\ UNCHANGED <<recordVars, ackOn, speaking, cur, output, ack, out, settled, broken, acked>>

-----------------------------------------------------------------------------
(* Interruption *)

\* A barge-in, session.update with interrupt, session.end; the read pump's error
\* after a broken write.
AskInterrupt ==
    /\ loop.pc = "loop"
    /\ speaking \/ broken
    /\ \E cont \in (IF broken THEN {"closed"} ELSE {"loop", "closed"}) :
            loop' = [Back("interrupt") EXCEPT !.cont = cont]
    /\ UNCHANGED <<recordVars, ackOn, speaking, cur, output, ack, out, settled, broken, acked>>

\* RecordInterruptionDecision and applyOutputDirective of a softer decision
DuckOutput ==
    /\ loop.pc = "loop" /\ speaking /\ ~broken
    /\ \E p \in SoftPolicies : RecordInterruptionPolicy(p)
    /\ UNCHANGED playVars

\* interruptOutputWithPolicy: cancel, wait, record.
CancelOutput ==
    /\ loop.pc = "interrupt"
    /\ IF output = NoTurn
       THEN loop' = Goto("idle") /\ UNCHANGED out
       ELSE /\ out' = [out EXCEPT ![output].cancelled = TRUE]
            /\ loop' = [loop EXCEPT !.pc = "wait", !.meta.playback = output]
    /\ UNCHANGED <<recordVars, ackOn, speaking, cur, output, ack, settled, broken, acked>>

\* Mutant: the interruption does not wait for the goroutine.
AwaitNothing ==
    /\ loop.pc = "wait"
    /\ loop' = Goto("record")
    /\ UNCHANGED <<recordVars, ackOn, speaking, cur, output, ack, out, settled, broken, acked>>

AwaitOutput ==
    /\ loop.pc = "wait"
    /\ out[loop.meta.playback].pc = "done"
    /\ loop' = Goto("record")
    /\ UNCHANGED <<recordVars, ackOn, speaking, cur, output, ack, out, settled, broken, acked>>

RecordInterrupt ==
    /\ loop.pc = "record"
    /\ InterruptPlaybackWithPolicy("hard_interrupt")
    /\ loop' = Goto("idle")
    /\ UNCHANGED <<ackOn, speaking, cur, output, ack, out, settled, broken, acked>>

\* SetOutputState(idle), or the end of the session
BecomeIdle ==
    /\ loop.pc = "idle"
    /\ speaking' = FALSE
    /\ loop' = Back(loop.cont)
    /\ UNCHANGED <<recordVars, ackOn, cur, output, ack, out, settled, broken, acked>>

-----------------------------------------------------------------------------
(* Playback acks *)

\* Mutant: any ack is taken for the playback that is on.
AnyPlayback(p) == ack.meta.playback # NoTurn
validatePlaybackAckIdentity(p) == ack.meta.playback = p

Announced(k) == k > 0 /\ k <= ack.meta.seg /\ (ack.meta.whole => k = ack.meta.seg)

\* An ack whose identity does not match is ignored.  One that names no segment
\* is treated as one that names a segment not announced yet.
TakeAck ==
    /\ loop.pc = "loop" /\ ackOn /\ ~broken
    /\ \E p \in Turns, kind \in {"started", "mark", "cleared", "completed"} :
        /\ validatePlaybackAckIdentity(p)
        /\ \E k \in (IF kind \in {"mark", "cleared"} THEN 1 .. Segments ELSE {0}),
              ms \in (IF kind = "mark" THEN Marks ELSE {0}) :
            loop' = [Back("sync") EXCEPT !.kind = kind, !.seg = k, !.ms = ms,
                                         !.known = (kind = "cleared" /\ Announced(k)),
                                         !.meta.playback = p]
    /\ UNCHANGED <<recordVars, ackOn, speaking, cur, output, ack, out, settled, broken, acked>>

\* syncAnnouncedPlaybackContext reads the newest meta and then reports it; the two
\* are not atomic.
Announce(meta) ==
    IF meta.seg = 0 THEN Ignored
    ELSE UpdatePlayback(TextTo(FormOf(meta.whole), meta.seg), DurationAfter[meta.seg])

AckReadMeta ==
    /\ loop.pc = "sync"
    /\ loop' = [loop EXCEPT !.pc = "update", !.meta.seg = ack.meta.seg,
                            !.meta.whole = ack.meta.whole]
    /\ UNCHANGED <<recordVars, ackOn, speaking, cur, output, ack, out, settled, broken, acked>>

AckAnnounce ==
    /\ loop.pc = "update"
    /\ Announce(loop.meta)
    /\ loop' = Goto("fact")
    /\ UNCHANGED <<ackOn, speaking, cur, output, ack, out, settled, broken, acked>>

\* playbackAckMetaForSegmentLocked: a segment that was not announced, or none,
\* means the newest.
SegmentFor(k) ==
    IF Announced(k) THEN k ELSE ack.meta.seg
SegmentBefore(k) == IF k = 0 \/ ack.meta.whole THEN 0 ELSE k - 1
segmentRuneMs == 110

\* recordPlaybackMark: what a mark says was played, and heard, up to it
MarkTotal(k, ms) ==
    LET dur == DurationAfter[k] - DurationAfter[SegmentBefore(k)]
    IN  DurationAfter[SegmentBefore(k)] + (IF dur > 0 /\ ms > dur THEN dur ELSE ms)
MarkHeard(k, ms) ==
    LET b == SegmentBefore(k)
        after == TextAfter[FormOf(ack.meta.whole)]
        played == MarkTotal(k, ms) - DurationAfter[b]
    IN  Trimmed([form |-> FormOf(ack.meta.whole),
                 runes |-> after[b] + HeardRunes(after[k] - after[b], played,
                                                 DurationAfter[k] - DurationAfter[b],
                                                 segmentRuneMs)])

\* finishLocked: the first terminal ack stands and wakes who waits for it.
FinishAck(terminal) ==
    IF ack.terminal # "none" THEN UNCHANGED <<ack, out>>
    ELSE /\ ack' = [ack EXCEPT !.terminal = terminal]
         /\ out' = IF ack.waits = NoTurn THEN out
                   ELSE [out EXCEPT ![ack.waits].woken = TRUE]

\* recordPlaybackStarted, recordPlaybackMark, recordPlaybackCleared and
\* recordPlaybackCompleted
RecordFact ==
    LET k == SegmentFor(loop.seg)
        p == loop.meta.playback
    IN  /\ loop.pc = "fact"
        /\ \/ /\ loop.kind = "started"
              /\ loop' = Goto("observe")
              /\ UNCHANGED <<ack, out, acked>>
           \/ /\ loop.kind = "mark"
              /\ loop' = [loop EXCEPT !.pc = "observe", !.total = MarkTotal(k, loop.ms),
                                      !.heard = MarkHeard(k, loop.ms)]
              /\ UNCHANGED <<ack, out, acked>>
           \/ /\ loop.kind = "cleared"
              /\ loop' = [loop EXCEPT !.pc = "observe", !.total = DurationAfter[k],
                                      !.heard = TextTo(FormOf(ack.meta.whole), k)]
              /\ FinishAck("cleared")
              /\ acked' = IF ack.terminal = "none" /\ loop.known
                          THEN [acked EXCEPT ![p].cleared = k] ELSE acked
           \/ /\ loop.kind = "completed"
              /\ loop' = Goto("observe")
              /\ FinishAck("completed")
              /\ acked' = [acked EXCEPT ![p].completed = TRUE]
        /\ UNCHANGED <<recordVars, ackOn, speaking, cur, output, settled, broken>>

\* The fact reaches the record; a cleared playback that is on is interrupted.
ObserveFact ==
    /\ loop.pc = "observe"
    /\ \/ loop.kind = "started" /\ ObservePlaybackStartedFact
       \/ /\ loop.kind \in {"mark", "cleared"}
          /\ IF loop.heard.runes > 0 THEN ObservePlaybackMarkTextFact(loop.total, loop.heard)
             ELSE IF loop.total > 0 THEN ObservePlaybackMarkFact(loop.total)
             ELSE Ignored
       \/ loop.kind = "completed" /\ ObservePlaybackCompletedFact
    /\ loop' = Back(IF loop.kind = "cleared" /\ speaking THEN "interrupt" ELSE "loop")
    /\ UNCHANGED <<ackOn, speaking, cur, output, ack, out, settled, broken, acked>>

-----------------------------------------------------------------------------
(* The output goroutine of playback p: startAudioStream *)

At(p, pc) == out[p].pc = pc
OutGoto(p, pc) == out' = [out EXCEPT ![p].pc = pc]

\* At the top of its loop, before and after it, a cancelled goroutine returns.
OutCancelled(p) ==
    /\ out[p].cancelled
    /\ out[p].pc \in {"next", "play", "check", "await"}
    /\ OutGoto(p, "tidy")
    /\ UNCHANGED <<recordVars, ackOn, speaking, cur, output, ack, loop, settled, broken, acked>>

\* NextSegment, nextSegmentAudioPlaybackMeta and activatePlaybackAckSegment; a
\* stream that is not segmented announces all of itself.
NextSegment(p) ==
    /\ At(p, "next") /\ ~out[p].cancelled
    /\ IF out[p].seg = Segments
       THEN OutGoto(p, "check") /\ UNCHANGED ack
       ELSE LET k == IF out[p].whole THEN Segments ELSE out[p].seg + 1
            IN  /\ out' = [out EXCEPT ![p].pc = "sync", ![p].seg = k]
                /\ ack' = [ack EXCEPT !.meta = [playback |-> p, seg |-> k,
                                                whole |-> out[p].whole]]
    /\ UNCHANGED <<recordVars, ackOn, speaking, cur, output, loop, settled, broken, acked>>

\* emitAudioOutMeta: after the event is written, syncAnnouncedPlaybackContext.
OutReadMeta(p) ==
    /\ At(p, "sync")
    /\ out' = [out EXCEPT ![p].pc = "update", ![p].meta = ack.meta]
    /\ UNCHANGED <<recordVars, ackOn, speaking, cur, output, ack, loop, settled, broken, acked>>

OutAnnounce(p) ==
    /\ At(p, "update")
    /\ Announce(out[p].meta)
    /\ out' = [out EXCEPT ![p].pc = "play", ![p].meta = NoMeta]
    /\ UNCHANGED <<ackOn, speaking, cur, output, ack, loop, settled, broken, acked>>

\* A chunk is written; without acks it counts as heard.
PlayChunk(p) ==
    /\ At(p, "play") /\ ~out[p].cancelled /\ ~ackOn
    /\ turn.played < DurationAfter[out[p].seg]
    /\ ObservePlaybackChunk
    /\ UNCHANGED playVars

SegmentPlayed(p) ==
    /\ At(p, "play") /\ ~out[p].cancelled
    /\ OutGoto(p, "next")
    /\ UNCHANGED <<recordVars, ackOn, speaking, cur, output, ack, loop, settled, broken, acked>>

\* Mutant: a failed playback ends the session without a word to the record.
StreamFailsQuietly(p) ==
    /\ Faults
    /\ At(p, "play") /\ ~out[p].cancelled
    /\ speaking' = FALSE
    /\ OutGoto(p, "tidy")
    /\ UNCHANGED <<recordVars, ackOn, cur, output, ack, loop, settled, broken, acked>>

\* Synthesis fails: the playback is interrupted and the session ends.
StreamFails(p) ==
    /\ Faults
    /\ At(p, "play") /\ ~out[p].cancelled
    /\ IF speaking THEN InterruptPlaybackWithPolicy("hard_interrupt") ELSE Ignored
    /\ speaking' = FALSE
    /\ OutGoto(p, "tidy")
    /\ UNCHANGED <<ackOn, cur, output, ack, loop, settled, broken, acked>>

WriteFails(p) ==
    /\ Faults
    /\ out[p].pc \in {"sync", "play"}
    /\ broken' = TRUE
    /\ OutGoto(p, "tidy")
    /\ UNCHANGED <<recordVars, ackOn, speaking, cur, output, ack, loop, settled, acked>>

\* All is written.  With acks the goroutine waits for the client's word.
CheckSpeaking(p) ==
    /\ At(p, "check") /\ ~out[p].cancelled
    /\ OutGoto(p, IF ~speaking THEN "tidy" ELSE IF ackOn THEN "ack" ELSE "verdict")
    /\ UNCHANGED <<recordVars, ackOn, speaking, cur, output, ack, loop, settled, broken, acked>>

\* waitForPlaybackAckTerminal: what is known when it is called ...
WaitTerminal(p) ==
    /\ At(p, "ack")
    /\ out' = [out EXCEPT ![p].pc = IF ack.terminal = "none" /\ ack.waits # NoTurn
                                    THEN "select" ELSE "verdict",
                          ![p].verdict = ack.terminal]
    /\ UNCHANGED <<recordVars, ackOn, speaking, cur, output, ack, loop, settled, broken, acked>>

\* ... and its select: the context, the ack, the timer.
SelectTerminal(p) ==
    /\ At(p, "select")
    /\ out[p].woken
    /\ out' = [out EXCEPT ![p].pc = "verdict", ![p].verdict = ack.terminal]
    /\ UNCHANGED <<recordVars, ackOn, speaking, cur, output, ack, loop, settled, broken, acked>>

\* Cancelled, or the timeout has passed.
AckTimeout(p) ==
    /\ At(p, "select")
    /\ OutGoto(p, "verdict")
    /\ UNCHANGED <<recordVars, ackOn, speaking, cur, output, ack, loop, settled, broken, acked>>

\* The playback is recorded as over.
RecordVerdict(p) ==
    /\ At(p, "verdict")
    /\ \/ out[p].verdict = "completed" /\ CompletePlaybackWithSource("playback_completed")
       \/ out[p].verdict = "cleared" /\ InterruptPlaybackWithPolicy("hard_interrupt")
       \/ out[p].verdict = "none" /\ CompletePlaybackWithSource("heuristic_bytes")
    /\ OutGoto(p, "await")
    /\ UNCHANGED <<ackOn, speaking, cur, output, ack, loop, settled, broken, acked>>

\* completion.Wait, then the session returns to active or ends.
AwaitOutcome(p) ==
    /\ At(p, "await") /\ p \in settled
    /\ OutGoto(p, "return")
    /\ UNCHANGED <<recordVars, ackOn, speaking, cur, output, ack, loop, settled, broken, acked>>

ReturnActive(p) ==
    /\ At(p, "return")
    /\ speaking' = FALSE
    /\ OutGoto(p, "tidy")
    /\ UNCHANGED <<recordVars, ackOn, cur, output, ack, loop, settled, broken, acked>>

\* The deferred calls: clearPlaybackAckState, whosever state it is, and clearOutput.
ClearAck(p) ==
    /\ At(p, "tidy")
    /\ ack' = NoAck
    /\ OutGoto(p, "exit")
    /\ UNCHANGED <<recordVars, ackOn, speaking, cur, output, loop, settled, broken, acked>>

ClearOutput(p) ==
    /\ At(p, "exit")
    /\ output' = IF output = p THEN NoTurn ELSE output
    /\ out' = [out EXCEPT ![p] = [NoOut EXCEPT !.pc = "done"]]
    /\ UNCHANGED <<recordVars, ackOn, speaking, cur, ack, loop, settled, broken, acked>>

-----------------------------------------------------------------------------

ReadLoop ==
    \/ NextTurn \/ BeginTurn \/ CollectDelta \/ StartEarly \/ SettleResponse \/ SettleEarly
    \/ FinalizeText \/ FinalizeAudio \/ ResponseFails
    \/ AskInterrupt \/ DuckOutput \/ CancelOutput \/ AwaitOutput \/ RecordInterrupt
    \/ BecomeIdle
    \/ TakeAck \/ AckReadMeta \/ AckAnnounce \/ RecordFact \/ ObserveFact

Output(p) ==
    \/ OutCancelled(p) \/ NextSegment(p) \/ OutReadMeta(p) \/ OutAnnounce(p)
    \/ PlayChunk(p) \/ SegmentPlayed(p) \/ StreamFails(p) \/ WriteFails(p)
    \/ CheckSpeaking(p) \/ WaitTerminal(p) \/ SelectTerminal(p) \/ AckTimeout(p)
    \/ RecordVerdict(p) \/ AwaitOutcome(p) \/ ReturnActive(p)
    \/ ClearAck(p) \/ ClearOutput(p)

Next == ReadLoop \/ \E p \in Turns : Output(p)

Spec == Init /\ [][Next]_vars

-----------------------------------------------------------------------------
(* Properties *)

\* That an answer was heard to its end on the client's word is recorded only if
\* the client said so of this very playback: a late audio.out.completed of the
\* playback before does not count (validatePlaybackAckIdentity).
CompletedIsAcked ==
    /\ turn.source = "playback_completed" => acked[turn.id].completed
    /\ outcome.facts.source = "playback_completed" => acked[outcome.turn].completed

\* A playback that ends settles its own turn: when the goroutine reports the
\* verdict, the record holds the turn it played, or none.  CompletePlayback names
\* no turn, so this rests on the interruption waiting for the goroutine.
SettlesOwnTurn ==
    \A p \in Turns : out[p].pc = "verdict" => turn.id \in {p, NoTurn}

\* No playback is forgotten: once its goroutine is gone and the read loop has
\* handled what was going on, nobody is left who would record how it ended, so
\* the record must have been settled by one of the two.  Only a broken connection
\* ends a goroutine without a word.
EndedIsRecorded ==
    \A p \in Turns :
        (out[p].pc = "done" /\ loop.pc = "loop" /\ ~broken)
            => ~(turn.id = p /\ turn.active)

\* "audio.out.cleared.cleared_after_segment_id [is] the server's segment-truth anchor
\* for heard-text" (docs/protocols/realtime-session-v0.md): the outcome of a
\* playback that the client cleared after a segment says that the text was heard
\* to the end of that segment.
ClearedAnchorsHeard ==
    \A p \in Turns :
        (outcome.turn = p /\ acked[p].cleared > 0)
            => LET h == outcome.facts.heard
               IN  h.runes = TextAfter[h.form][acked[p].cleared]
=============================================================================
