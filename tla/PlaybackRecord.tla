---------------------------- MODULE PlaybackRecord ----------------------------
(***************************************************************************)
(* What the voice runtime remembers of a spoken answer                     *)
(* (internal/voice/session_orchestrator.go): the turn being played, the    *)
(* memory record of each turn and the outcome of the last playback, which  *)
(* the next turn's request carries.  Every method runs under the           *)
(* orchestrator's mutex and is one action.                                 *)
(*                                                                         *)
(* Data: the answer of a turn is written in two forms.  The response has   *)
(* the white space between its clauses; what the gateway announces is its  *)
(* clauses, trimmed and joined (nextSegmentAudioPlaybackMeta).  A text is  *)
(* a prefix of one of the two, known by the form and its length in runes   *)
(* (0: no text).  The forms begin with the same Common runes and differ    *)
(* after them.  A prefix that ends in white space is trimmed when it is    *)
(* made, as every reader in the code trims it.  Durations are in           *)
(* milliseconds.  Input and answer text, metadata and reasons are left     *)
(* out: no method decides on them.  Confidence and precision are functions *)
(* of the source.  The ratios, float64 in the code, are exact.             *)
(***************************************************************************)
EXTENDS Integers

CONSTANTS
    Turns, NoTurn,      \* turn ids, and the null id
    Texts, Durations,   \* the texts and durations that callers pass
    Common,             \* runes at the beginning on which the two forms agree
    Blanks,             \* for each form, the places of its white space, one rune each
    ChunkMs             \* duration of a chunk (outputFrameInterval)

Forms == {"response", "announced"}
TextRecs == [form : Forms, runes : Nat]
NoText == [form |-> "response", runes |-> 0]

ASSUME RecordAssumption ==
    /\ NoTurn \notin Turns
    /\ Texts \subseteq TextRecs /\ Durations \subseteq Nat
    /\ \A text \in Texts : text.runes \notin Blanks[text.form]
    /\ Common \in Nat /\ ChunkMs \in Nat
    /\ Blanks \in [Forms -> SUBSET Nat]
    /\ \A f \in Forms : /\ 0 \notin Blanks[f] /\ 1 \notin Blanks[f]
                        /\ \A n \in Blanks[f] : n + 1 \notin Blanks[f]
    /\ \A n \in 1 .. Common : n \in Blanks["response"] <=> n \in Blanks["announced"]

VARIABLES
    turn,       \* o.turn; its id is NoTurn when it is nil
    memory,     \* the record last saved in the memory store, and its turn
    outcome     \* o.lastPlaybackOutcome; its turn is NoTurn when it is nil

recordVars == <<turn, memory, outcome>>

Sources == {"unknown", "heuristic_bytes", "playback_started", "segment_mark",
            "playback_completed"}
Policies == {"ignore", "backchannel", "duck_only", "hard_interrupt"}
Boundaries == {"none", "prefix", "full"}

\* softRecoverySnapshot; the policy is "ignore" when there is none.
Snapshots == [policy : Policies, heard : TextRecs, source : Sources, played : Nat]
NoSnapshot == [policy |-> "ignore", heard |-> NoText, source |-> "unknown", played |-> 0]

\* orchestratedTurn
TurnRecs ==
    [id : Turns \cup {NoTurn}, delivered : TextRecs, heard : TextRecs,
     boundary : Boundaries, planned : Nat, played : Nat, source : Sources, active : BOOLEAN,
     completed : BOOLEAN, interrupted : BOOLEAN, truncated : BOOLEAN,
     prefer : BOOLEAN, policy : Policies, soft : Snapshots]
FreshTurn(id) ==
    [id |-> id, delivered |-> NoText, heard |-> NoText, boundary |-> "none",
     planned |-> 0, played |-> 0, source |-> "unknown", active |-> FALSE, completed |-> FALSE,
     interrupted |-> FALSE, truncated |-> FALSE, prefer |-> FALSE,
     policy |-> "ignore", soft |-> NoSnapshot]

\* What persistLocked saves of a turn, and PlaybackOutcome.
Facts == [delivered : TextRecs, heard : TextRecs, source : Sources, completed : BOOLEAN,
          interrupted : BOOLEAN, truncated : BOOLEAN, policy : Policies]
NoFacts == [delivered |-> NoText, heard |-> NoText, source |-> "unknown", completed |-> FALSE,
            interrupted |-> FALSE, truncated |-> FALSE, policy |-> "ignore"]
FactsOf(t) ==
    [delivered |-> t.delivered, heard |-> t.heard, source |-> t.source,
     completed |-> t.completed, interrupted |-> t.interrupted,
     truncated |-> t.truncated, policy |-> t.policy]
Outcomes == [turn : Turns \cup {NoTurn}, facts : Facts]
NoOutcome == [turn |-> NoTurn, facts |-> NoFacts]
OutcomeOf(t) == [turn |-> t.id, facts |-> FactsOf(t)]

RecordTypeOK ==
    /\ turn \in TurnRecs
    /\ memory \in Outcomes
    /\ outcome \in Outcomes

RecordInit ==
    /\ turn = FreshTurn(NoTurn)
    /\ memory = NoOutcome
    /\ outcome = NoOutcome

-----------------------------------------------------------------------------
(* Texts: strings.TrimSpace, HasPrefix and the comparisons made of them *)

Trimmed(text) ==
    IF text.runes \in Blanks[text.form] THEN [text EXCEPT !.runes = @ - 1] ELSE text

IsPrefixOf(heard, delivered) ==
    /\ heard.runes <= delivered.runes
    /\ heard.form = delivered.form \/ heard.runes <= Common

\* heardTextBoundaryForTexts
BoundaryOf(delivered, heard) ==
    IF heard.runes = 0 THEN "none"
    ELSE IF \/ delivered.runes = 0
            \/ heard.runes = delivered.runes /\ IsPrefixOf(heard, delivered)
    THEN "full" ELSE "prefix"

\* missedTextForTexts: the runes that follow, without the white space before them.
\* Nothing is missed of a text that does not begin with what was heard.
MissedRunes(delivered, heard) ==
    IF heard.runes < delivered.runes /\ IsPrefixOf(heard, delivered)
    THEN delivered.runes - heard.runes
           - (IF heard.runes + 1 \in Blanks[delivered.form] THEN 1 ELSE 0)
    ELSE 0

-----------------------------------------------------------------------------
(* Heard text *)

Larger(a, b) == IF a >= b THEN a ELSE b
Within(n, total) == IF n <= 0 THEN 1 ELSE IF n > total THEN total ELSE n

\* heardTextForPlayback, of a text of so many runes; the gateway's copy,
\* voiceHeardTextForPlayback, differs in the duration of a rune.
HeardRunes(total, played, planned, runeMs) ==
    IF total = 0 \/ played <= 0 THEN 0
    ELSE IF planned = 0 THEN Within(played \div runeMs, total)
    ELSE IF played >= planned THEN total
    ELSE Within((total * played + planned - 1) \div planned, total)

approxHeardRuneMs == 120

SetHeard(t, heard, source) ==
    [t EXCEPT !.heard = heard, !.boundary = BoundaryOf(t.delivered, heard),
              !.source = IF source = "unknown" THEN t.source ELSE source]

\* updateHeardTextLocked
UpdateHeard(t, played, source) ==
    LET p == IF played > t.played THEN played ELSE t.played
    IN  SetHeard([t EXCEPT !.played = p],
                 Trimmed([t.delivered EXCEPT
                            !.runes = HeardRunes(@, p, t.planned, approxHeardRuneMs)]),
                 source)

\* hasExactHeardTextPrefix
HasExactPrefix(t, heard) == heard.runes > 0 /\ IsPrefixOf(heard, t.delivered)

\* updateHeardTextExactLocked: a text that is no prefix of what was delivered
\* falls back to the duration.
UpdateHeardExact(t, played, heard, source) ==
    IF HasExactPrefix(t, heard)
    THEN SetHeard([t EXCEPT !.played = Larger(played, t.played)], heard, source)
    ELSE UpdateHeard(t, played, source)

\* What an interruption and a soft recovery start from: an exact mark stands,
\* anything else is estimated again.
Reestimate(t) ==
    IF t.source = "segment_mark" /\ HasExactPrefix(t, t.heard) THEN t
    ELSE UpdateHeard(t, t.played, t.source)

-----------------------------------------------------------------------------
(* Soft recovery: an answer that was ducked and then played to its end is  *)
(* not taken as heard to its end.                                          *)

PolicyRank(p) == IF p = "duck_only" THEN 2 ELSE IF p = "backchannel" THEN 1 ELSE 0
SourceRank(s) ==
    IF s = "segment_mark" THEN 4 ELSE IF s = "playback_completed" THEN 3
    ELSE IF s = "playback_started" THEN 2 ELSE IF s = "heuristic_bytes" THEN 1 ELSE 0

\* recordInterruptionPolicyLocked
SetPolicy(t, p) == IF p = "ignore" THEN t ELSE [t EXCEPT !.policy = p]

\* captureSoftRecoverySnapshotLocked: the earliest snapshot stands.
CaptureSoft(t, p) ==
    LET r == Reestimate(t)
        stands == /\ r.soft.policy # "ignore"
                  /\ \/ r.soft.played < r.played
                     \/ r.soft.played = r.played
                        /\ PolicyRank(r.soft.policy) >= PolicyRank(p)
    IN  IF ~t.active THEN t
        ELSE IF stands THEN r
        ELSE [r EXCEPT !.soft = [policy |-> p, heard |-> r.heard, source |-> r.source,
                                 played |-> r.played]]

\* heardRatioPercent, of a text that is not empty
RatioPercent(delivered, heard) ==
    IF heard.runes >= delivered.runes THEN 100
    ELSE (200 * heard.runes + delivered.runes) \div (2 * delivered.runes)

\* shouldLimitCompletedPlaybackToSoftRecovery
LimitsToSoft(t, s) ==
    LET runes == MissedRunes(t.delivered, s.heard)
        ms == IF s.played < t.planned THEN t.planned - s.played ELSE 0
        ratio == 100 - RatioPercent(t.delivered, s.heard)
    IN  /\ runes > 0
        /\ \/ /\ s.policy = "duck_only"
              /\ runes >= 2 \/ ratio >= 12 \/ ms >= 260
           \/ /\ s.policy = "backchannel"
              /\ runes >= 8 \/ (runes >= 4 /\ (ratio >= 30 \/ ms >= 650))

\* usableSoftRecoveryBoundary
UsableBoundary(delivered, s) ==
    /\ s.heard.runes > 0 /\ s.heard.runes < delivered.runes
    /\ IsPrefixOf(s.heard, delivered)

\* preferredSoftRecoveryBoundary, betterSoftRecoveryBoundary
PreferredBoundary(delivered, s, before) ==
    IF /\ UsableBoundary(delivered, before)
       /\ \/ ~UsableBoundary(delivered, s)
          \/ before.heard.runes > s.heard.runes
          \/ /\ before.heard.runes = s.heard.runes
             /\ SourceRank(before.source) > SourceRank(s.source)
    THEN before ELSE s

\* Mutant: the client's word that it played everything settles it.
ApplySoftUnlessAcked(t, before) ==
    IF t.soft.policy = "ignore" \/ ~LimitsToSoft(t, t.soft)
        \/ t.source = "playback_completed" THEN t
    ELSE LET b == PreferredBoundary(t.delivered, t.soft, before)
         IN  [t EXCEPT !.heard = b.heard, !.boundary = BoundaryOf(t.delivered, b.heard),
                       !.source = b.source]

\* applySoftRecoveryOutcomeLocked; before: what was heard when the playback ended.
ApplySoft(t, before) ==
    IF t.soft.policy = "ignore" \/ ~LimitsToSoft(t, t.soft) THEN t
    ELSE LET b == PreferredBoundary(t.delivered, t.soft, before)
         IN  [t EXCEPT !.heard = b.heard, !.boundary = BoundaryOf(t.delivered, b.heard),
                       !.source = b.source]

-----------------------------------------------------------------------------
(* The methods.  A method that finds no turn changes nothing.               *)

Live == turn.id # NoTurn
Ignored == UNCHANGED recordVars

\* SaveTurn replaces the record of the same turn.
Persist(t) == memory' = OutcomeOf(t)

\* Mutant: what was saved last stands.
FinishUnsaved(t) ==
    /\ outcome' = OutcomeOf(t)
    /\ turn' = FreshTurn(NoTurn)
    /\ UNCHANGED memory

\* Persist, capture the outcome and forget the turn.
Finish(t) ==
    /\ Persist(t)
    /\ outcome' = OutcomeOf(t)
    /\ turn' = FreshTurn(NoTurn)

PrepareTurn(id) ==
    LET t == IF turn.id = id THEN turn ELSE FreshTurn(id)
    IN  /\ turn' = t
        /\ Persist(t)
        /\ UNCHANGED outcome

FinalizeTextResponse(text) ==
    IF ~Live THEN Ignored
    ELSE Finish([turn EXCEPT !.delivered = text, !.heard = text, !.completed = TRUE,
                             !.active = FALSE, !.boundary = BoundaryOf(text, text)])

StartPlaybackWithOptions(text, planned, prefer) ==
    /\ turn' = IF ~Live THEN turn
               ELSE [FreshTurn(turn.id) EXCEPT !.delivered = text, !.planned = planned,
                                               !.active = TRUE, !.prefer = prefer]
    /\ UNCHANGED <<memory, outcome>>

\* Mutant: new text does not touch what was heard of the old.
UpdateTextOnly(text, planned) ==
    LET t == [turn EXCEPT !.delivered = IF text.runes > 0 THEN text ELSE @,
                          !.planned = IF planned > 0 THEN planned ELSE @]
    IN  IF ~Live THEN Ignored
        ELSE /\ turn' = t
             /\ Persist(t)
             /\ UNCHANGED outcome

UpdatePlayback(text, planned) ==
    LET t == [turn EXCEPT !.delivered = IF text.runes > 0 THEN text ELSE @,
                          !.planned = IF planned > 0 THEN planned ELSE @]
        u == IF t.active THEN UpdateHeard(t, t.played, t.source) ELSE t
    IN  IF ~Live THEN Ignored
        ELSE /\ turn' = u
             /\ Persist(u)
             /\ UNCHANGED outcome

Observe(t) == turn' = t /\ UNCHANGED <<memory, outcome>>

ObservePlaybackChunk ==
    IF turn.active /\ ~turn.prefer
    THEN Observe(UpdateHeard(turn, turn.played + ChunkMs, "heuristic_bytes"))
    ELSE Ignored

ObservePlaybackStartedFact ==
    IF turn.active THEN Observe([turn EXCEPT !.source = "playback_started"]) ELSE Ignored

ObservePlaybackMarkFact(played) ==
    IF turn.active THEN Observe(UpdateHeard(turn, played, "segment_mark")) ELSE Ignored

ObservePlaybackMarkTextFact(played, heard) ==
    IF turn.active THEN Observe(UpdateHeardExact(turn, played, heard, "segment_mark"))
    ELSE Ignored

\* The whole of what was delivered was heard.
HeardAll(t) ==
    LET heard == IF t.delivered.runes > 0 THEN t.delivered ELSE t.heard
    IN  [t EXCEPT !.heard = heard, !.boundary = BoundaryOf(t.delivered, heard)]

\* Unlike the other facts it does not ask whether a playback is active.
ObservePlaybackCompletedFact ==
    IF Live THEN Observe(HeardAll(UpdateHeard(turn, Larger(turn.planned, turn.played),
                                              "playback_completed")))
    ELSE Ignored

RecordInterruptionPolicy(p) ==
    IF ~Live THEN Ignored
    ELSE LET t == SetPolicy(turn, p)
         IN  Observe(IF p \in {"backchannel", "duck_only"} THEN CaptureSoft(t, p) ELSE t)

InterruptPlaybackWithPolicy(p) ==
    LET t == Reestimate(SetPolicy(turn, IF p = "ignore" THEN "hard_interrupt" ELSE p))
    IN  IF ~turn.active THEN Ignored
        ELSE Finish([t EXCEPT !.active = FALSE, !.completed = FALSE,
                              !.interrupted = TRUE,
                              !.truncated = (t.boundary = "prefix")])

CompletePlaybackWithSource(source) ==
    LET before == [policy |-> "ignore", heard |-> turn.heard, source |-> turn.source,
                   played |-> turn.played]
        played == IF source = "playback_completed" THEN Larger(turn.planned, turn.played)
                  ELSE turn.played
        t == HeardAll(UpdateHeard([turn EXCEPT !.active = FALSE, !.completed = TRUE],
                                  played, source))
    IN  IF ~Live THEN Ignored
        ELSE Finish([ApplySoft(t, before) EXCEPT !.interrupted = FALSE,
                                                 !.truncated = FALSE])

RecordNext ==
    \/ \E id \in Turns : PrepareTurn(id)
    \/ \E text \in Texts : FinalizeTextResponse(text)
    \/ \E text \in Texts, planned \in Durations, prefer \in BOOLEAN :
            StartPlaybackWithOptions(text, planned, prefer)
    \/ \E text \in Texts, planned \in Durations : UpdatePlayback(text, planned)
    \/ ObservePlaybackChunk
    \/ ObservePlaybackStartedFact
    \/ \E played \in Durations : ObservePlaybackMarkFact(played)
    \/ \E played \in Durations, heard \in Texts : ObservePlaybackMarkTextFact(played, heard)
    \/ ObservePlaybackCompletedFact
    \/ \E p \in Policies : RecordInterruptionPolicy(p)
    \/ \E p \in Policies : InterruptPlaybackWithPolicy(p)
    \/ \E source \in Sources : CompletePlaybackWithSource(source)

RecordSpec == RecordInit /\ [][RecordNext]_recordVars

-----------------------------------------------------------------------------
(* Properties *)

\* The outcome the next turn is told about makes sense: what was heard is how the
\* delivered text begins, whatever form each came in; the playback was either
\* completed or interrupted; and it was truncated exactly when an interruption left
\* part of the text unheard but not all of it.  The flag is computed from the cached
\* boundary of the turn, which many methods have to keep up to date
\* (InterruptPlaybackWithPolicy).
OutcomeTruth ==
    LET f == outcome.facts
    IN  outcome.turn # NoTurn =>
            /\ IsPrefixOf(f.heard, f.delivered)
            /\ f.completed # f.interrupted
            /\ f.truncated <=> (/\ f.interrupted
                                /\ 0 < f.heard.runes
                                /\ f.heard.runes < f.delivered.runes)

\* Once a turn is over its memory record says what its outcome says: no method
\* changes the turn after its last persistLocked (Finish).
MemoryFollowsOutcome ==
    ~Live => memory = outcome

\* The user talked over a playback that was ducked for it, and what had been heard
\* then is how the text delivered now begins, with two runes or more to follow: when
\* the playback completes, whoever says so, the answer is not recorded as heard to
\* its end (applySoftRecoveryOutcomeLocked).
DuckedTailIsMissed ==
    [][(/\ turn.active /\ turn'.id = NoTurn
        /\ turn.soft.policy = "duck_only"
        /\ MissedRunes(turn.delivered, turn.soft.heard) >= 2
        /\ outcome'.facts.completed)
       => outcome'.facts.heard.runes < outcome'.facts.delivered.runes]_recordVars

\* "`playback_completed=true` is no longer treated as proof that the user heard the
\* full spoken reply" (docs/adr/0040): a playback that was ducked with a part of the
\* text and 260 ms or more to come is not recorded as heard to its end when it
\* completes.  The text announced later may not begin with what had been heard, and
\* then nothing of it is taken as missed (missedTextForTexts).
CompletedIsNoProof ==
    [][(/\ turn.active /\ turn'.id = NoTurn
        /\ turn.soft.policy = "duck_only"
        /\ turn.soft.heard.runes < turn.delivered.runes
        /\ turn.planned - turn.soft.played >= 260
        /\ outcome'.facts.completed)
       => outcome'.facts.heard.runes < outcome'.facts.delivered.runes]_recordVars
=============================================================================
