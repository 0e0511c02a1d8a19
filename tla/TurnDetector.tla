------------------------------ MODULE TurnDetector ------------------------------
(***************************************************************************)
(* The turn detector of the voice runtime (internal/voice/turn_detector.go *)
(* and semantic_task_family.go): what it keeps of one utterance, how it    *)
(* classifies the recogniser's text, and how it decides that the silence   *)
(* after the last audio ends the turn.                                     *)
(*                                                                         *)
(* Data: a text is a sequence of words, and a word stands for the entries  *)
(* of the code's word lists that are in the same lists; RunesOf gives its  *)
(* length.  Durations are milliseconds; an instant is kept as its age, the *)
(* time since it.  A ratio is a percentage.  White space is not modelled,  *)
(* so TrimSpace is the identity.                                           *)
(***************************************************************************)
EXTENDS Integers, Sequences, SequencesExt

CONSTANTS
    \* the TurnDetection settings of the responder
    MinAudioMs, SilenceMs, IncompleteHoldMs, EndpointHintSilenceMs,
    LexicalOff      \* TurnDetectionLexicalMode is "off"

ASSUME DetectorAssumption ==
    /\ {MinAudioMs, SilenceMs, IncompleteHoldMs, EndpointHintSilenceMs} \subseteq Nat
    /\ LexicalOff \in BOOLEAN

AcceptLeadMs == 120
MinWaitMs == 120
MaxWaitMs == 900
PrewarmStableForMs == 120
DraftStableForMs == 200
PrewarmStableRatio == 60
DraftStableRatio == 82

NormalizeSilenceTurnDetectorConfig ==
    LET orDefault(v, d) == IF v = 0 THEN d ELSE v
    IN  [minAudio |-> orDefault(MinAudioMs, 320),
         silence |-> orDefault(SilenceMs, 480),
         hold |-> orDefault(IncompleteHoldMs, 720),
         hint |-> orDefault(EndpointHintSilenceMs, 160),
         lexicalOff |-> LexicalOff]

config == NormalizeSilenceTurnDetectorConfig

-----------------------------------------------------------------------------
(* Words.  bangwo: help me; dakai: open; gaicheng: change to; kankan: look  *)
(* at; deng: lamp; ma: the question particle; jidian: what time; ranhou:    *)
(* and then; budui: that's wrong; ting: stop for a moment; en: uh-huh;      *)
(* haode: okay.                                                             *)

chineseIncompleteSuffixes == {"bangwo", "ranhou"}
chineseStandaloneHesitations == {"ranhou", "en"}
chineseCorrectionSuffixes == {"budui", "gaicheng"}
bargeInTakeoverLexicon == {"budui", "gaicheng", "ting"}
backchannelTokens == {"en", "haode"}
chineseQuestionSuffixes == {"ma", "jidian"}
chineseStructuredCommandPrefixes == {"bangwo", "dakai", "gaicheng"}
chineseStructuredQueryPrefixes == {"kankan"}
TerminalPunctuation == {"stop_mark"}
PausePunctuation == {"comma"}
Punctuation == TerminalPunctuation \cup PausePunctuation
OneRune == Punctuation \cup {"deng", "ma", "en"}
ThreeRunes == {"ting"}

RunesOf(w) == IF w \in OneRune THEN 1 ELSE IF w \in ThreeRunes THEN 3 ELSE 2

Runes(text) == FoldLeft(LAMBDA n, w : n + RunesOf(w), 0, text)

EndsIn(text, words) == text # <<>> /\ Last(text) \in words
StartsIn(text, words) == text # <<>> /\ Head(text) \in words

firstNonEmpty(a, b) == IF a # <<>> THEN a ELSE b

TrimPunctuation(text) ==
    LET spoken == {i \in DOMAIN text : text[i] \notin Punctuation}
    IN  IF spoken = {} THEN <<>>
        ELSE SubSeq(text, CHOOSE i \in spoken : \A j \in spoken : i <= j,
                          CHOOSE i \in spoken : \A j \in spoken : j <= i)

\* A short text of one repeated character is a backchannel too, and so is every
\* text of one character.
looksLikeBackchannel(text) ==
    LET word == TrimPunctuation(text)
    IN  /\ word # <<>>
        /\ \/ Len(word) = 1 /\ word[1] \in backchannelTokens
           \/ Runes(word) <= 3 /\ \A i \in DOMAIN word : /\ word[i] = word[1]
                                                         /\ word[i] \in OneRune

looksLikeTakeoverLexicon(text) ==
    \E i \in DOMAIN text : text[i] \in bargeInTakeoverLexicon

looksLexicallyComplete(text) ==
    /\ text # <<>>
    /\ ~ (Len(text) = 1 /\ text[1] \in chineseStandaloneHesitations)
    /\ ~ EndsIn(text, PausePunctuation \cup chineseIncompleteSuffixes)

looksCorrectionPending(text) ==
    /\ EndsIn(text, chineseCorrectionSuffixes)
    /\ TrimPunctuation(Front(text)) # <<>>

looksQuestionClosure(text) == EndsIn(text, {"ma"})

analyzeUtteranceCompleteness(text) ==
    IF text = <<>> THEN [complete |-> FALSE, hold |-> ""]
    ELSE IF looksCorrectionPending(text)
    THEN [complete |-> FALSE, hold |-> "correction_hold"]
    ELSE IF ~ looksLexicallyComplete(text)
    THEN [complete |-> FALSE, hold |-> "lexical_hold"]
    ELSE [complete |-> TRUE, hold |-> ""]

Complete(text) == analyzeUtteranceCompleteness(text).complete

previewUtteranceComplete(stable, partial) ==
    /\ partial # <<>> => Complete(partial)
    /\ Complete(firstNonEmpty(stable, partial))

inferLexicalTaskFamily(text) ==
    IF text = <<>> THEN "unknown"
    ELSE IF looksLikeBackchannel(text) THEN "backchannel"
    ELSE IF looksCorrectionPending(text) \/ looksLikeTakeoverLexicon(text)
    THEN "correction"
    ELSE IF EndsIn(text, chineseQuestionSuffixes) THEN "knowledge_query"
    ELSE IF StartsIn(text, chineseStructuredQueryPrefixes) THEN "structured_query"
    ELSE IF StartsIn(text, chineseStructuredCommandPrefixes) THEN "structured_command"
    ELSE "dialogue"

taskFamilyRequiresSlotReadiness(family) == family = "structured_command"

-----------------------------------------------------------------------------
(* What the detector keeps.                                                 *)

Never == -1      \* the age of a zero time

NewSilenceTurnDetector ==
    [audio |-> 0,              \* audioBytes, as a duration
     silence |-> Never,        \* the age of lastAudioAt
     speechStarted |-> FALSE,
     partial |-> <<>>,         \* latestPartial
     stable |-> <<>>,          \* stablePrefix
     stableAge |-> Never,      \* the age of stablePrefixAt
     hint |-> FALSE,           \* latestEndpointHint is not empty
     commitSuggested |-> FALSE,
     commitReason |-> ""]

\* An age beyond every threshold it is compared with is as good as the threshold.
Older(age, ms, cap) ==
    IF age = Never THEN Never ELSE IF age + ms > cap THEN cap ELSE age + ms

Elapse(d, ms) ==
    [d EXCEPT !.silence = Older(@, ms, MaxWaitMs),
              !.stableAge = Older(@, ms, DraftStableForMs)]

ObserveAudio(d, ms) ==
    IF ms = 0 THEN d
    ELSE [d EXCEPT !.audio = @ + ms, !.silence = 0, !.speechStarted = TRUE]

longestCommonPrefix(a, b) ==
    LET same == {n \in 0 .. Len(a) : n <= Len(b) /\ SubSeq(a, 1, n) = SubSeq(b, 1, n)}
    IN  SubSeq(a, 1, CHOOSE n \in same : \A m \in same : m <= n)

updateStablePrefix(previous, stable, next, final) ==
    IF final THEN next
    ELSE IF previous = <<>> THEN stable
    ELSE IF previous = next
    THEN IF /\ stable # <<>> /\ IsPrefix(stable, next)
            /\ Complete(stable) /\ ~ Complete(next)
         THEN stable ELSE next
    ELSE LET common == longestCommonPrefix(previous, next)
         IN  IF common # <<>> /\ IsPrefix(stable, common) THEN common ELSE stable

\* A partial or final delta of the recogniser; its text is not empty.
ObserveTranscriptionDelta(d, text, hint, final) ==
    LET stable == updateStablePrefix(d.partial, d.stable, text, final)
    IN  [d EXCEPT !.stable = stable,
                  !.stableAge = IF stable = <<>> THEN Never
                                ELSE IF stable # d.stable \/ @ = Never THEN 0 ELSE @,
                  !.partial = text,
                  !.hint = hint]

-----------------------------------------------------------------------------
(* Arbitration: is the silence long enough to accept the turn?              *)

\* The wait before accepting and the endpoint reason, which is never empty.
baseWaitForPartial(d) ==
    LET live == analyzeUtteranceCompleteness(d.partial)
        shorter == config.hint < config.silence
    IN  IF d.hint /\ live.complete /\ (shorter \/ ~ config.lexicalOff)
        THEN [wait |-> IF shorter THEN config.hint ELSE config.silence,
              reason |-> "hint"]
        ELSE [wait |-> config.silence,
              reason |-> IF config.lexicalOff \/ live.complete
                         THEN "silence" ELSE live.hold]

previewTextStabilityRatio(text, stable) ==
    IF text = <<>> THEN 0
    ELSE LET percent == (100 * Runes(stable)) \div Runes(text)
         IN  IF percent > 100 THEN 100 ELSE percent

ruleAdjustMs(partial) ==
    IF config.lexicalOff \/ Complete(partial) THEN 0 ELSE config.hold

previewPunctuationAdjustMs(partial, utteranceComplete) ==
    IF config.lexicalOff THEN 0
    ELSE IF utteranceComplete
    THEN IF EndsIn(partial, TerminalPunctuation) THEN -100
         ELSE IF looksQuestionClosure(partial) THEN -80 ELSE 0
    ELSE IF EndsIn(partial, PausePunctuation \cup chineseIncompleteSuffixes)
         THEN 120 ELSE 0

\* Mutant: no upper bound.
clampLow(v, low, high) == IF v < low THEN low ELSE v

clampInt(v, low, high) == IF v < low THEN low ELSE IF v > high THEN high ELSE v

\* Folds the waits and the permissions of an arbitration into its decisions; the
\* arbitrator does it first, and each merged advice does it again.
recomputeTurnArbitration(text, a) ==
    LET ready == text # <<>> /\ a.audio >= config.minAudio
        wait == clampInt(a.baseWait + a.ruleAdjust + a.punctuationAdjust
                         + a.semanticWaitDelta + a.slotGuardAdjust,
                         MinWaitMs, MaxWaitMs)
        now == ready /\ a.silence >= wait
        soon == ready /\ a.silence + AcceptLeadMs >= wait
    IN  [a EXCEPT !.candidateReady = ready,
                  !.effectiveWait = wait,
                  !.acceptCandidate = soon,
                  !.acceptNow = now,
                  !.stage = IF now THEN "accept_now"
                            ELSE IF soon THEN "accept_candidate"
                            ELSE IF a.draftAllowed THEN "draft_allowed"
                            ELSE IF a.prewarmAllowed THEN "prewarm_allowed"
                            ELSE IF ready THEN "wait_for_more" ELSE "preview_only"]

\* The zero TurnArbitration, with the fields that decisions depend on.
NoArbitration ==
    [stage |-> "preview_only", reason |-> "", stability |-> 0, stableFor |-> 0,
     audio |-> 0, silence |-> 0, baseWait |-> 0, ruleAdjust |-> 0,
     punctuationAdjust |-> 0, semanticWaitDelta |-> 0, slotGuardAdjust |-> 0,
     effectiveWait |-> 0, candidateReady |-> FALSE, prewarmAllowed |-> FALSE,
     draftAllowed |-> FALSE, acceptCandidate |-> FALSE, acceptNow |-> FALSE,
     endpointHinted |-> FALSE, taskFamily |-> "unknown",
     semanticReady |-> FALSE, semanticComplete |-> FALSE, semanticIntent |-> "unknown",
     semanticConfidence |-> 0, slotReady |-> FALSE, slotActionability |-> ""]

\* Whether a structured command still has to show its slots.
SlotConstraintRequired(a) == taskFamilyRequiresSlotReadiness(a.taskFamily)

\* The permissions: a mature stable prefix may be prewarmed, a complete live text
\* may be drafted unless it is a structured command.
Arbitrate(d, base) ==
    LET utteranceComplete == previewUtteranceComplete(d.stable, d.partial)
        stability == previewTextStabilityRatio(d.partial, d.stable)
        stableFor == IF d.stableAge = Never THEN 0 ELSE d.stableAge
        family == inferLexicalTaskFamily(d.partial)
        mature == /\ Complete(d.stable)
                  /\ stability >= PrewarmStableRatio
                  /\ stableFor >= PrewarmStableForMs
        rule == ruleAdjustMs(d.partial)
    IN  recomputeTurnArbitration(firstNonEmpty(d.stable, d.partial),
          [NoArbitration EXCEPT
             !.reason = IF rule > 0 THEN analyzeUtteranceCompleteness(d.partial).hold
                        ELSE base.reason,
             !.stability = stability,
             !.stableFor = stableFor,
             !.audio = d.audio,
             !.silence = d.silence,
             !.baseWait = base.wait,
             !.ruleAdjust = rule,
             !.punctuationAdjust = previewPunctuationAdjustMs(d.partial, utteranceComplete),
             !.endpointHinted = base.reason # "",
             !.taskFamily = family,
             !.prewarmAllowed = mature \/ utteranceComplete,
             !.draftAllowed = utteranceComplete
                              /\ ~ taskFamilyRequiresSlotReadiness(family)])

\* Once the detector has accepted it goes on accepting.
Latching(d, a) ==
    IF d.commitSuggested
    THEN [a EXCEPT !.stage = "accept_now", !.acceptCandidate = TRUE,
                   !.acceptNow = TRUE, !.reason = d.commitReason]
    ELSE a

\* The arbitration of the detector's present state.
PresentArbitration(d) ==
    IF d.partial = <<>> \/ d.silence = Never
    THEN [NoArbitration EXCEPT !.audio = d.audio, !.baseWait = config.silence,
                               !.effectiveWait = config.silence]
    ELSE Latching(d, Arbitrate(d, baseWaitForPartial(d)))

SnapshotWith(d, a) ==
    [partial |-> d.partial, stable |-> d.stable, audio |-> d.audio,
     speechStarted |-> d.speechStarted,
     utteranceComplete |-> previewUtteranceComplete(d.stable, d.partial),
     commitSuggested |-> a.acceptNow,
     endpointReason |-> IF a.acceptCandidate THEN a.reason ELSE "",
     arbitration |-> a]

Snapshot(d) == SnapshotWith(d, PresentArbitration(d))

\* The detector after it gave snapshot p: it remembers that it has accepted.
Latched(d, p) ==
    [d EXCEPT !.commitSuggested = p.commitSuggested,
              !.commitReason = IF p.commitSuggested THEN p.arbitration.reason ELSE @]
=============================================================================
