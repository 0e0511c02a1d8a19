--------------------------------- MODULE BargeIn ---------------------------------
(***************************************************************************)
(* The interruption policy (internal/voice/barge_in.go): what to do with   *)
(* the response being played when the user makes a sound, judged from the  *)
(* input preview of that sound.  Scores are percentages.                   *)
(***************************************************************************)
EXTENDS SemanticAdvice

CONSTANTS BargeInMinAudioMs, BargeInHoldAudioMs   \* the profile's settings

ASSUME BargeInAssumption == {BargeInMinAudioMs, BargeInHoldAudioMs} \subseteq Nat

NormalizeBargeInConfig ==
    [minAudio |-> IF BargeInMinAudioMs = 0 THEN 120 ELSE BargeInMinAudioMs,
     hold |-> IF BargeInHoldAudioMs = 0 THEN 240 ELSE BargeInHoldAudioMs]

bargeInConfig == NormalizeBargeInConfig

AtLeast(v, floor) == IF v < floor THEN floor ELSE v
AtMost(v, top) == IF v > top THEN top ELSE v

bargeInBackchannelMinAudioMs(minAudio) == AtLeast(minAudio \div 2, 60)
bargeInAcousticGateMinAudioMs(minAudio) == AtMost(AtLeast(minAudio \div 2, 60), minAudio)

semanticIntentIsTakeover(intent) ==
    intent \in {"takeover", "correction", "request", "question", "continue"}

\* Mutant: the gate is only for audio below the minimum of the other rules.
acousticWindow(p) ==
    /\ p.audio >= bargeInAcousticGateMinAudioMs(bargeInConfig.minAudio)
    /\ p.audio <= bargeInConfig.minAudio

acousticReady(p) == p.audio >= bargeInAcousticGateMinAudioMs(bargeInConfig.minAudio)

bargeInSemanticReady(p, text) ==
    LET a == p.arbitration
    IN  /\ text # <<>>
        /\ \/ a.semanticReady /\ a.semanticConfidence >= SemanticJudgeMediumConfidence
           \/ a.draftAllowed \/ a.acceptCandidate \/ a.acceptNow \/ p.utteranceComplete
           \/ looksLexicallyComplete(text) \/ looksLikeTakeoverLexicon(text)
           \/ semanticIntentIsTakeover(a.semanticIntent)
           \/ p.stable # <<>> /\ (a.stability >= PrewarmStableRatio \/ Runes(p.stable) >= 4)

\* What the policy looks at: the evidence in preview p.
BargeInEvidence(p) ==
    LET a == p.arbitration
        text == firstNonEmpty(p.stable, p.partial)
        hinted == a.endpointHinted \/ p.endpointReason # ""
        candidate == \/ a.acceptCandidate \/ hinted
                     \/ a.stage \in {"accept_candidate", "accept_now"}
        now == a.acceptNow \/ p.commitSuggested \/ a.stage = "accept_now"
        lexicon == looksLikeTakeoverLexicon(text)
        complete == looksLexicallyComplete(text)
        takeover == semanticIntentIsTakeover(a.semanticIntent)
    IN  [text |-> text, audio |-> p.audio, hinted |-> hinted, acceptCandidate |-> candidate,
         acceptNow |-> now, intent |-> a.semanticIntent, confidence |-> a.semanticConfidence,
         semanticComplete |-> a.semanticComplete, takeover |-> takeover, lexicon |-> lexicon,
         lexicallyComplete |-> complete, semanticReady |-> bargeInSemanticReady(p, text),
         backchannel |-> \/ looksLikeBackchannel(text)
                         \/ /\ a.semanticIntent = "backchannel"
                            /\ a.semanticConfidence >= SemanticJudgeMediumConfidence,
         stable |-> a.stability >= DraftStableRatio, stableRunes |-> Runes(p.stable),
         acousticReady |-> acousticReady(p)]

Points(n, condition) == IF condition THEN n ELSE 0
clampPercent(score) == clampInt(score, 0, 100)

\* Mutant: the share of the audio is not limited.
audioScoreUnlimited(e) ==
    (35 * e.audio) \div bargeInAcousticGateMinAudioMs(bargeInConfig.minAudio)

audioScore(e) ==
    AtMost((35 * e.audio) \div bargeInAcousticGateMinAudioMs(bargeInConfig.minAudio), 35)

bargeInIntrusionScore(e) ==
    clampPercent(
        audioScore(e)
        + Points(15, e.text # <<>>) + Points(10, e.acousticReady) + Points(10, e.hinted)
        + Points(10, e.acceptCandidate) + Points(10, e.acceptNow) + Points(5, e.stableRunes >= 4)
        + Points(10, e.confidence >= SemanticJudgeMediumConfidence) + Points(-15, e.backchannel))

bargeInTakeoverScore(e) ==
    clampPercent(
        Points(30, e.lexicallyComplete) + Points(20, e.semanticReady)
        + Points(15, e.acceptCandidate) + Points(20, e.acceptNow) + Points(20, e.lexicon)
        + Points(25, e.takeover) + Points(10, e.semanticComplete) + Points(5, e.hinted)
        + Points(-45, e.backchannel) + Points(10, e.stable))

\* The policy: the first rule that applies, in the order of the code.
FirstRule(p, e) ==
    LET min == bargeInConfig.minAudio
        pending == ~ e.acceptCandidate /\ ~ e.acceptNow
        words == e.lexicallyComplete \/ e.lexicon \/ e.takeover
    IN  IF ~ p.speechStarted \/ p.audio = 0 THEN "ignore"
        ELSE IF /\ e.intent = "backchannel" /\ e.confidence >= SemanticJudgeHighConfidence
                /\ pending /\ ~ e.lexicon
        THEN "backchannel"
        ELSE IF e.acousticReady /\ e.takeover /\ e.confidence >= SemanticJudgeHighConfidence
        THEN "hard_interrupt"
        ELSE IF /\ e.backchannel /\ pending /\ ~ e.lexicon
                /\ p.audio >= bargeInBackchannelMinAudioMs(min)
        THEN "backchannel"
        ELSE IF p.audio >= min /\ ~ e.backchannel /\ words
        THEN "hard_interrupt"
        ELSE IF e.acceptNow /\ (words \/ e.semanticReady)
        THEN "hard_interrupt"
        ELSE IF /\ e.acceptCandidate /\ e.semanticReady /\ ~ e.backchannel
                /\ words \/ bargeInTakeoverScore(e) >= 68
        THEN "hard_interrupt"
        ELSE IF /\ p.audio >= min + bargeInConfig.hold /\ ~ e.backchannel
                /\ e.text # <<>> \/ bargeInIntrusionScore(e) >= 72
        THEN "hard_interrupt"
        ELSE IF p.audio < min
        THEN IF e.text # <<>> \/ e.acousticReady THEN "duck_only" ELSE "ignore"
        ELSE IF e.backchannel /\ bargeInTakeoverScore(e) < 35 /\ pending
        THEN "backchannel"
        ELSE "duck_only"

EvaluateBargeIn(p) == FirstRule(p, BargeInEvidence(p))

playbackDirectiveForDecision(policy) ==
    IF policy = "backchannel" THEN "duck_light"
    ELSE IF policy = "duck_only" THEN "duck_hold"
    ELSE IF policy = "hard_interrupt" THEN "interrupt" ELSE "normal"
=============================================================================
