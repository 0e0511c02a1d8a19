----------------------- MODULE InputPreviewProofs -----------------------
(***************************************************************************)
(* Proofs about InputPreview, for every reply, judgement and slot parse,   *)
(* every setting of the detector and of the policy, and any                *)
(* number of frames, chunks and questions in flight.                       *)
(*                                                                         *)
(* The invariant IInv says of the preview (Asking) that an answer is filed *)
(* under the wording it was asked about, that an adviser marked as         *)
(* evaluating has its question in flight, and that a suggestion to end the *)
(* turn that the detector has latched has been reported.  The last is why  *)
(* a suggestion that is new was made by the present silence, and not by an *)
(* earlier one (Observed).  Of the snapshot the read loop goes by          *)
(* (Judging), it says that one without words carries no sign of an end or  *)
(* of an interruption (Snapped): its intrusion score is then at most 60    *)
(* (SoundIsNoIntrusion), below the 72 that interrupts.  With words the     *)
(* score does not decide, and every other rule is monotone in the audio    *)
(* (LouderInterrupts).  Counted follows each chunk to the turn, the        *)
(* staging buffer and the detector.                                        *)
(*                                                                         *)
(* The operators come first: the detector, its snapshot, the advice merged *)
(* into it, one observation of the preview, the policy; then the steps.    *)
(***************************************************************************)
EXTENDS InputPreview, TLAPS

\* A detector knows no stable text without a partial one.
Detected(d) ==
    /\ DOMAIN d = DOMAIN NewSilenceTurnDetector
    /\ d.audio \in Nat
    /\ d.silence \in Never .. MaxWaitMs /\ d.stableAge \in Never .. DraftStableForMs
    /\ d.partial = <<>> => d.stable = <<>>

\* An answer that is kept is kept under the wording it is about, which has words.
Known(s) ==
    /\ {"evaluating", "lastRequestedKey", "key"} \subseteq DOMAIN s
    /\ s.key # NoKey => /\ {"asked", "answer"} \subseteq DOMAIN s
                        /\ s.asked = s.key /\ s.key[2] # <<>>

\* A preview whose detector has suggested the end of the turn has reported it.
Previewed(v) ==
    /\ DOMAIN v = DOMAIN NoPreview
    /\ v.open \in BOOLEAN
    /\ Detected(v.detector) /\ Known(v.judge) /\ Known(v.slots)
    /\ v.detector.commitSuggested => v.lastCommitLogged

\* A snapshot without words carries no sign of an end or of an interruption.
Wordless(p) ==
    /\ p.stable = <<>> /\ p.endpointReason = "" /\ p.commitSuggested = FALSE
    /\ p.arbitration.acceptCandidate = FALSE /\ p.arbitration.acceptNow = FALSE
    /\ p.arbitration.endpointHinted = FALSE /\ p.arbitration.stage = "preview_only"
    /\ p.arbitration.semanticIntent = "unknown"

Snapped(p) ==
    /\ DOMAIN p = DOMAIN NoSnapshot /\ DOMAIN p.arbitration = DOMAIN NoArbitration
    /\ p.audio \in Nat
    /\ p.partial = <<>> => Wordless(p)

\* A suggestion to end the turn is made in the silence the detector asks for.
EndsInSilence(p) ==
    /\ p.partial # <<>> /\ p.arbitration.audio >= config.minAudio
    /\ p.arbitration.silence >=
         clampInt(p.arbitration.baseWait + p.arbitration.ruleAdjust
                  + p.arbitration.punctuationAdjust, MinWaitMs, MaxWaitMs)

MainPCs == {"idle", "accept", "ensure", "push", "judge", "interrupt", "flush", "respond"}
OutPCs == {"none", "play", "look", "idle", "flush", "drop", "clear", "active"}

\* The chunks that have arrived are in the turn, staged, pushed or still with the loop.
Counted ==
    /\ frames \in 0 .. MaxFrames /\ main.chunks \in 0 .. MaxChunks
    /\ \E a, b, c \in 0 .. frames * MaxChunks :
         /\ audio = a * ChunkMs /\ staged = b * ChunkMs
         /\ preview.detector.audio = c * ChunkMs
         /\ a + b + (IF main.pc = "accept" THEN main.chunks ELSE 0) <= frames * MaxChunks
         /\ c + (IF main.pc \in {"accept", "ensure", "push"} THEN main.chunks ELSE 0)
              <= frames * MaxChunks

\* The read loop and the output goroutine are at a step of theirs.
Shapes ==
    /\ speaking \in BOOLEAN /\ previewing \in BOOLEAN
    /\ DOMAIN main = DOMAIN Idle /\ main.pc \in MainPCs
    /\ DOMAIN out = DOMAIN NoOutput /\ out.pc \in OutPCs

\* The preview, and the questions about it that are in flight.
Asking ==
    /\ Previewed(preview)
    /\ IsABag(questions)
    /\ \A q \in BagToSet(questions) : q.to \in {"judge", "slots"} /\ q.key[2] # <<>>
    /\ EvaluatingIsBacked

\* What the read loop goes by.
Judging == Snapped(main.heard) /\ TurnEndsInSilence /\ SoundAloneNeverInterrupts

IInv == Shapes /\ Asking /\ Judging /\ Counted

-----------------------------------------------------------------------------
(* The detector and its snapshots *)

(* The settings are naturals, and so the waits are integers.                *)
LEMMA Settings ==
    /\ config.minAudio \in Nat /\ config.silence \in Nat /\ config.hold \in Nat
    /\ config.hint \in Nat /\ bargeInConfig.minAudio \in Nat \ {0}
    /\ bargeInConfig.hold \in Nat \ {0}
  BY DetectorAssumption, BargeInAssumption
     DEF config, NormalizeSilenceTurnDetectorConfig, bargeInConfig, NormalizeBargeInConfig

(* A clamped wait is within its limits.                                     *)
LEMMA Clamped ==
    ASSUME NEW v \in Int
    PROVE  clampInt(v, MinWaitMs, MaxWaitMs) \in MinWaitMs .. MaxWaitMs
  BY DEF clampInt, MinWaitMs, MaxWaitMs

(* recomputeTurnArbitration decides by the words, the audio and the silence, *)
(* and leaves everything else in the arbitration as it is.                  *)
LEMMA Recomputed ==
    ASSUME NEW a, DOMAIN a = DOMAIN NoArbitration, NEW text
    PROVE  LET b == recomputeTurnArbitration(text, a)
           IN  /\ DOMAIN b = DOMAIN NoArbitration
               /\ b.audio = a.audio /\ b.silence = a.silence /\ b.baseWait = a.baseWait
               /\ b.ruleAdjust = a.ruleAdjust /\ b.punctuationAdjust = a.punctuationAdjust
               /\ b.semanticReady = a.semanticReady /\ b.slotReady = a.slotReady
               /\ b.acceptNow = (/\ text # <<>> /\ a.audio >= config.minAudio
                                 /\ a.silence >= clampInt(a.baseWait + a.ruleAdjust
                                      + a.punctuationAdjust + a.semanticWaitDelta
                                      + a.slotGuardAdjust, MinWaitMs, MaxWaitMs))
  BY DEF recomputeTurnArbitration, NoArbitration

(* The waits that the detector computes are integers.                       *)
LEMMA Waits ==
    ASSUME NEW d, NEW complete \in BOOLEAN
    PROVE  /\ baseWaitForPartial(d).wait \in Int
           /\ ruleAdjustMs(d.partial) \in Int
           /\ previewPunctuationAdjustMs(d.partial, complete) \in Int
<1>1. baseWaitForPartial(d).wait \in {config.hint, config.silence}
  BY DEF baseWaitForPartial
<1>2. ruleAdjustMs(d.partial) \in {0, config.hold}
  BY DEF ruleAdjustMs
<1>3. previewPunctuationAdjustMs(d.partial, complete) \in {-100, -80, 0, 120}
  BY DEF previewPunctuationAdjustMs
<1>. QED
  BY <1>1, <1>2, <1>3, Settings

(* Without words the arbitration says nothing.                              *)
LEMMA ArbitrationWordless ==
    ASSUME NEW d, d.partial = <<>>
    PROVE  /\ PresentArbitration(d) =
                [NoArbitration EXCEPT !.audio = d.audio, !.baseWait = config.silence,
                                      !.effectiveWait = config.silence]
           /\ DOMAIN PresentArbitration(d) = DOMAIN NoArbitration
           /\ PresentArbitration(d).acceptNow = FALSE
           /\ PresentArbitration(d).acceptCandidate = FALSE
           /\ PresentArbitration(d).endpointHinted = FALSE
           /\ PresentArbitration(d).stage = "preview_only"
           /\ PresentArbitration(d).semanticIntent = "unknown"
           /\ PresentArbitration(d).semanticReady = FALSE
           /\ PresentArbitration(d).slotReady = FALSE
  BY DEF PresentArbitration, NoArbitration

(* What the detector fills in before the decision.                          *)
LEMMA ArbitrateFields ==
    ASSUME NEW d, NEW base
    PROVE  LET a == Arbitrate(d, base)
           IN  /\ DOMAIN a = DOMAIN NoArbitration
               /\ a.audio = d.audio /\ a.silence = d.silence /\ a.baseWait = base.wait
               /\ a.ruleAdjust = ruleAdjustMs(d.partial)
               /\ a.punctuationAdjust =
                    previewPunctuationAdjustMs(d.partial,
                                               previewUtteranceComplete(d.stable, d.partial))
               /\ a.semanticReady = FALSE /\ a.slotReady = FALSE
               /\ a.acceptNow = (/\ firstNonEmpty(d.stable, d.partial) # <<>>
                                 /\ a.audio >= config.minAudio
                                 /\ a.silence >= clampInt(a.baseWait + a.ruleAdjust
                                      + a.punctuationAdjust + 0 + 0, MinWaitMs, MaxWaitMs))
<1>. DEFINE utteranceComplete == previewUtteranceComplete(d.stable, d.partial)
            stability == previewTextStabilityRatio(d.partial, d.stable)
            stableFor == IF d.stableAge = Never THEN 0 ELSE d.stableAge
            family == inferLexicalTaskFamily(d.partial)
            mature == /\ Complete(d.stable)
                      /\ stability >= PrewarmStableRatio
                      /\ stableFor >= PrewarmStableForMs
            rule == ruleAdjustMs(d.partial)
            punctuation == previewPunctuationAdjustMs(d.partial, utteranceComplete)
            reason == IF rule > 0 THEN analyzeUtteranceCompleteness(d.partial).hold
                      ELSE base.reason
            a0 == [NoArbitration EXCEPT
                     !.reason = reason, !.stability = stability, !.stableFor = stableFor,
                     !.audio = d.audio, !.silence = d.silence, !.baseWait = base.wait,
                     !.ruleAdjust = rule, !.punctuationAdjust = punctuation,
                     !.endpointHinted = base.reason # "", !.taskFamily = family,
                     !.prewarmAllowed = mature \/ utteranceComplete,
                     !.draftAllowed = /\ utteranceComplete
                                      /\ ~ taskFamilyRequiresSlotReadiness(family)]
            text == firstNonEmpty(d.stable, d.partial)
<1>1. Arbitrate(d, base) = recomputeTurnArbitration(text, a0)
  BY DEF Arbitrate
<1>. HIDE DEF utteranceComplete, stability, stableFor, family, mature, rule, punctuation,
              reason, text
<1>2. /\ DOMAIN a0 = DOMAIN NoArbitration
      /\ a0.audio = d.audio /\ a0.silence = d.silence /\ a0.baseWait = base.wait
      /\ a0.ruleAdjust = rule /\ a0.punctuationAdjust = punctuation
      /\ a0.semanticReady = FALSE /\ a0.slotReady = FALSE
      /\ a0.semanticWaitDelta = 0 /\ a0.slotGuardAdjust = 0
  BY DEF NoArbitration
<1>. HIDE DEF a0
<1>. DEFINE b == recomputeTurnArbitration(text, a0)
<1>3. /\ DOMAIN b = DOMAIN NoArbitration
      /\ b.audio = a0.audio /\ b.silence = a0.silence /\ b.baseWait = a0.baseWait
      /\ b.ruleAdjust = a0.ruleAdjust /\ b.punctuationAdjust = a0.punctuationAdjust
      /\ b.semanticReady = a0.semanticReady /\ b.slotReady = a0.slotReady
      /\ b.acceptNow = (/\ text # <<>> /\ a0.audio >= config.minAudio
                        /\ a0.silence >= clampInt(a0.baseWait + a0.ruleAdjust
                             + a0.punctuationAdjust + a0.semanticWaitDelta
                             + a0.slotGuardAdjust, MinWaitMs, MaxWaitMs))
  BY <1>2, Recomputed
<1>. HIDE DEF b
<1>. QED
  BY <1>1, <1>2, <1>3 DEF b, rule, punctuation, utteranceComplete, text

(* The arbitration of a detector, with words or without: no advice is in it *)
(* yet, and it accepts only in the silence that it asks for, unless it has  *)
(* accepted before.                                                         *)
LEMMA Present ==
    ASSUME NEW d, Detected(d)
    PROVE  LET a == PresentArbitration(d)
           IN  /\ DOMAIN a = DOMAIN NoArbitration
               /\ a.semanticReady = FALSE /\ a.slotReady = FALSE
               /\ a.acceptNow \in BOOLEAN
               /\ a.acceptNow /\ ~ d.commitSuggested =>
                    /\ d.partial # <<>> /\ a.audio >= config.minAudio
                    /\ a.silence >= clampInt(a.baseWait + a.ruleAdjust + a.punctuationAdjust,
                                             MinWaitMs, MaxWaitMs)
<1>. DEFINE a == PresentArbitration(d)
            b == Arbitrate(d, baseWaitForPartial(d))
<1>1. CASE d.partial = <<>>
  BY <1>1, ArbitrationWordless
<1>2. CASE d.partial # <<>> /\ d.silence = Never
  <2>1. a = [NoArbitration EXCEPT !.audio = d.audio, !.baseWait = config.silence,
                                  !.effectiveWait = config.silence]
    BY <1>2 DEF PresentArbitration
  <2>2. DOMAIN a = DOMAIN NoArbitration /\ a.semanticReady = FALSE /\ a.slotReady = FALSE
        /\ a.acceptNow = FALSE
    BY <2>1 DEF NoArbitration
  <2>. QED
    BY <2>2
<1>3. CASE d.partial # <<>> /\ d.silence # Never
  <2>1. a = Latching(d, b)
    BY <1>3 DEF PresentArbitration
  <2>2. /\ DOMAIN b = DOMAIN NoArbitration
        /\ b.semanticReady = FALSE /\ b.slotReady = FALSE
        /\ b.baseWait = baseWaitForPartial(d).wait /\ b.ruleAdjust = ruleAdjustMs(d.partial)
        /\ b.punctuationAdjust =
             previewPunctuationAdjustMs(d.partial, previewUtteranceComplete(d.stable, d.partial))
        /\ b.acceptNow = (/\ firstNonEmpty(d.stable, d.partial) # <<>>
                          /\ b.audio >= config.minAudio
                          /\ b.silence >= clampInt(b.baseWait + b.ruleAdjust
                               + b.punctuationAdjust + 0 + 0, MinWaitMs, MaxWaitMs))
    BY ArbitrateFields
  <2>3. previewUtteranceComplete(d.stable, d.partial) \in BOOLEAN
    BY DEF previewUtteranceComplete
  <2>4. b.baseWait \in Int /\ b.ruleAdjust \in Int /\ b.punctuationAdjust \in Int
    BY <2>2, <2>3, Waits
  <2>. HIDE DEF b
  <2>5. b.baseWait + b.ruleAdjust + b.punctuationAdjust + 0 + 0
          = b.baseWait + b.ruleAdjust + b.punctuationAdjust
    BY <2>4
  <2>6. CASE d.commitSuggested
    <3>1. a = [b EXCEPT !.stage = "accept_now", !.acceptCandidate = TRUE,
                        !.acceptNow = TRUE, !.reason = d.commitReason]
      BY <2>1, <2>6 DEF Latching
    <3>2. /\ DOMAIN a = DOMAIN NoArbitration /\ a.semanticReady = FALSE /\ a.slotReady = FALSE
          /\ a.acceptNow = TRUE
      BY <2>2, <3>1 DEF NoArbitration
    <3>. QED
      BY <2>6, <3>2
  <2>7. CASE ~ d.commitSuggested
    <3>1. a = b
      BY <2>1, <2>7 DEF Latching
    <3>. HIDE DEF a
    <3>2. /\ a.acceptNow = (/\ firstNonEmpty(d.stable, d.partial) # <<>>
                            /\ a.audio >= config.minAudio
                            /\ a.silence >= clampInt(a.baseWait + a.ruleAdjust
                                              + a.punctuationAdjust, MinWaitMs, MaxWaitMs))
      BY <2>2, <2>5, <3>1
    <3>3. DOMAIN a = DOMAIN NoArbitration /\ a.semanticReady = FALSE /\ a.slotReady = FALSE
      BY <2>2, <3>1
    <3>. QED
      BY <1>3, <3>2, <3>3 DEF a
  <2>. QED
    BY <2>6, <2>7
<1>. QED
  BY <1>1, <1>2, <1>3

(* Silence of MaxWaitMs after enough words is accepted, whatever the words. *)
LEMMA AcceptsAtLast ==
    ASSUME NEW d, Detected(d), d.partial # <<>>, d.audio >= config.minAudio,
           d.silence = MaxWaitMs
    PROVE  PresentArbitration(d).acceptNow = TRUE
<1>. DEFINE b == Arbitrate(d, baseWaitForPartial(d))
<1>1. PresentArbitration(d) = Latching(d, b)
  BY DEF PresentArbitration, MaxWaitMs, Never
<1>2. /\ DOMAIN b = DOMAIN NoArbitration /\ b.audio = d.audio /\ b.silence = d.silence
      /\ b.baseWait = baseWaitForPartial(d).wait /\ b.ruleAdjust = ruleAdjustMs(d.partial)
      /\ b.punctuationAdjust =
           previewPunctuationAdjustMs(d.partial, previewUtteranceComplete(d.stable, d.partial))
      /\ b.acceptNow = (/\ firstNonEmpty(d.stable, d.partial) # <<>>
                        /\ b.audio >= config.minAudio
                        /\ b.silence >= clampInt(b.baseWait + b.ruleAdjust
                             + b.punctuationAdjust + 0 + 0, MinWaitMs, MaxWaitMs))
  BY ArbitrateFields
<1>3. previewUtteranceComplete(d.stable, d.partial) \in BOOLEAN
  BY DEF previewUtteranceComplete
<1>4. b.baseWait + b.ruleAdjust + b.punctuationAdjust + 0 + 0 \in Int
  BY <1>2, <1>3, Waits
<1>. HIDE DEF b
<1>5. b.silence >= clampInt(b.baseWait + b.ruleAdjust + b.punctuationAdjust + 0 + 0,
                            MinWaitMs, MaxWaitMs)
  <2>1. clampInt(b.baseWait + b.ruleAdjust + b.punctuationAdjust + 0 + 0, MinWaitMs, MaxWaitMs)
          \in MinWaitMs .. MaxWaitMs
    BY <1>4, Clamped
  <2>2. \A w \in MinWaitMs .. MaxWaitMs : MaxWaitMs >= w
    BY DEF MinWaitMs, MaxWaitMs
  <2>3. b.silence = MaxWaitMs
    BY <1>2
  <2>. QED
    BY <2>1, <2>2, <2>3
<1>6. b.acceptNow = TRUE
  BY <1>2, <1>5 DEF firstNonEmpty
<1>7. Latching(d, b).acceptNow = TRUE
  BY <1>2, <1>6 DEF Latching, NoArbitration
<1>. QED
  BY <1>1, <1>7

(* A snapshot shows the detector.                                           *)
LEMMA Shown ==
    ASSUME NEW d, Detected(d)
    PROVE  LET p == Snapshot(d)
           IN  /\ Snapped(p) /\ p.partial = d.partial /\ p.stable = d.stable
               /\ p.commitSuggested \in BOOLEAN
               /\ p.commitSuggested = PresentArbitration(d).acceptNow
               /\ p.arbitration.semanticReady = FALSE /\ p.arbitration.slotReady = FALSE
               /\ p.commitSuggested /\ ~ d.commitSuggested => EndsInSilence(p)
<1>. DEFINE a == PresentArbitration(d)
            p == Snapshot(d)
<1>1. /\ p.partial = d.partial /\ p.stable = d.stable /\ p.audio = d.audio
      /\ p.commitSuggested = a.acceptNow /\ p.arbitration = a
      /\ p.endpointReason = (IF a.acceptCandidate THEN a.reason ELSE "")
      /\ DOMAIN p = DOMAIN NoSnapshot
  BY DEF Snapshot, SnapshotWith, NoSnapshot
<1>2. /\ DOMAIN a = DOMAIN NoArbitration
      /\ a.semanticReady = FALSE /\ a.slotReady = FALSE
      /\ a.acceptNow \in BOOLEAN
      /\ a.acceptNow /\ ~ d.commitSuggested =>
           /\ d.partial # <<>> /\ a.audio >= config.minAudio
           /\ a.silence >= clampInt(a.baseWait + a.ruleAdjust + a.punctuationAdjust,
                                    MinWaitMs, MaxWaitMs)
  BY Present
<1>3. d.partial = <<>> => /\ a.acceptNow = FALSE /\ a.acceptCandidate = FALSE
                          /\ a.endpointHinted = FALSE /\ a.stage = "preview_only"
                          /\ a.semanticIntent = "unknown" /\ d.stable = <<>>
  BY ArbitrationWordless DEF Detected
<1>. HIDE DEF a, p
<1>4. Snapped(p)
  BY <1>1, <1>2, <1>3 DEF Snapped, Wordless, Detected
<1>5. p.commitSuggested /\ ~ d.commitSuggested => EndsInSilence(p)
  BY <1>1, <1>2 DEF EndsInSilence
<1>. QED
  BY <1>1, <1>2, <1>4, <1>5 DEF a, p

(* Merging an answer of the judge leaves the words, the silence and the     *)
(* suggestion alone.                                                        *)
LEMMA JudgeMerged ==
    ASSUME NEW p, DOMAIN p = DOMAIN NoSnapshot,
           DOMAIN p.arbitration = DOMAIN NoArbitration, NEW j
    PROVE  LET m == mergeSemanticJudgement(p, j)
           IN  /\ DOMAIN m = DOMAIN NoSnapshot /\ DOMAIN m.arbitration = DOMAIN NoArbitration
               /\ m.partial = p.partial /\ m.stable = p.stable /\ m.audio = p.audio
               /\ m.commitSuggested = p.commitSuggested
               /\ m.arbitration.audio = p.arbitration.audio
               /\ m.arbitration.silence = p.arbitration.silence
               /\ m.arbitration.baseWait = p.arbitration.baseWait
               /\ m.arbitration.ruleAdjust = p.arbitration.ruleAdjust
               /\ m.arbitration.punctuationAdjust = p.arbitration.punctuationAdjust
               /\ m.arbitration.slotReady = p.arbitration.slotReady
<1>. DEFINE a == p.arbitration
            sure == j.confidence >= SemanticJudgeMediumConfidence
            complete == sure /\ j.status = "complete" /\ j.intent # "backchannel"
            corrected == sure /\ j.status = "correction"
            family == IF j.family # "unknown" /\ sure THEN j.family ELSE a.taskFamily
            draft == IF j.slots = "unknown" THEN ~ taskFamilyRequiresSlotReadiness(family)
                     ELSE j.slots # "wait_slot"
            delta == IF j.waitDelta # 0 THEN j.waitDelta ELSE defaultSemanticWaitDelta(j)
            b == [a EXCEPT
                    !.semanticReady = TRUE,
                    !.semanticComplete = j.status = "complete",
                    !.semanticIntent = j.intent,
                    !.semanticConfidence = j.confidence,
                    !.taskFamily = family,
                    !.semanticWaitDelta = delta,
                    !.prewarmAllowed = @ \/ complete,
                    !.draftAllowed = IF corrected THEN FALSE ELSE IF complete THEN draft ELSE @,
                    !.slotActionability = IF complete /\ j.slots = "clarify"
                                          THEN "clarify_needed" ELSE @]
            text == firstNonEmpty(p.stable, p.partial)
            uc == IF corrected THEN FALSE ELSE p.utteranceComplete \/ complete
<1>1. mergeSemanticJudgement(p, j) =
        [p EXCEPT !.utteranceComplete = uc, !.arbitration = recomputeTurnArbitration(text, b)]
  BY DEF mergeSemanticJudgement
<1>. HIDE DEF sure, complete, corrected, family, draft, delta, text, uc
<1>2. /\ DOMAIN b = DOMAIN NoArbitration /\ b.audio = a.audio /\ b.silence = a.silence
      /\ b.baseWait = a.baseWait /\ b.ruleAdjust = a.ruleAdjust
      /\ b.punctuationAdjust = a.punctuationAdjust /\ b.slotReady = a.slotReady
  BY DEF NoArbitration
<1>. HIDE DEF a, b
<1>. DEFINE c == recomputeTurnArbitration(text, b)
<1>3. /\ DOMAIN c = DOMAIN NoArbitration
      /\ c.audio = b.audio /\ c.silence = b.silence /\ c.baseWait = b.baseWait
      /\ c.ruleAdjust = b.ruleAdjust /\ c.punctuationAdjust = b.punctuationAdjust
      /\ c.slotReady = b.slotReady
  BY <1>2, Recomputed
<1>. HIDE DEF c
<1>4. mergeSemanticJudgement(p, j) = [p EXCEPT !.utteranceComplete = uc, !.arbitration = c]
  BY <1>1 DEF c
<1>. QED
  BY <1>2, <1>3, <1>4 DEF NoSnapshot, a

(* So does merging an answer of the slot parser.                            *)
LEMMA SlotsMerged ==
    ASSUME NEW p, DOMAIN p = DOMAIN NoSnapshot,
           DOMAIN p.arbitration = DOMAIN NoArbitration, NEW r
    PROVE  LET m == mergeSemanticSlotParse(p, r)
           IN  /\ DOMAIN m = DOMAIN NoSnapshot /\ DOMAIN m.arbitration = DOMAIN NoArbitration
               /\ m.partial = p.partial /\ m.stable = p.stable /\ m.audio = p.audio
               /\ m.commitSuggested = p.commitSuggested
               /\ m.arbitration.audio = p.arbitration.audio
               /\ m.arbitration.silence = p.arbitration.silence
               /\ m.arbitration.baseWait = p.arbitration.baseWait
               /\ m.arbitration.ruleAdjust = p.arbitration.ruleAdjust
               /\ m.arbitration.punctuationAdjust = p.arbitration.punctuationAdjust
               /\ m.arbitration.semanticReady = p.arbitration.semanticReady
<1>. DEFINE a == p.arbitration
            sure == r.confidence >= SemanticJudgeMediumConfidence
            go == sure /\ r.actionability \in {"draft_ok", "clarify_needed", "act_candidate"}
            wait == sure /\ r.actionability = "wait_more"
            family == inferSlotTaskFamily(p, r)
            guard == slotGuardAdjustMs(r)
            b == [a EXCEPT !.slotReady = TRUE,
                           !.taskFamily = family,
                           !.slotActionability = r.actionability,
                           !.prewarmAllowed = @ \/ go,
                           !.draftAllowed = go \/ (@ /\ ~ wait),
                           !.slotGuardAdjust = guard]
            text == firstNonEmpty(p.stable, p.partial)
<1>1. mergeSemanticSlotParse(p, r) = [p EXCEPT !.arbitration = recomputeTurnArbitration(text, b)]
  BY DEF mergeSemanticSlotParse
<1>. HIDE DEF sure, go, wait, family, guard, text
<1>2. /\ DOMAIN b = DOMAIN NoArbitration /\ b.audio = a.audio /\ b.silence = a.silence
      /\ b.baseWait = a.baseWait /\ b.ruleAdjust = a.ruleAdjust
      /\ b.punctuationAdjust = a.punctuationAdjust /\ b.semanticReady = a.semanticReady
  BY DEF NoArbitration
<1>. HIDE DEF a, b
<1>. DEFINE c == recomputeTurnArbitration(text, b)
<1>3. /\ DOMAIN c = DOMAIN NoArbitration
      /\ c.audio = b.audio /\ c.silence = b.silence /\ c.baseWait = b.baseWait
      /\ c.ruleAdjust = b.ruleAdjust /\ c.punctuationAdjust = b.punctuationAdjust
      /\ c.semanticReady = b.semanticReady
  BY <1>2, Recomputed
<1>. HIDE DEF c
<1>4. mergeSemanticSlotParse(p, r) = [p EXCEPT !.arbitration = c]
  BY <1>1 DEF c
<1>. QED
  BY <1>2, <1>3, <1>4 DEF NoSnapshot, a

-----------------------------------------------------------------------------
(* An observation of the preview *)

(* The key of a snapshot names its wording, and is not the empty key.       *)
LEMMA Keys ==
    ASSUME NEW p
    PROVE  KeyOf(p) # NoKey /\ KeyOf(p)[2] = p.partial
  BY DEF KeyOf, semanticCandidateKey, NoKey

(* Without words nobody is asked.                                           *)
LEMMA NothingToAsk ==
    ASSUME NEW d, Detected(d), d.partial = <<>>
    PROVE  /\ ~ shouldJudgeSemantic(Snapshot(d))
           /\ ~ shouldParseSemanticSlots(Snapshot(d))
<1>. DEFINE p == Snapshot(d)
<1>1. p.partial = <<>> /\ p.stable = <<>> /\ p.arbitration = PresentArbitration(d)
      /\ p.utteranceComplete = previewUtteranceComplete(d.stable, d.partial)
  BY DEF Snapshot, SnapshotWith, Detected
<1>2. PresentArbitration(d) =
        [NoArbitration EXCEPT !.audio = d.audio, !.baseWait = config.silence,
                              !.effectiveWait = config.silence]
  BY ArbitrationWordless
<1>3. /\ p.arbitration.taskFamily = "unknown" /\ p.arbitration.candidateReady = FALSE
      /\ p.arbitration.stableFor = 0 /\ p.arbitration.draftAllowed = FALSE
      /\ p.arbitration.acceptCandidate = FALSE /\ p.arbitration.acceptNow = FALSE
      /\ p.arbitration.semanticComplete = FALSE
  BY <1>1, <1>2 DEF NoArbitration
<1>4. p.utteranceComplete = FALSE
  BY <1>1 DEF Detected, previewUtteranceComplete, firstNonEmpty, Complete,
     analyzeUtteranceCompleteness
<1>. HIDE DEF p
<1>5. firstNonEmpty(p.stable, p.partial) = <<>>
  BY <1>1 DEF firstNonEmpty
<1>6. ~ shouldJudgeSemantic(p)
  BY <1>5 DEF shouldJudgeSemantic
<1>7. ~ shouldParseSemanticSlots(p)
  BY <1>3, <1>4 DEF shouldParseSemanticSlots, SlotConstraintRequired,
     taskFamilyRequiresSlotReadiness, SemanticSlotParserMinStableFor
<1>. QED
  BY <1>6, <1>7 DEF p

(* The judge's answer is merged into the snapshot of its wording.           *)
LEMMA JudgedSnapshot ==
    ASSUME NEW d, Detected(d), NEW s, Known(s)
    PROVE  LET seen == Snapshot(d)
               m == mergedSemanticSnapshot(s, seen)
           IN  /\ Snapped(m) /\ m.partial = d.partial /\ m.stable = d.stable
               /\ m.commitSuggested = seen.commitSuggested
               /\ EndsInSilence(seen) => EndsInSilence(m)
               /\ m.arbitration.slotReady = FALSE
               /\ m.arbitration.semanticReady # FALSE => s.asked = KeyOf(m)
               /\ d.partial = <<>> => m = seen
<1>. DEFINE seen == Snapshot(d)
            m == mergedSemanticSnapshot(s, seen)
<1>1. /\ Snapped(seen) /\ seen.partial = d.partial /\ seen.stable = d.stable
      /\ seen.arbitration.semanticReady = FALSE /\ seen.arbitration.slotReady = FALSE
  BY Shown
<1>2. CASE s.key # KeyOf(seen)
  <2>1. m = seen
    BY <1>2 DEF mergedSemanticSnapshot
  <2>. HIDE DEF m, seen
  <2>2. /\ Snapped(m) /\ m.partial = d.partial /\ m.stable = d.stable
        /\ m.commitSuggested = seen.commitSuggested
        /\ EndsInSilence(seen) => EndsInSilence(m)
        /\ m.arbitration.slotReady = FALSE /\ m.arbitration.semanticReady = FALSE
    BY <1>1, <2>1
  <2>. QED
    BY <2>1, <2>2 DEF m, seen
<1>3. CASE s.key = KeyOf(seen)
  <2>1. m = mergeSemanticJudgement(seen, s.answer)
    BY <1>3 DEF mergedSemanticSnapshot
  <2>2. s.asked = KeyOf(seen) /\ d.partial # <<>>
    BY <1>1, <1>3, Keys DEF Known
  <2>. HIDE DEF seen, m
  <2>3. /\ DOMAIN m = DOMAIN NoSnapshot /\ DOMAIN m.arbitration = DOMAIN NoArbitration
        /\ m.partial = seen.partial /\ m.stable = seen.stable /\ m.audio = seen.audio
        /\ m.commitSuggested = seen.commitSuggested
        /\ m.arbitration.audio = seen.arbitration.audio
        /\ m.arbitration.silence = seen.arbitration.silence
        /\ m.arbitration.baseWait = seen.arbitration.baseWait
        /\ m.arbitration.ruleAdjust = seen.arbitration.ruleAdjust
        /\ m.arbitration.punctuationAdjust = seen.arbitration.punctuationAdjust
        /\ m.arbitration.slotReady = seen.arbitration.slotReady
    BY <1>1, <2>1, JudgeMerged DEF Snapped
  <2>4. Snapped(m)
    BY <1>1, <2>2, <2>3 DEF Snapped
  <2>5. EndsInSilence(seen) => EndsInSilence(m)
    BY <2>3 DEF EndsInSilence
  <2>6. KeyOf(m) = KeyOf(seen)
    BY <2>3 DEF KeyOf, semanticCandidateKey
  <2>. QED
    BY <1>1, <2>2, <2>3, <2>4, <2>5, <2>6 DEF seen, m
<1>. QED
  BY <1>2, <1>3

(* So is the slot parser's.                                                 *)
LEMMA ParsedSnapshot ==
    ASSUME NEW p, Snapped(p), p.arbitration.slotReady = FALSE, NEW s, Known(s)
    PROVE  LET m == mergedSlotSnapshot(s, p)
           IN  /\ Snapped(m) /\ KeyOf(m) = KeyOf(p)
               /\ m.commitSuggested = p.commitSuggested
               /\ EndsInSilence(p) => EndsInSilence(m)
               /\ m.arbitration.semanticReady = p.arbitration.semanticReady
               /\ m.arbitration.slotReady # FALSE => s.asked = KeyOf(m)
<1>. DEFINE m == mergedSlotSnapshot(s, p)
<1>1. CASE s.key # KeyOf(p)
  <2>1. m = p
    BY <1>1 DEF mergedSlotSnapshot
  <2>. HIDE DEF m
  <2>. QED
    BY <2>1 DEF m
<1>2. CASE s.key = KeyOf(p)
  <2>1. m = mergeSemanticSlotParse(p, s.answer)
    BY <1>2 DEF mergedSlotSnapshot
  <2>2. s.asked = KeyOf(p) /\ p.partial # <<>>
    BY <1>2, Keys DEF Known
  <2>. HIDE DEF m
  <2>3. /\ DOMAIN m = DOMAIN NoSnapshot /\ DOMAIN m.arbitration = DOMAIN NoArbitration
        /\ m.partial = p.partial /\ m.stable = p.stable /\ m.audio = p.audio
        /\ m.commitSuggested = p.commitSuggested
        /\ m.arbitration.audio = p.arbitration.audio
        /\ m.arbitration.silence = p.arbitration.silence
        /\ m.arbitration.baseWait = p.arbitration.baseWait
        /\ m.arbitration.ruleAdjust = p.arbitration.ruleAdjust
        /\ m.arbitration.punctuationAdjust = p.arbitration.punctuationAdjust
        /\ m.arbitration.semanticReady = p.arbitration.semanticReady
    BY <2>1, SlotsMerged DEF Snapped
  <2>4. Snapped(m)
    BY <2>2, <2>3 DEF Snapped
  <2>5. EndsInSilence(p) => EndsInSilence(m)
    BY <2>3 DEF EndsInSilence
  <2>6. KeyOf(m) = KeyOf(p)
    BY <2>3 DEF KeyOf, semanticCandidateKey
  <2>. QED
    BY <2>2, <2>3, <2>4, <2>5, <2>6 DEF m
<1>. QED
  BY <1>1, <1>2

(* A question that is asked.                                                *)
LEMMA LaunchedRequest ==
    ASSUME NEW s, Known(s), NEW key
    PROVE  /\ Known(Launched(s, key)) /\ Launched(s, key).evaluating = TRUE
           /\ Launched(s, key).lastRequestedKey = key
<1>. DEFINE t == Launched(s, key)
<1>1. /\ DOMAIN t = DOMAIN s /\ t.evaluating = TRUE /\ t.lastRequestedKey = key
      /\ t.key = s.key /\ ("asked" \in DOMAIN s => t.asked = s.asked)
  BY DEF Launched, Known
<1>. HIDE DEF t
<1>2. Known(t)
  BY <1>1 DEF Known
<1>. QED
  BY <1>1, <1>2 DEF t

\* Every request of the new preview was there, or is among the questions asked.
Backs(v, w, asked) ==
    /\ w.judge.evaluating =>
         \/ v.judge.evaluating /\ w.judge.lastRequestedKey = v.judge.lastRequestedKey
         \/ [to |-> "judge", key |-> w.judge.lastRequestedKey] \in asked
    /\ w.slots.evaluating =>
         \/ v.slots.evaluating /\ w.slots.lastRequestedKey = v.slots.lastRequestedKey
         \/ [to |-> "slots", key |-> w.slots.lastRequestedKey] \in asked

(* What one observation shows, remembers and asks.                          *)
LEMMA Observed ==
    ASSUME NEW v, Previewed(v)
    PROVE  LET o == Observe(v)
           IN  /\ Snapped(o.snapshot)
               /\ o.snapshot.arbitration.semanticReady => v.judge.asked = KeyOf(o.snapshot)
               /\ o.snapshot.arbitration.slotReady => v.slots.asked = KeyOf(o.snapshot)
               /\ o.commitNew => EndsInSilence(o.snapshot)
               /\ Previewed(o.preview) /\ o.preview.open = v.open
               /\ o.preview.detector.audio = v.detector.audio
               /\ o.preview.detector.silence = v.detector.silence
               /\ o.preview.detector.commitSuggested = PresentArbitration(v.detector).acceptNow
               /\ \E asked : /\ o.questions = SetToBag(asked) /\ Backs(v, o.preview, asked)
                             /\ \A q \in asked : /\ q.to \in {"judge", "slots"}
                                                 /\ q.key[2] # <<>>
<1>. DEFINE d == v.detector
            seen == Snapshot(d)
            judged == mergedSemanticSnapshot(v.judge, seen)
            key == KeyOf(seen)
            asksJudge == maybeLaunchSemanticJudge(v.judge, seen)
            asksSlots == maybeLaunchSlotParser(v.slots, judged)
            asked == {[to |-> t, key |-> key] :
                        t \in {u \in {"judge", "slots"} :
                                 IF u = "judge" THEN asksJudge ELSE asksSlots}}
            new == CommitNew(v, seen)
            shown == mergedSlotSnapshot(v.slots, judged)
            judge == IF asksJudge THEN Launched(v.judge, key) ELSE v.judge
            slots == IF asksSlots THEN Launched(v.slots, key) ELSE v.slots
            w == [v EXCEPT !.detector = Latched(d, seen), !.judge = judge, !.slots = slots,
                           !.lastCommitLogged = v.lastCommitLogged \/ new]
<1>0. DOMAIN v = DOMAIN NoPreview /\ Detected(d) /\ Known(v.judge) /\ Known(v.slots)
      /\ v.open \in BOOLEAN /\ (d.commitSuggested => v.lastCommitLogged)
  BY DEF Previewed
<1>1. Observe(v) = [snapshot |-> shown, commitNew |-> new, questions |-> SetToBag(asked),
                    preview |-> w]
  BY DEF Observe, ObservationOf, Observation
<1>2. /\ Snapped(seen) /\ seen.partial = d.partial /\ seen.stable = d.stable
      /\ seen.commitSuggested \in BOOLEAN
      /\ seen.commitSuggested = PresentArbitration(d).acceptNow
      /\ seen.commitSuggested /\ ~ d.commitSuggested => EndsInSilence(seen)
  BY <1>0, Shown
<1>3. /\ Snapped(judged) /\ judged.partial = d.partial /\ judged.stable = d.stable
      /\ EndsInSilence(seen) => EndsInSilence(judged)
      /\ judged.arbitration.slotReady = FALSE
      /\ judged.arbitration.semanticReady # FALSE => v.judge.asked = KeyOf(judged)
      /\ d.partial = <<>> => judged = seen
  BY <1>0, JudgedSnapshot
<1>4. d.partial = <<>> => ~ asksJudge /\ ~ asksSlots
  <2>1. d.partial = <<>> => ~ shouldJudgeSemantic(seen) /\ ~ shouldParseSemanticSlots(seen)
    BY <1>0, NothingToAsk
  <2>. HIDE DEF seen, judged
  <2>. QED
    BY <1>3, <2>1 DEF maybeLaunchSemanticJudge, maybeLaunchSlotParser
<1>5. key[2] = d.partial
  BY <1>2, Keys
<1>. HIDE DEF seen, judged, key, asksJudge, asksSlots
<1>6. /\ Snapped(shown) /\ KeyOf(shown) = KeyOf(judged)
      /\ EndsInSilence(judged) => EndsInSilence(shown)
      /\ shown.arbitration.semanticReady = judged.arbitration.semanticReady
      /\ shown.arbitration.slotReady # FALSE => v.slots.asked = KeyOf(shown)
  BY <1>0, <1>3, ParsedSnapshot
<1>7. new => EndsInSilence(shown)
  BY <1>0, <1>2, <1>3, <1>6 DEF CommitNew
<1>8. \A q \in asked : q.to \in {"judge", "slots"} /\ q.key[2] # <<>>
  <2>1. ASSUME NEW q \in asked PROVE q.to \in {"judge", "slots"} /\ q.key[2] # <<>>
    <3>1. PICK t \in {u \in {"judge", "slots"} : IF u = "judge" THEN asksJudge ELSE asksSlots} :
            q = [to |-> t, key |-> key]
      OBVIOUS
    <3>2. asksJudge \/ asksSlots
      BY <3>1
    <3>. QED
      BY <1>4, <1>5, <3>1, <3>2
  <2>. QED
    BY <2>1
<1>9. /\ Known(judge) /\ Known(slots)
      /\ judge.evaluating =>
           \/ v.judge.evaluating /\ judge.lastRequestedKey = v.judge.lastRequestedKey
           \/ [to |-> "judge", key |-> judge.lastRequestedKey] \in asked
      /\ slots.evaluating =>
           \/ v.slots.evaluating /\ slots.lastRequestedKey = v.slots.lastRequestedKey
           \/ [to |-> "slots", key |-> slots.lastRequestedKey] \in asked
  <2>1. CASE asksJudge
    <3>1. Known(judge) /\ judge.lastRequestedKey = key
      BY <1>0, <2>1, LaunchedRequest
    <3>2. [to |-> "judge", key |-> key] \in asked
      BY <2>1
    <3>. QED
      <4>1. CASE asksSlots
        BY <1>0, <3>1, <3>2, <4>1, LaunchedRequest
      <4>2. CASE ~ asksSlots
        BY <1>0, <3>1, <3>2, <4>2
      <4>. QED
        BY <4>1, <4>2
  <2>2. CASE ~ asksJudge
    <3>1. judge = v.judge
      BY <2>2
    <3>2. CASE asksSlots
      BY <1>0, <3>1, <3>2, LaunchedRequest
    <3>3. CASE ~ asksSlots
      BY <1>0, <3>1, <3>3
    <3>. QED
      BY <3>2, <3>3
  <2>. QED
    BY <2>1, <2>2
<1>. HIDE DEF judge, slots, asked, shown
<1>10. /\ DOMAIN w = DOMAIN NoPreview /\ w.open = v.open /\ w.detector = Latched(d, seen)
       /\ w.judge = judge /\ w.slots = slots /\ w.lastCommitLogged = (v.lastCommitLogged \/ new)
  BY <1>0 DEF NoPreview
<1>. HIDE DEF w
<1>11. /\ Detected(w.detector) /\ w.detector.commitSuggested = seen.commitSuggested
       /\ w.detector.audio = d.audio /\ w.detector.silence = d.silence
  <2>1. DOMAIN d = DOMAIN NewSilenceTurnDetector
    BY <1>0 DEF Detected
  <2>2. /\ DOMAIN w.detector = DOMAIN NewSilenceTurnDetector
        /\ w.detector.commitSuggested = seen.commitSuggested
        /\ w.detector.audio = d.audio /\ w.detector.silence = d.silence
        /\ w.detector.stableAge = d.stableAge /\ w.detector.partial = d.partial
        /\ w.detector.stable = d.stable
    BY <1>10, <2>1 DEF Latched, NewSilenceTurnDetector
  <2>. QED
    BY <1>0, <2>2 DEF Detected
<1>12. w.detector.commitSuggested => w.lastCommitLogged
  BY <1>2, <1>10, <1>11 DEF CommitNew
<1>13. Previewed(w)
  BY <1>0, <1>9, <1>10, <1>11, <1>12 DEF Previewed
<1>14. Backs(v, w, asked)
  BY <1>9, <1>10 DEF Backs
<1>. HIDE DEF new
<1>15. /\ Observe(v).snapshot = shown /\ Observe(v).commitNew = new
       /\ Observe(v).questions = SetToBag(asked) /\ Observe(v).preview = w
  BY <1>1
<1>16. /\ shown.arbitration.semanticReady => v.judge.asked = KeyOf(shown)
       /\ shown.arbitration.slotReady => v.slots.asked = KeyOf(shown)
  BY <1>3, <1>6
<1>17. w.detector.commitSuggested = PresentArbitration(v.detector).acceptNow
       /\ w.detector.audio = v.detector.audio /\ w.detector.silence = v.detector.silence
  BY <1>2, <1>11
<1>18. \E A : /\ Observe(v).questions = SetToBag(A) /\ Backs(v, w, A)
              /\ \A q \in A : q.to \in {"judge", "slots"} /\ q.key[2] # <<>>
  BY <1>8, <1>14, <1>15
<1>. QED
  BY <1>6, <1>7, <1>10, <1>13, <1>15, <1>16, <1>17, <1>18

-----------------------------------------------------------------------------
(* The detector's steps *)

(* Time passes.                                                             *)
LEMMA Aged ==
    ASSUME NEW d, Detected(d), NEW ms \in Nat
    PROVE  /\ Detected(Elapse(d, ms)) /\ Elapse(d, ms).audio = d.audio
           /\ Elapse(d, ms).partial = d.partial /\ Elapse(d, ms).stable = d.stable
           /\ Elapse(d, ms).commitSuggested = d.commitSuggested
<1>. DEFINE e == Elapse(d, ms)
<1>1. /\ DOMAIN e = DOMAIN NewSilenceTurnDetector /\ e.audio = d.audio
      /\ e.partial = d.partial /\ e.stable = d.stable /\ e.commitSuggested = d.commitSuggested
      /\ e.silence = Older(d.silence, ms, MaxWaitMs)
      /\ e.stableAge = Older(d.stableAge, ms, DraftStableForMs)
  BY DEF Elapse, Detected, NewSilenceTurnDetector
<1>2. ASSUME NEW cap \in Nat, NEW age \in Never .. cap PROVE Older(age, ms, cap) \in Never .. cap
  BY <1>2 DEF Older, Never
<1>3. /\ Older(d.silence, ms, MaxWaitMs) \in Never .. MaxWaitMs
      /\ Older(d.stableAge, ms, DraftStableForMs) \in Never .. DraftStableForMs
  <2>1. MaxWaitMs \in Nat /\ DraftStableForMs \in Nat
    BY DEF MaxWaitMs, DraftStableForMs
  <2>. QED
    BY <1>2, <2>1 DEF Detected
<1>. HIDE DEF e
<1>4. Detected(e)
  BY <1>1, <1>3 DEF Detected
<1>. QED
  BY <1>1, <1>4 DEF e

(* Audio arrives.                                                           *)
LEMMA Fed ==
    ASSUME NEW d, Detected(d), NEW ms \in Nat \ {0}
    PROVE  /\ Detected(ObserveAudio(d, ms)) /\ ObserveAudio(d, ms).audio = d.audio + ms
           /\ ObserveAudio(d, ms).commitSuggested = d.commitSuggested
<1>. DEFINE e == ObserveAudio(d, ms)
<1>1. /\ DOMAIN e = DOMAIN NewSilenceTurnDetector /\ e.audio = d.audio + ms
      /\ e.partial = d.partial /\ e.stable = d.stable /\ e.commitSuggested = d.commitSuggested
      /\ e.silence = 0 /\ e.stableAge = d.stableAge
  BY DEF ObserveAudio, Detected, NewSilenceTurnDetector
<1>2. 0 \in Never .. MaxWaitMs
  BY DEF Never, MaxWaitMs
<1>. HIDE DEF e
<1>3. Detected(e)
  BY <1>1, <1>2 DEF Detected
<1>. QED
  BY <1>1, <1>3 DEF e

(* The recogniser says something.                                           *)
LEMMA Told ==
    ASSUME NEW d, Detected(d), NEW text, text # <<>>, NEW hint
    PROVE  LET e == ObserveTranscriptionDelta(d, text, hint, FALSE)
           IN  /\ Detected(e) /\ e.audio = d.audio /\ e.commitSuggested = d.commitSuggested
<1>. DEFINE e == ObserveTranscriptionDelta(d, text, hint, FALSE)
            stable == updateStablePrefix(d.partial, d.stable, text, FALSE)
<1>1. /\ DOMAIN e = DOMAIN NewSilenceTurnDetector /\ e.audio = d.audio
      /\ e.partial = text /\ e.commitSuggested = d.commitSuggested
      /\ e.silence = d.silence
      /\ e.stableAge = (IF stable = <<>> THEN Never
                        ELSE IF stable # d.stable \/ d.stableAge = Never THEN 0
                        ELSE d.stableAge)
  <2>. HIDE DEF stable
  <2>1. e = [d EXCEPT !.stable = stable,
                      !.stableAge = IF stable = <<>> THEN Never
                                    ELSE IF stable # d.stable \/ @ = Never THEN 0 ELSE @,
                      !.partial = text, !.hint = hint]
    BY DEF ObserveTranscriptionDelta, stable
  <2>. HIDE DEF e
  <2>. QED
    BY <2>1 DEF Detected, NewSilenceTurnDetector
<1>. HIDE DEF stable, e
<1>2. {0, Never} \subseteq Never .. DraftStableForMs
  BY DEF Never, DraftStableForMs
<1>3. Detected(e)
  BY <1>1, <1>2 DEF Detected
<1>. QED
  BY <1>1, <1>3 DEF e

(* A change of the detector that keeps its suggestion keeps a preview.      *)
LEMMA DetectorChanged ==
    ASSUME NEW v, Previewed(v), NEW e, Detected(e),
           e.commitSuggested = v.detector.commitSuggested
    PROVE  LET w == [v EXCEPT !.detector = e]
           IN  /\ Previewed(w) /\ w.open = v.open /\ w.detector = e /\ w.judge = v.judge
               /\ w.slots = v.slots /\ w.lastCommitLogged = v.lastCommitLogged
<1>. DEFINE w == [v EXCEPT !.detector = e]
<1>1. /\ DOMAIN w = DOMAIN NoPreview /\ w.open = v.open /\ w.detector = e /\ w.judge = v.judge
      /\ w.slots = v.slots /\ w.lastCommitLogged = v.lastCommitLogged
  BY DEF Previewed, NoPreview
<1>. HIDE DEF w
<1>2. Previewed(w)
  BY <1>1 DEF Previewed
<1>. QED
  BY <1>1, <1>2 DEF w

(* pushPreviewChunk: a chunk, the time of the call, and what was recognised. *)
LEMMA Pushed ==
    ASSUME NEW v, Previewed(v), NEW elapsed \in Nat, NEW text, NEW hint
    PROVE  LET w == PushedChunk(v, elapsed, text, hint)
           IN  /\ Previewed(w) /\ w.open = v.open /\ w.judge = v.judge /\ w.slots = v.slots
               /\ w.detector.audio = v.detector.audio + ChunkMs
<1>. DEFINE e == Elapse(ObserveAudio(v.detector, ChunkMs), elapsed)
            heard == [v EXCEPT !.detector = e]
            w == PushedChunk(v, elapsed, text, hint)
<1>0. ChunkMs \in Nat \ {0} /\ Detected(v.detector)
  BY PreviewAssumption DEF Previewed
<1>1. /\ Detected(e) /\ e.audio = v.detector.audio + ChunkMs
      /\ e.commitSuggested = v.detector.commitSuggested
  <2>1. /\ Detected(ObserveAudio(v.detector, ChunkMs))
        /\ ObserveAudio(v.detector, ChunkMs).audio = v.detector.audio + ChunkMs
        /\ ObserveAudio(v.detector, ChunkMs).commitSuggested = v.detector.commitSuggested
    BY <1>0, Fed
  <2>. QED
    BY <2>1, Aged
<1>2. w = IF text = <<>> THEN heard ELSE Delta(heard, text, hint)
  BY DEF PushedChunk
<1>. HIDE DEF e
<1>3. /\ Previewed(heard) /\ heard.open = v.open /\ heard.detector = e
      /\ heard.judge = v.judge /\ heard.slots = v.slots
  BY <1>1, DetectorChanged
<1>. HIDE DEF w, heard
<1>4. CASE w = heard
  BY <1>1, <1>3, <1>4 DEF w
<1>5. CASE w # heard
  <2>1. /\ w = [heard EXCEPT !.detector = ObserveTranscriptionDelta(@, text, hint, FALSE),
                             !.lastPartial = text, !.lastHint = hint]
        /\ text # <<>>
    BY <1>2, <1>5 DEF Delta
  <2>. DEFINE f == ObserveTranscriptionDelta(e, text, hint, FALSE)
  <2>2. Detected(f) /\ f.audio = e.audio /\ f.commitSuggested = e.commitSuggested
    BY <1>1, <2>1, Told
  <2>3. w = [heard EXCEPT !.detector = f, !.lastPartial = text, !.lastHint = hint]
    BY <1>3, <2>1 DEF Previewed, NoPreview
  <2>. HIDE DEF f
  <2>4. /\ DOMAIN w = DOMAIN NoPreview /\ w.open = heard.open /\ w.detector = f
        /\ w.judge = heard.judge /\ w.slots = heard.slots
        /\ w.lastCommitLogged = heard.lastCommitLogged
    BY <1>3, <2>3 DEF Previewed, NoPreview
  <2>5. Previewed(w)
    BY <1>3, <2>2, <2>4 DEF Previewed
  <2>. QED
    BY <1>1, <1>3, <2>2, <2>4, <2>5 DEF w
<1>. QED
  BY <1>4, <1>5

(* A preview that is not there, or just opened.                             *)
LEMMA Fresh ==
    /\ Previewed(NoPreview) /\ Previewed(StartInputPreview)
    /\ NoPreview.judge.evaluating = FALSE /\ NoPreview.slots.evaluating = FALSE
    /\ StartInputPreview.judge.evaluating = FALSE /\ StartInputPreview.slots.evaluating = FALSE
    /\ NoPreview.detector.audio = 0 /\ StartInputPreview.detector.audio = 0
    /\ NoPreview.open = FALSE /\ Snapped(NoSnapshot) /\ NoSnapshot.commitSuggested = FALSE
<1>1. /\ DOMAIN StartInputPreview = DOMAIN NoPreview
      /\ StartInputPreview.open = TRUE /\ NoPreview.open = FALSE
      /\ StartInputPreview.detector = NewSilenceTurnDetector
      /\ NoPreview.detector = NewSilenceTurnDetector
      /\ StartInputPreview.judge = NoRequest /\ NoPreview.judge = NoRequest
      /\ StartInputPreview.slots = NoRequest /\ NoPreview.slots = NoRequest
  BY DEF StartInputPreview, NoPreview
<1>2. /\ NewSilenceTurnDetector.audio = 0 /\ NewSilenceTurnDetector.silence = Never
      /\ NewSilenceTurnDetector.stableAge = Never
      /\ NewSilenceTurnDetector.stable = <<>>
      /\ NewSilenceTurnDetector.commitSuggested = FALSE
  BY DEF NewSilenceTurnDetector
<1>3. Detected(NewSilenceTurnDetector)
  <2>1. Never \in Never .. MaxWaitMs /\ Never \in Never .. DraftStableForMs
    BY DEF Never, MaxWaitMs, DraftStableForMs
  <2>. QED
    BY <1>2, <2>1 DEF Detected
<1>4. NoRequest.evaluating = FALSE /\ Known(NoRequest)
  BY DEF NoRequest, Known
<1>5. Previewed(NoPreview) /\ Previewed(StartInputPreview)
  BY <1>1, <1>2, <1>3, <1>4 DEF Previewed
<1>6. Snapped(NoSnapshot) /\ NoSnapshot.commitSuggested = FALSE
  BY DEF Snapped, Wordless, NoSnapshot, NoArbitration
<1>. QED
  BY <1>1, <1>2, <1>4, <1>5, <1>6

-----------------------------------------------------------------------------
(* The questions in flight *)

(* Questions are added to a bag.                                            *)
LEMMA BagAdded ==
    ASSUME NEW B, IsABag(B), NEW S
    PROVE  IsABag(B (+) SetToBag(S)) /\ BagToSet(B (+) SetToBag(S)) = BagToSet(B) \cup S
<1>. DEFINE C == B (+) SetToBag(S)
<1>1. C = [e \in DOMAIN B \cup S |-> (IF e \in DOMAIN B THEN B[e] ELSE 0)
                                     + (IF e \in S THEN 1 ELSE 0)]
  BY DEF (+), SetToBag
<1>. HIDE DEF C
<1>2. DOMAIN C = DOMAIN B \cup S
  BY <1>1
<1>3. \A e \in DOMAIN C : C[e] \in {n \in Nat : n > 0}
  BY <1>1 DEF IsABag
<1>. QED
  BY <1>1, <1>2, <1>3 DEF IsABag, BagToSet, C

(* One question is taken out of a bag.                                      *)
LEMMA BagRemoved ==
    ASSUME NEW B, IsABag(B), NEW q \in BagToSet(B)
    PROVE  /\ IsABag(B (-) SetToBag({q})) /\ BagToSet(B (-) SetToBag({q})) \subseteq BagToSet(B)
           /\ \A e \in BagToSet(B) : e # q => e \in BagToSet(B (-) SetToBag({q}))
<1>. DEFINE M == [e \in DOMAIN B |-> IF e \in {q} THEN B[e] - 1 ELSE B[e]]
            C == B (-) SetToBag({q})
<1>1. C = [e \in {x \in DOMAIN M : M[x] > 0} |-> M[e]]
  BY DEF (-), SetToBag
<1>2. \A e \in DOMAIN B : M[e] \in Int /\ (e # q => M[e] > 0)
  BY DEF IsABag
<1>3. DOMAIN M = DOMAIN B
  OBVIOUS
<1>. HIDE DEF M, C
<1>4. /\ DOMAIN C = {x \in DOMAIN M : M[x] > 0}
      /\ \A e \in DOMAIN C : C[e] \in {n \in Nat : n > 0}
  BY <1>1, <1>2, <1>3
<1>. QED
  BY <1>1, <1>2, <1>3, <1>4 DEF IsABag, BagToSet, C

(* Nothing is in the empty bag.                                             *)
LEMMA BagEmpty == IsABag(EmptyBag) /\ BagToSet(EmptyBag) = {}
  BY DEF IsABag, EmptyBag, SetToBag, BagToSet

(* An observation asks the questions that back its requests.                *)
LEMMA ObservingAsks ==
    ASSUME Asking, NEW w, Previewed(w), w.judge = preview.judge, w.slots = preview.slots,
           preview' = Observe(w).preview, questions' = questions (+) Observe(w).questions
    PROVE  Asking'
<1>1. Previewed(preview')
  BY Observed
<1>2. PICK asked : /\ Observe(w).questions = SetToBag(asked)
                   /\ Backs(w, Observe(w).preview, asked)
                   /\ \A q \in asked : q.to \in {"judge", "slots"} /\ q.key[2] # <<>>
  BY Observed
<1>3. IsABag(questions') /\ BagToSet(questions') = BagToSet(questions) \cup asked
  BY <1>2, BagAdded DEF Asking
<1>4. \A q \in BagToSet(questions') : q.to \in {"judge", "slots"} /\ q.key[2] # <<>>
  BY <1>2, <1>3 DEF Asking
<1>5. Backs(preview, preview', asked)
  BY <1>2 DEF Backs
<1>6. EvaluatingIsBacked'
  BY <1>3, <1>5 DEF Asking, EvaluatingIsBacked, BagIn, Backs
<1>. QED
  BY <1>1, <1>3, <1>4, <1>6 DEF Asking

(* A preview that is closed or opened has asked nothing.                    *)
LEMMA FreshAsks ==
    ASSUME Asking, preview' = NoPreview \/ preview' = StartInputPreview,
           questions' = EmptyBag \/ UNCHANGED questions
    PROVE  Asking'
<1>1. Previewed(preview') /\ EvaluatingIsBacked'
  BY Fresh DEF EvaluatingIsBacked
<1>2. IsABag(questions') /\ BagToSet(questions') \subseteq BagToSet(questions)
  BY BagEmpty DEF Asking
<1>. QED
  BY <1>1, <1>2 DEF Asking

(* The detector alone changes.                                              *)
LEMMA DetectingAsks ==
    ASSUME Asking, Previewed(preview'), preview'.judge = preview.judge,
           preview'.slots = preview.slots, UNCHANGED questions
    PROVE  Asking'
  BY DEF Asking, EvaluatingIsBacked, BagIn

(* An adviser answers or fails: its question is gone, and so is the mark    *)
(* that it is evaluating, whichever wording it was about.                   *)
LEMMA AnswerAsks ==
    ASSUME Asking, Answer
    PROVE  Asking' /\ preview'.detector = preview.detector /\ preview'.open = preview.open
<1>1. PICK q \in BagToSet(questions) :
        /\ \/ \E raw \in Judgements : JudgeAnswers(q, raw)
           \/ \E raw \in SlotParses : SlotsAnswer(q, raw)
           \/ AdviserFails(q)
        /\ questions' = questions (-) SetToBag({q})
  BY DEF Answer
<1>2. /\ IsABag(questions') /\ BagToSet(questions') \subseteq BagToSet(questions)
      /\ \A e \in BagToSet(questions) : e # q => e \in BagToSet(questions')
  BY <1>1, BagRemoved DEF Asking
<1>3. q.to \in {"judge", "slots"} /\ q.key[2] # <<>>
  BY DEF Asking
<1>4. Previewed(preview) /\ DOMAIN preview = DOMAIN NoPreview
  BY DEF Asking, Previewed
<1>5. ASSUME NEW s, Known(s), NEW answer
      PROVE  /\ Known(storeResult(s, q.key, q.key, answer))
             /\ storeResult(s, q.key, q.key, answer).evaluating = FALSE
  BY <1>3, <1>5 DEF Known, storeResult
<1>6. ASSUME NEW s, Known(s) PROVE Known(clearRequest(s)) /\ clearRequest(s).evaluating = FALSE
  <2>. DEFINE t == clearRequest(s)
  <2>1. /\ DOMAIN t = DOMAIN s /\ t.evaluating = FALSE /\ t.key = s.key
        /\ ("asked" \in DOMAIN s => t.asked = s.asked)
    BY <1>6 DEF clearRequest, Known
  <2>. HIDE DEF t
  <2>2. Known(t)
    BY <1>6, <2>1 DEF Known
  <2>. QED
    BY <2>1, <2>2 DEF t
<1>7. \E s : /\ Known(s) /\ s.evaluating = FALSE
             /\ \/ q.to = "judge" /\ preview' = [preview EXCEPT !.judge = s]
                \/ q.to = "slots" /\ preview' = [preview EXCEPT !.slots = s]
  <2>1. Known(preview.judge) /\ Known(preview.slots)
    BY <1>4 DEF Previewed
  <2>2. CASE \E raw \in Judgements : JudgeAnswers(q, raw)
    <3>1. PICK answer : preview' = [preview EXCEPT
                          !.judge = storeResult(preview.judge, q.key, q.key, answer)]
      BY <1>4, <2>2 DEF JudgeAnswers, NoPreview
    <3>2. q.to = "judge"
      BY <2>2 DEF JudgeAnswers
    <3>. QED
      BY <1>5, <2>1, <3>1, <3>2
  <2>3. CASE \E raw \in SlotParses : SlotsAnswer(q, raw)
    <3>1. PICK answer : preview' = [preview EXCEPT
                          !.slots = storeResult(preview.slots, q.key, q.key, answer)]
      BY <1>4, <2>3 DEF SlotsAnswer, NoPreview
    <3>2. q.to = "slots"
      BY <2>3 DEF SlotsAnswer
    <3>. QED
      BY <1>5, <2>1, <3>1, <3>2
  <2>4. CASE AdviserFails(q) /\ q.to = "judge"
    <3>1. preview' = [preview EXCEPT !.judge = clearRequest(preview.judge)]
      <4>1. preview' = [preview EXCEPT !.judge = clearRequest(preview.judge),
                                       !.slots = preview.slots]
        BY <1>4, <2>4 DEF AdviserFails, NoPreview
      <4>. QED
        BY <1>4, <4>1 DEF NoPreview
    <3>. QED
      BY <1>6, <2>1, <2>4, <3>1
  <2>5. CASE AdviserFails(q) /\ q.to = "slots"
    <3>1. preview' = [preview EXCEPT !.slots = clearRequest(preview.slots)]
      <4>1. preview' = [preview EXCEPT !.judge = preview.judge,
                                       !.slots = clearRequest(preview.slots)]
        BY <1>4, <2>5 DEF AdviserFails, NoPreview
      <4>. QED
        BY <1>4, <4>1 DEF NoPreview
    <3>. QED
      BY <1>6, <2>1, <2>5, <3>1
  <2>. QED
    BY <1>1, <1>3, <2>2, <2>3, <2>4, <2>5
<1>8. PICK s : /\ Known(s) /\ s.evaluating = FALSE
               /\ \/ q.to = "judge" /\ preview' = [preview EXCEPT !.judge = s]
                  \/ q.to = "slots" /\ preview' = [preview EXCEPT !.slots = s]
  BY <1>7
<1>9. /\ DOMAIN preview' = DOMAIN NoPreview /\ preview'.open = preview.open
      /\ preview'.detector = preview.detector
      /\ preview'.lastCommitLogged = preview.lastCommitLogged
      /\ \/ q.to = "judge" /\ preview'.judge = s /\ preview'.slots = preview.slots
         \/ q.to = "slots" /\ preview'.slots = s /\ preview'.judge = preview.judge
  BY <1>4, <1>8 DEF NoPreview
<1>10. Previewed(preview')
  BY <1>4, <1>8, <1>9 DEF Previewed
<1>11. EvaluatingIsBacked'
  <2>1. preview'.judge.evaluating =>
          [to |-> "judge", key |-> preview'.judge.lastRequestedKey] \in BagToSet(questions')
    <3>. SUFFICES ASSUME preview'.judge.evaluating
                  PROVE  [to |-> "judge", key |-> preview'.judge.lastRequestedKey]
                           \in BagToSet(questions')
      OBVIOUS
    <3>1. q.to = "slots" /\ preview'.judge = preview.judge
      BY <1>8, <1>9
    <3>2. [to |-> "judge", key |-> preview.judge.lastRequestedKey] \in BagToSet(questions)
      BY <3>1 DEF Asking, EvaluatingIsBacked, BagIn
    <3>3. [to |-> "judge", key |-> preview.judge.lastRequestedKey] # q
      BY <3>1
    <3>. QED
      BY <1>2, <3>1, <3>2, <3>3
  <2>2. preview'.slots.evaluating =>
          [to |-> "slots", key |-> preview'.slots.lastRequestedKey] \in BagToSet(questions')
    <3>. SUFFICES ASSUME preview'.slots.evaluating
                  PROVE  [to |-> "slots", key |-> preview'.slots.lastRequestedKey]
                           \in BagToSet(questions')
      OBVIOUS
    <3>1. q.to = "judge" /\ preview'.slots = preview.slots
      BY <1>8, <1>9
    <3>2. [to |-> "slots", key |-> preview.slots.lastRequestedKey] \in BagToSet(questions)
      BY <3>1 DEF Asking, EvaluatingIsBacked, BagIn
    <3>3. [to |-> "slots", key |-> preview.slots.lastRequestedKey] # q
      BY <3>1
    <3>. QED
      BY <1>2, <3>1, <3>2, <3>3
  <2>. QED
    BY <2>1, <2>2 DEF EvaluatingIsBacked, BagIn
<1>. QED
  BY <1>2, <1>9, <1>10, <1>11 DEF Asking

-----------------------------------------------------------------------------
(* The interruption policy *)

\* The intrusion score at which long enough audio interrupts.
Intrudes(e) == bargeInIntrusionScore(e) >= 72

(* The share of the audio in the score is limited.                          *)
LEMMA AudioShare ==
    ASSUME NEW e, e.audio \in Nat
    PROVE  audioScore(e) \in Int /\ audioScore(e) <= 35
<1>1. bargeInAcousticGateMinAudioMs(bargeInConfig.minAudio) \in Nat \ {0}
  <2>1. ASSUME NEW m \in Nat \ {0} PROVE bargeInAcousticGateMinAudioMs(m) \in Nat \ {0}
    BY <2>1 DEF bargeInAcousticGateMinAudioMs, AtMost, AtLeast
  <2>. QED
    BY <2>1, Settings
<1>2. ASSUME NEW g \in Nat \ {0} PROVE (35 * e.audio) \div g \in Int
  BY <1>2
<1>. QED
  BY <1>1, <1>2 DEF audioScore, AtMost

(* Without words, sound does not reach it.                                  *)
LEMMA SoundIsNoIntrusion ==
    ASSUME NEW e, e.audio \in Nat, e.text = <<>>, e.hinted = FALSE,
           e.acceptCandidate = FALSE, e.acceptNow = FALSE
    PROVE  ~ Intrudes(e)
<1>. DEFINE x == Points(10, e.acousticReady)
            y == Points(5, e.stableRunes >= 4)
            z == Points(10, e.confidence >= SemanticJudgeMediumConfidence)
            b == Points(-15, e.backchannel)
            a == audioScore(e)
<1>1. x \in {0, 10} /\ y \in {0, 5} /\ z \in {0, 10} /\ b \in {0, -15}
  BY DEF Points
<1>2. a \in Int /\ a <= 35
  BY AudioShare
<1>3. /\ Points(15, e.text # <<>>) = 0 /\ Points(10, e.hinted) = 0
      /\ Points(10, e.acceptCandidate) = 0 /\ Points(10, e.acceptNow) = 0
  BY DEF Points
<1>4. bargeInIntrusionScore(e) = clampPercent(a + 0 + x + 0 + 0 + 0 + y + z + b)
  BY <1>3 DEF bargeInIntrusionScore
<1>. HIDE DEF a, x, y, z, b
<1>5. a + 0 + x + 0 + 0 + 0 + y + z + b \in Int /\ a + 0 + x + 0 + 0 + 0 + y + z + b <= 60
  BY <1>1, <1>2
<1>6. ASSUME NEW n \in Int, n <= 60 PROVE clampPercent(n) <= 60 /\ clampPercent(n) \in Int
  BY <1>6 DEF clampPercent, clampInt
<1>. QED
  BY <1>4, <1>5, <1>6 DEF Intrudes

(* The evidence of a snapshot; only the audio and the gate depend on how    *)
(* much was heard.                                                          *)
LEMMA Evidence ==
    ASSUME NEW p, Snapped(p)
    PROVE  LET e == BargeInEvidence(p)
           IN  /\ e.audio = p.audio /\ e.text = firstNonEmpty(p.stable, p.partial)
               /\ e.text = <<>> => /\ p.partial = <<>>
                                   /\ e.hinted = FALSE /\ e.acceptCandidate = FALSE
                                   /\ e.acceptNow = FALSE /\ e.takeover = FALSE
                                   /\ e.lexicon = FALSE /\ e.lexicallyComplete = FALSE
<1>. DEFINE e == BargeInEvidence(p)
            a == p.arbitration
            text == firstNonEmpty(p.stable, p.partial)
<1>1. /\ e.audio = p.audio /\ e.text = text
      /\ e.hinted = (a.endpointHinted \/ p.endpointReason # "")
      /\ e.acceptCandidate = (\/ a.acceptCandidate \/ a.endpointHinted \/ p.endpointReason # ""
                              \/ a.stage \in {"accept_candidate", "accept_now"})
      /\ e.acceptNow = (a.acceptNow \/ p.commitSuggested \/ a.stage = "accept_now")
      /\ e.takeover = semanticIntentIsTakeover(a.semanticIntent)
      /\ e.lexicon = looksLikeTakeoverLexicon(text)
      /\ e.lexicallyComplete = looksLexicallyComplete(text)
  BY DEF BargeInEvidence
<1>. HIDE DEF e
<1>2. text = <<>> => p.partial = <<>> /\ Wordless(p)
  BY DEF firstNonEmpty, Snapped
<1>3. looksLexicallyComplete(<<>>) = FALSE /\ looksLikeTakeoverLexicon(<<>>) = FALSE
  BY DEF looksLexicallyComplete, looksLikeTakeoverLexicon
<1>4. semanticIntentIsTakeover("unknown") = FALSE
  BY DEF semanticIntentIsTakeover
<1>5. ASSUME text = <<>>
      PROVE  /\ p.partial = <<>>
             /\ e.hinted = FALSE /\ e.acceptCandidate = FALSE
             /\ e.acceptNow = FALSE /\ e.takeover = FALSE
             /\ e.lexicon = FALSE /\ e.lexicallyComplete = FALSE
  <2>. HIDE DEF text
  <2>1. Wordless(p) /\ p.partial = <<>>
    BY <1>2, <1>5
  <2>2. e.hinted = FALSE /\ e.acceptCandidate = FALSE /\ e.acceptNow = FALSE
    BY <1>1, <2>1 DEF Wordless
  <2>3. e.takeover = FALSE
    BY <1>1, <1>4, <2>1 DEF Wordless
  <2>4. e.lexicon = FALSE /\ e.lexicallyComplete = FALSE
    BY <1>1, <1>3, <1>5
  <2>. QED
    BY <2>1, <2>2, <2>3, <2>4
<1>. QED
  BY <1>1, <1>5 DEF e

(* Without words no rule of the policy interrupts.                          *)
LEMMA SoundIsNoInterruption ==
    ASSUME NEW p, Snapped(p), p.partial = <<>>
    PROVE  EvaluateBargeIn(p) # "hard_interrupt"
<1>. DEFINE e == BargeInEvidence(p)
<1>1. p.stable = <<>>
  BY DEF Snapped, Wordless
<1>2. /\ e.audio = p.audio /\ e.text = <<>> /\ e.hinted = FALSE /\ e.acceptCandidate = FALSE
      /\ e.acceptNow = FALSE /\ e.takeover = FALSE /\ e.lexicon = FALSE
      /\ e.lexicallyComplete = FALSE
  BY <1>1, Evidence DEF firstNonEmpty
<1>. HIDE DEF e
<1>3. ~ Intrudes(e)
  BY <1>2, SoundIsNoIntrusion DEF Snapped
<1>4. FirstRule(p, e) # "hard_interrupt"
  BY <1>2, <1>3 DEF FirstRule, Intrudes
<1>. QED
  BY <1>4 DEF EvaluateBargeIn, e

\* The same snapshot with more audio.
Louder(p, more) == [p EXCEPT !.audio = @ + more]

(* More audio changes the evidence only where it is about the audio.        *)
LEMMA LouderEvidence ==
    ASSUME NEW p, Snapped(p), NEW more \in Nat
    PROVE  LET q == Louder(p, more)
               e == BargeInEvidence(p)
               f == BargeInEvidence(q)
           IN  /\ Snapped(q) /\ q.audio = p.audio + more /\ q.speechStarted = p.speechStarted
               /\ f.text = e.text /\ f.hinted = e.hinted
               /\ f.acceptCandidate = e.acceptCandidate /\ f.acceptNow = e.acceptNow
               /\ f.intent = e.intent /\ f.confidence = e.confidence /\ f.takeover = e.takeover
               /\ f.lexicon = e.lexicon /\ f.lexicallyComplete = e.lexicallyComplete
               /\ f.semanticReady = e.semanticReady /\ f.backchannel = e.backchannel
               /\ f.semanticComplete = e.semanticComplete /\ f.stable = e.stable
               /\ e.acousticReady => f.acousticReady
<1>. DEFINE q == Louder(p, more)
<1>1. /\ DOMAIN q = DOMAIN p /\ q.audio = p.audio + more /\ q.speechStarted = p.speechStarted
      /\ q.partial = p.partial /\ q.stable = p.stable /\ q.arbitration = p.arbitration
      /\ q.endpointReason = p.endpointReason /\ q.commitSuggested = p.commitSuggested
      /\ q.utteranceComplete = p.utteranceComplete
  BY DEF Louder, Snapped, NoSnapshot
<1>. HIDE DEF q
<1>2. Snapped(q)
  <2>1. q.audio \in Nat /\ DOMAIN q = DOMAIN NoSnapshot
    BY <1>1 DEF Snapped
  <2>2. q.partial = <<>> => Wordless(q)
    BY <1>1 DEF Snapped, Wordless
  <2>. QED
    BY <1>1, <2>1, <2>2 DEF Snapped
<1>3. ASSUME NEW text PROVE bargeInSemanticReady(q, text) = bargeInSemanticReady(p, text)
  BY <1>1 DEF bargeInSemanticReady
<1>4. acousticReady(p) => acousticReady(q)
  <2>1. ASSUME NEW m \in Nat \ {0} PROVE bargeInAcousticGateMinAudioMs(m) \in Nat
    BY <2>1 DEF bargeInAcousticGateMinAudioMs, AtMost, AtLeast
  <2>2. bargeInAcousticGateMinAudioMs(bargeInConfig.minAudio) \in Nat
    BY <2>1, Settings
  <2>. QED
    BY <1>1, <2>2 DEF acousticReady, Snapped
<1>5. LET e == BargeInEvidence(p)
          f == BargeInEvidence(q)
      IN  /\ f.text = e.text /\ f.hinted = e.hinted
          /\ f.acceptCandidate = e.acceptCandidate /\ f.acceptNow = e.acceptNow
          /\ f.intent = e.intent /\ f.confidence = e.confidence /\ f.takeover = e.takeover
          /\ f.lexicon = e.lexicon /\ f.lexicallyComplete = e.lexicallyComplete
          /\ f.semanticReady = e.semanticReady /\ f.backchannel = e.backchannel
          /\ f.semanticComplete = e.semanticComplete /\ f.stable = e.stable
          /\ e.acousticReady => f.acousticReady
  BY <1>1, <1>3, <1>4 DEF BargeInEvidence
<1>. QED
  BY <1>1, <1>2, <1>5 DEF q

(* More audio of the same words takes no interruption back: the intrusion   *)
(* score, the one rule of the policy that could be lost, never decides.     *)
LEMMA LouderInterrupts ==
    ASSUME NEW p, Snapped(p), NEW more \in Nat, EvaluateBargeIn(p) = "hard_interrupt"
    PROVE  EvaluateBargeIn(Louder(p, more)) = "hard_interrupt"
<1>. DEFINE q == Louder(p, more)
            e == BargeInEvidence(p)
            f == BargeInEvidence(q)
<1>1. /\ Snapped(q) /\ q.audio = p.audio + more /\ q.speechStarted = p.speechStarted
      /\ f.text = e.text /\ f.hinted = e.hinted
      /\ f.acceptCandidate = e.acceptCandidate /\ f.acceptNow = e.acceptNow
      /\ f.intent = e.intent /\ f.confidence = e.confidence /\ f.takeover = e.takeover
      /\ f.lexicon = e.lexicon /\ f.lexicallyComplete = e.lexicallyComplete
      /\ f.semanticReady = e.semanticReady /\ f.backchannel = e.backchannel
      /\ f.semanticComplete = e.semanticComplete /\ f.stable = e.stable
      /\ e.acousticReady => f.acousticReady
  BY LouderEvidence
<1>2. FirstRule(p, e) = "hard_interrupt"
  BY DEF EvaluateBargeIn
<1>3. e.text # <<>>
  <2>1. p.partial # <<>>
    BY SoundIsNoInterruption
  <2>. QED
    BY <2>1, Evidence
<1>4. bargeInTakeoverScore(f) = bargeInTakeoverScore(e)
  <2>. HIDE DEF e, f
  <2>. QED
    BY <1>1 DEF bargeInTakeoverScore
<1>5. /\ p.audio \in Nat /\ bargeInConfig.minAudio \in Nat /\ bargeInConfig.hold \in Nat
      /\ bargeInBackchannelMinAudioMs(bargeInConfig.minAudio) \in Int
  <2>1. ASSUME NEW m \in Nat PROVE bargeInBackchannelMinAudioMs(m) \in Int
    BY <2>1 DEF bargeInBackchannelMinAudioMs, AtLeast
  <2>. QED
    BY <2>1, Settings DEF Snapped
<1>. HIDE DEF q, e, f
<1>6. FirstRule(q, f) = "hard_interrupt"
  BY <1>1, <1>2, <1>3, <1>4, <1>5 DEF FirstRule
<1>. QED
  BY <1>6 DEF EvaluateBargeIn, q, f

-----------------------------------------------------------------------------
(* The steps of the read loop *)

(* What has arrived is a number of chunks.                                  *)
LEMMA Totals ==
    ASSUME NEW f \in Nat
    PROVE  /\ f * MaxChunks \in Nat /\ (f + 1) * MaxChunks = f * MaxChunks + MaxChunks
           /\ MaxChunks \in Nat /\ ChunkMs \in Nat \ {0} /\ MaxFrames \in Nat
  BY PreviewAssumption

(* Durations of chunks add up.                                              *)
LEMMA Chunks ==
    ASSUME NEW m \in Nat, NEW n \in Nat
    PROVE  /\ m * ChunkMs + n * ChunkMs = (m + n) * ChunkMs
           /\ m * ChunkMs + ChunkMs = (m + 1) * ChunkMs
           /\ 0 = 0 * ChunkMs
<1>1. ChunkMs \in Nat
  BY PreviewAssumption
<1>. QED
  BY <1>1

(* The chunks that Counted speaks of, before a step.                        *)
LEMMA Counts ==
    ASSUME Counted
    PROVE  /\ frames * MaxChunks \in Nat /\ frames \in 0 .. MaxFrames
           /\ main.chunks \in 0 .. MaxChunks
           /\ \E a, b, c \in Nat :
                /\ audio = a * ChunkMs /\ staged = b * ChunkMs
                /\ preview.detector.audio = c * ChunkMs
                /\ a + b + (IF main.pc = "accept" THEN main.chunks ELSE 0) <= frames * MaxChunks
                /\ c + (IF main.pc \in {"accept", "ensure", "push"} THEN main.chunks ELSE 0)
                     <= frames * MaxChunks
<1>1. frames \in 0 .. MaxFrames /\ frames \in Nat /\ main.chunks \in 0 .. MaxChunks
  BY Totals, PreviewAssumption DEF Counted
<1>2. frames * MaxChunks \in Nat
  BY <1>1, Totals
<1>. QED
  BY <1>1, <1>2 DEF Counted

(* The chunks that Counted speaks of, after it.                             *)
LEMMA Recounted ==
    ASSUME NEW a \in Nat, NEW b \in Nat, NEW c \in Nat, NEW total \in Nat,
           total = frames' * MaxChunks, frames' \in 0 .. MaxFrames,
           main'.chunks \in 0 .. MaxChunks, audio' = a * ChunkMs, staged' = b * ChunkMs,
           preview'.detector.audio = c * ChunkMs,
           a + b + (IF main'.pc = "accept" THEN main'.chunks ELSE 0) <= total,
           c + (IF main'.pc \in {"accept", "ensure", "push"} THEN main'.chunks ELSE 0) <= total
    PROVE  Counted'
<1>1. main'.chunks \in Nat
  BY PreviewAssumption
<1>2. a \in 0 .. frames' * MaxChunks /\ b \in 0 .. frames' * MaxChunks
      /\ c \in 0 .. frames' * MaxChunks
  BY <1>1
<1>. QED
  BY <1>2 DEF Counted

(* A preview that counts no more, and a loop that has no more to count.     *)
LEMMA CountedLess ==
    ASSUME Counted, UNCHANGED <<audio, staged, frames>>,
           preview'.detector.audio \in {0, preview.detector.audio},
           main'.chunks \in 0 .. MaxChunks,
           \/ main'.pc \notin {"accept", "ensure", "push"}
           \/ main.pc = "ensure" /\ main'.pc = "push" /\ main'.chunks = main.chunks
           \/ main'.pc = main.pc /\ main'.chunks = main.chunks
    PROVE  Counted'
<1>1. PICK a, b, c \in Nat :
        /\ audio = a * ChunkMs /\ staged = b * ChunkMs
        /\ preview.detector.audio = c * ChunkMs
        /\ a + b + (IF main.pc = "accept" THEN main.chunks ELSE 0) <= frames * MaxChunks
        /\ c + (IF main.pc \in {"accept", "ensure", "push"} THEN main.chunks ELSE 0)
             <= frames * MaxChunks
  BY Counts
<1>2. /\ frames * MaxChunks \in Nat /\ frames \in 0 .. MaxFrames /\ main.chunks \in Nat
      /\ main.chunks \in 0 .. MaxChunks /\ main'.chunks \in Nat
  BY Counts, PreviewAssumption
<1>. DEFINE total == frames * MaxChunks
<1>3. total \in Nat /\ total = frames' * MaxChunks
  BY <1>2
<1>4. /\ a + b + (IF main.pc = "accept" THEN main.chunks ELSE 0) <= total
      /\ c + (IF main.pc \in {"accept", "ensure", "push"} THEN main.chunks ELSE 0) <= total
  BY <1>1
<1>. HIDE DEF total
<1>5. /\ a + b + (IF main'.pc = "accept" THEN main'.chunks ELSE 0) <= total
      /\ c + (IF main'.pc \in {"accept", "ensure", "push"} THEN main'.chunks ELSE 0) <= total
      /\ 0 + (IF main'.pc \in {"accept", "ensure", "push"} THEN main'.chunks ELSE 0) <= total
  BY <1>2, <1>3, <1>4
<1>6. CASE preview'.detector.audio = preview.detector.audio
  BY <1>1, <1>2, <1>3, <1>5, <1>6, Recounted
<1>7. CASE preview'.detector.audio = 0
  <2>1. preview'.detector.audio = 0 * ChunkMs
    BY <1>7, Chunks
  <2>. QED
    BY <1>1, <1>2, <1>3, <1>5, <2>1, Recounted
<1>. QED
  BY <1>6, <1>7

(* Nothing is judged at the other steps of the loop.                        *)
LEMMA NotJudging ==
    ASSUME Snapped(main'.heard), main'.pc \notin {"respond", "interrupt"}
    PROVE  Judging'
  BY DEF Judging, TurnEndsInSilence, SoundAloneNeverInterrupts

(* The loop waits.                                                          *)
LEMMA StillJudging ==
    ASSUME Judging, UNCHANGED main
    PROVE  Judging'
  BY DEF Judging, TurnEndsInSilence, SoundAloneNeverInterrupts

(* The preview and its questions are left alone.                            *)
LEMMA StillAsking ==
    ASSUME Asking, UNCHANGED <<preview, questions>>
    PROVE  Asking'
<1>1. Previewed(preview')
  BY DEF Asking
<1>. QED
  BY <1>1, DetectingAsks

(* The fields of the idle loop and of the idle output goroutine.            *)
LEMMA Idling ==
    /\ Idle.pc = "idle" /\ Idle.speaking = FALSE /\ Idle.chunks = 0 /\ Idle.heard = NoSnapshot
    /\ 0 \in 0 .. MaxChunks /\ Snapped(Idle.heard) /\ NoOutput.pc = "none"
<1>1. 0 \in 0 .. MaxChunks
  BY PreviewAssumption
<1>2. Idle.pc = "idle" /\ Idle.speaking = FALSE /\ Idle.chunks = 0 /\ Idle.heard = NoSnapshot
  BY DEF Idle
<1>. QED
  BY <1>1, <1>2, Fresh DEF NoOutput

(* A frame arrives.                                                         *)
LEMMA FrameInv ==
    ASSUME IInv, NEW n \in 1 .. MaxChunks, Frame(n)
    PROVE  IInv'
<1>1. /\ main'.pc = "accept" /\ main'.chunks = n /\ main'.heard = NoSnapshot
      /\ DOMAIN main' = DOMAIN Idle
  BY DEF Frame, Idle
<1>2. /\ main.pc = "idle" /\ frames < MaxFrames /\ frames' = frames + 1
      /\ UNCHANGED <<speaking, audio, previewing, staged, preview, questions, out>>
  BY DEF Frame
<1>3. Shapes'
  BY <1>1, <1>2 DEF IInv, Shapes, MainPCs
<1>4. Asking'
  BY <1>2, StillAsking DEF IInv
<1>5. Judging'
  BY <1>1, Fresh, NotJudging
<1>6. Counted'
  <2>1. PICK a, b, c \in Nat :
          /\ audio = a * ChunkMs /\ staged = b * ChunkMs
          /\ preview.detector.audio = c * ChunkMs
          /\ a + b + (IF main.pc = "accept" THEN main.chunks ELSE 0) <= frames * MaxChunks
          /\ c + (IF main.pc \in {"accept", "ensure", "push"} THEN main.chunks ELSE 0)
               <= frames * MaxChunks
    BY Counts DEF IInv
  <2>2. frames \in 0 .. MaxFrames /\ frames \in Nat /\ MaxFrames \in Nat /\ MaxChunks \in Nat
    BY Counts, PreviewAssumption DEF IInv
  <2>3. PICK total \in Nat : total = frames * MaxChunks /\ total + MaxChunks = frames' * MaxChunks
    BY <1>2, <2>2, Totals
  <2>4. /\ a + b + n <= total + MaxChunks /\ c + n <= total + MaxChunks
        /\ total + MaxChunks \in Nat /\ frames' \in 0 .. MaxFrames /\ n \in 0 .. MaxChunks
    BY <1>2, <2>1, <2>2, <2>3
  <2>5. /\ a + b + (IF main'.pc = "accept" THEN main'.chunks ELSE 0) <= total + MaxChunks
        /\ c + (IF main'.pc \in {"accept", "ensure", "push"} THEN main'.chunks ELSE 0)
             <= total + MaxChunks
    BY <1>1, <2>4
  <2>6. /\ audio' = a * ChunkMs /\ staged' = b * ChunkMs /\ preview'.detector.audio = c * ChunkMs
        /\ main'.chunks \in 0 .. MaxChunks
    BY <1>1, <1>2, <2>1, <2>4
  <2>. QED
    BY <2>3, <2>4, <2>5, <2>6, Recounted
<1>. QED
  BY <1>3, <1>4, <1>5, <1>6 DEF IInv

(* Its audio is taken or staged.                                            *)
LEMMA AcceptFrameInv ==
    ASSUME IInv, AcceptFrame
    PROVE  IInv'
<1>1. /\ main.pc = "accept" /\ main'.pc = "ensure" /\ main'.chunks = main.chunks
      /\ main'.heard = main.heard /\ DOMAIN main' = DOMAIN Idle
  BY DEF AcceptFrame, IInv, Shapes, Idle
<1>2. UNCHANGED <<speaking, previewing, preview, questions, out, frames>>
  BY DEF AcceptFrame
<1>3. Shapes'
  BY <1>1, <1>2 DEF IInv, Shapes, MainPCs
<1>4. Asking'
  BY <1>2, StillAsking DEF IInv
<1>5. Judging'
  BY <1>1, NotJudging DEF IInv, Judging
<1>6. Counted'
  <2>1. PICK a, b, c \in Nat :
          /\ audio = a * ChunkMs /\ staged = b * ChunkMs
          /\ preview.detector.audio = c * ChunkMs
          /\ a + b + (IF main.pc = "accept" THEN main.chunks ELSE 0) <= frames * MaxChunks
          /\ c + (IF main.pc \in {"accept", "ensure", "push"} THEN main.chunks ELSE 0)
               <= frames * MaxChunks
    BY Counts DEF IInv
  <2>2. /\ frames \in 0 .. MaxFrames /\ main.chunks \in 0 .. MaxChunks /\ main.chunks \in Nat
        /\ frames * MaxChunks \in Nat
    BY Counts, PreviewAssumption DEF IInv
  <2>3. PICK total \in Nat : total = frames * MaxChunks
    BY <2>2
  <2>4. a + b + main.chunks <= total /\ c + main.chunks <= total
    BY <1>1, <2>1, <2>3
  <2>5. PICK x \in Nat, y \in Nat : /\ audio' = x * ChunkMs /\ staged' = y * ChunkMs
                                    /\ x + y <= total
    <3>1. CASE main.speaking
      <4>1. staged' = (b + main.chunks) * ChunkMs /\ audio' = a * ChunkMs
        BY <2>1, <2>2, <3>1, Chunks DEF AcceptFrame
      <4>2. b + main.chunks \in Nat /\ a + (b + main.chunks) <= total
        BY <2>2, <2>4
      <4>. QED
        BY <4>1, <4>2
    <3>2. CASE ~ main.speaking
      <4>1. audio' = (a + main.chunks) * ChunkMs /\ staged' = b * ChunkMs
        BY <2>1, <2>2, <3>2, Chunks DEF AcceptFrame
      <4>2. a + main.chunks \in Nat /\ (a + main.chunks) + b <= total
        BY <2>2, <2>4
      <4>. QED
        BY <4>1, <4>2
    <3>. QED
      BY <3>1, <3>2
  <2>6. /\ x + y + (IF main'.pc = "accept" THEN main'.chunks ELSE 0) <= total
        /\ c + (IF main'.pc \in {"accept", "ensure", "push"} THEN main'.chunks ELSE 0) <= total
    BY <1>1, <2>4, <2>5
  <2>7. /\ total = frames' * MaxChunks /\ frames' \in 0 .. MaxFrames
        /\ main'.chunks \in 0 .. MaxChunks /\ preview'.detector.audio = c * ChunkMs
    BY <1>1, <1>2, <2>1, <2>2, <2>3
  <2>. QED
    BY <2>5, <2>6, <2>7, Recounted
<1>. QED
  BY <1>3, <1>4, <1>5, <1>6 DEF IInv

(* The loop is done with a frame's preview.                                 *)
LEMMA AfterPushed ==
    ASSUME IInv, NEW m, m = AfterPush \/ m = [AfterPush EXCEPT !.heard = NoSnapshot]
    PROVE  /\ DOMAIN m = DOMAIN Idle /\ m.pc \in {"judge", "idle"} /\ m.chunks = 0
           /\ Snapped(m.heard)
<1>1. /\ DOMAIN AfterPush = DOMAIN Idle /\ AfterPush.pc \in {"judge", "idle"}
      /\ AfterPush.chunks = 0 /\ AfterPush.heard \in {main.heard, NoSnapshot}
  BY Idling DEF AfterPush, IInv, Shapes, Idle
<1>2. Snapped(main.heard) /\ Snapped(NoSnapshot)
  BY Fresh DEF IInv, Judging
<1>. HIDE DEF AfterPush
<1>3. CASE m = AfterPush
  BY <1>1, <1>2, <1>3
<1>4. CASE m = [AfterPush EXCEPT !.heard = NoSnapshot]
  <2>1. /\ DOMAIN m = DOMAIN AfterPush /\ m.pc = AfterPush.pc /\ m.chunks = AfterPush.chunks
        /\ m.heard = NoSnapshot
    BY <1>1, <1>4 DEF Idle
  <2>. QED
    BY <1>1, <1>2, <2>1
<1>. QED
  BY <1>3, <1>4

(* A preview is opened, or cannot be.                                       *)
LEMMA EnsureInv ==
    ASSUME IInv, EnsureInputPreview
    PROVE  IInv'
<1>1. /\ main.pc = "ensure"
      /\ UNCHANGED <<speaking, audio, previewing, staged, questions, out, frames>>
  BY DEF EnsureInputPreview
<1>2. main.chunks \in 0 .. MaxChunks /\ 0 \in 0 .. MaxChunks
  BY Counts, Idling DEF IInv
<1>3. CASE /\ preview' = IF preview.open THEN preview ELSE StartInputPreview
           /\ main' = [main EXCEPT !.pc = "push"]
  <2>1. /\ main'.pc = "push" /\ main'.chunks = main.chunks /\ main'.heard = main.heard
        /\ DOMAIN main' = DOMAIN Idle
    BY <1>3 DEF IInv, Shapes, Idle
  <2>2. Shapes'
    BY <1>1, <2>1 DEF IInv, Shapes, MainPCs
  <2>3. Asking'
    BY <1>1, <1>3, StillAsking, FreshAsks DEF IInv
  <2>4. Judging'
    BY <2>1, NotJudging DEF IInv, Judging
  <2>5. preview'.detector.audio \in {0, preview.detector.audio}
    BY <1>3, Fresh
  <2>6. Counted'
    BY <1>1, <1>2, <2>1, <2>5, CountedLess DEF IInv
  <2>. QED
    BY <2>2, <2>3, <2>4, <2>6 DEF IInv
<1>4. CASE main' = AfterPush /\ UNCHANGED preview
  <2>1. /\ DOMAIN main' = DOMAIN Idle /\ main'.pc \in {"judge", "idle"} /\ main'.chunks = 0
        /\ Snapped(main'.heard)
    BY <1>4, AfterPushed
  <2>2. Shapes'
    BY <1>1, <2>1 DEF IInv, Shapes, MainPCs
  <2>3. Asking'
    BY <1>1, <1>4, StillAsking DEF IInv
  <2>4. Judging'
    BY <2>1, NotJudging
  <2>5. Counted'
    BY <1>1, <1>2, <1>4, <2>1, CountedLess DEF IInv
  <2>. QED
    BY <2>2, <2>3, <2>4, <2>5 DEF IInv
<1>. QED
  BY <1>3, <1>4 DEF EnsureInputPreview

(* The detector has counted a chunk of the frame.                           *)
LEMMA CountedPushed ==
    ASSUME Counted, UNCHANGED <<audio, staged, frames>>, main.pc = "push", main.chunks > 0,
           preview'.detector.audio = preview.detector.audio + ChunkMs,
           main'.chunks \in {0, main.chunks - 1}, main'.pc \in {"push", "judge", "idle"}
    PROVE  Counted'
<1>1. PICK a, b, c \in Nat :
        /\ audio = a * ChunkMs /\ staged = b * ChunkMs
        /\ preview.detector.audio = c * ChunkMs
        /\ a + b + (IF main.pc = "accept" THEN main.chunks ELSE 0) <= frames * MaxChunks
        /\ c + (IF main.pc \in {"accept", "ensure", "push"} THEN main.chunks ELSE 0)
             <= frames * MaxChunks
  BY Counts
<1>2. /\ frames \in 0 .. MaxFrames /\ main.chunks \in 0 .. MaxChunks /\ main.chunks \in Nat
      /\ frames * MaxChunks \in Nat /\ MaxChunks \in Nat
  BY Counts, PreviewAssumption
<1>3. PICK total \in Nat : total = frames * MaxChunks
  BY <1>2
<1>4. a + b <= total /\ c + main.chunks <= total
  BY <1>1, <1>3
<1>5. /\ main'.chunks \in 0 .. MaxChunks /\ c + 1 \in Nat
      /\ a + b + (IF main'.pc = "accept" THEN main'.chunks ELSE 0) <= total
      /\ (c + 1) + (IF main'.pc \in {"accept", "ensure", "push"} THEN main'.chunks ELSE 0)
           <= total
  BY <1>2, <1>4
<1>6. preview'.detector.audio = (c + 1) * ChunkMs
  BY <1>1, Chunks
<1>. QED
  BY <1>1, <1>2, <1>3, <1>5, <1>6, Recounted

(* A chunk is pushed.                                                       *)
LEMMA PushInv ==
    ASSUME IInv, NEW elapsed \in Nat, NEW text, NEW hint,
           PushInputPreviewAudio(elapsed, text, hint)
    PROVE  IInv'
<1>. DEFINE w == PushedChunk(preview, elapsed, text, hint)
            seen == Observe(w)
<1>1. /\ main.pc = "push" /\ main.chunks > 0
      /\ preview' = seen.preview /\ questions' = questions (+) seen.questions
      /\ main' = [main EXCEPT !.chunks = @ - 1,
                              !.heard = IF main.speaking THEN seen.snapshot ELSE @]
      /\ previewing' = TRUE /\ UNCHANGED <<speaking, audio, staged, out, frames>>
  BY DEF PushInputPreviewAudio
<1>2. Previewed(preview)
  BY DEF IInv, Asking
<1>3. /\ Previewed(w) /\ w.judge = preview.judge /\ w.slots = preview.slots
      /\ w.detector.audio = preview.detector.audio + ChunkMs
  BY <1>2, Pushed
<1>. HIDE DEF w
<1>4. Snapped(seen.snapshot) /\ seen.preview.detector.audio = w.detector.audio
  BY <1>3, Observed
<1>5. Asking'
  BY <1>1, <1>3, ObservingAsks DEF IInv
<1>. HIDE DEF seen
<1>6. /\ main'.pc = "push" /\ main'.chunks = main.chunks - 1
      /\ main'.heard \in {seen.snapshot, main.heard} /\ DOMAIN main' = DOMAIN Idle
  BY <1>1 DEF IInv, Shapes, Idle
<1>7. Shapes'
  BY <1>1, <1>6 DEF IInv, Shapes, MainPCs
<1>8. Judging'
  BY <1>4, <1>6, NotJudging DEF IInv, Judging
<1>9. Counted'
  BY <1>1, <1>3, <1>4, <1>6, CountedPushed DEF IInv
<1>. QED
  BY <1>5, <1>7, <1>8, <1>9 DEF IInv

(* The recogniser fails on a chunk.                                         *)
LEMMA PushFailsInv ==
    ASSUME IInv, PushFails
    PROVE  IInv'
<1>1. /\ main.pc = "push" /\ main.chunks > 0
      /\ preview' = [preview EXCEPT !.detector = ObserveAudio(preview.detector, ChunkMs)]
      /\ main' = [AfterPush EXCEPT !.heard = NoSnapshot]
      /\ UNCHANGED <<speaking, audio, previewing, staged, questions, out, frames>>
  BY DEF PushFails
<1>2. /\ DOMAIN main' = DOMAIN Idle /\ main'.pc \in {"judge", "idle"} /\ main'.chunks = 0
      /\ Snapped(main'.heard)
  BY <1>1, AfterPushed
<1>3. Previewed(preview) /\ Detected(preview.detector) /\ ChunkMs \in Nat \ {0}
  BY PreviewAssumption DEF IInv, Asking, Previewed
<1>. DEFINE e == ObserveAudio(preview.detector, ChunkMs)
<1>4. /\ Detected(e) /\ e.audio = preview.detector.audio + ChunkMs
      /\ e.commitSuggested = preview.detector.commitSuggested
  BY <1>3, Fed
<1>5. preview' = [preview EXCEPT !.detector = e]
  BY <1>1
<1>. HIDE DEF e
<1>6. /\ Previewed(preview') /\ preview'.detector = e /\ preview'.judge = preview.judge
      /\ preview'.slots = preview.slots
  BY <1>3, <1>4, <1>5, DetectorChanged
<1>7. Shapes'
  BY <1>1, <1>2 DEF IInv, Shapes, MainPCs
<1>8. Asking'
  BY <1>1, <1>6, DetectingAsks DEF IInv
<1>9. Judging'
  BY <1>2, NotJudging
<1>10. Counted'
  BY <1>1, <1>2, <1>4, <1>6, CountedPushed DEF IInv
<1>. QED
  BY <1>7, <1>8, <1>9, <1>10 DEF IInv

(* There is no more to push, or nowhere to push it.                         *)
LEMMA PushEndsInv ==
    ASSUME IInv, PushEnds
    PROVE  IInv'
<1>1. /\ main' = AfterPush \/ main' = [AfterPush EXCEPT !.heard = NoSnapshot]
      /\ UNCHANGED <<speaking, audio, previewing, staged, preview, questions, out, frames>>
  BY DEF PushEnds
<1>2. /\ DOMAIN main' = DOMAIN Idle /\ main'.pc \in {"judge", "idle"} /\ main'.chunks = 0
      /\ Snapped(main'.heard)
  BY <1>1, AfterPushed
<1>3. Shapes'
  BY <1>1, <1>2 DEF IInv, Shapes, MainPCs
<1>4. Asking'
  BY <1>1, StillAsking DEF IInv
<1>5. Judging'
  BY <1>2, NotJudging
<1>6. Counted'
  BY <1>1, <1>2, Idling, CountedLess DEF IInv
<1>. QED
  BY <1>3, <1>4, <1>5, <1>6 DEF IInv

(* The staged audio makes a preview no more of a sign than it was.          *)
LEMMA Pending ==
    ASSUME NEW h, Snapped(h), staged \in Nat
    PROVE  /\ Snapped(pendingBargeInPreview(h))
           /\ pendingBargeInPreview(h).partial = h.partial
<1>. DEFINE q == pendingBargeInPreview(h)
<1>1. /\ DOMAIN q = DOMAIN h /\ q.audio \in {staged, h.audio}
      /\ q.partial = h.partial /\ q.stable = h.stable /\ q.arbitration = h.arbitration
      /\ q.endpointReason = h.endpointReason /\ q.commitSuggested = h.commitSuggested
  BY DEF pendingBargeInPreview, Snapped, NoSnapshot
<1>. HIDE DEF q
<1>2. q.audio \in Nat /\ DOMAIN q = DOMAIN NoSnapshot
  BY <1>1 DEF Snapped
<1>3. q.partial = <<>> => Wordless(q)
  BY <1>1 DEF Snapped, Wordless
<1>4. Snapped(q)
  BY <1>1, <1>2, <1>3 DEF Snapped
<1>. QED
  BY <1>1, <1>4 DEF q

(* What is staged is a duration.                                            *)
LEMMA Durations ==
    ASSUME Counted
    PROVE  audio \in Nat /\ staged \in Nat
<1>1. PICK a, b \in Nat : audio = a * ChunkMs /\ staged = b * ChunkMs
  BY Counts
<1>. QED
  BY <1>1, PreviewAssumption

(* The frame is judged by its preview.                                      *)
LEMMA JudgeFrameInv ==
    ASSUME IInv, JudgeFrame
    PROVE  IInv'
<1>. DEFINE p == pendingBargeInPreview(main.heard)
<1>1. UNCHANGED <<speaking, audio, previewing, staged, preview, questions, out, frames>>
  BY DEF JudgeFrame
<1>2. Snapped(p)
  BY Pending, Durations DEF IInv, Judging
<1>3. CASE EvaluateBargeIn(p) # "hard_interrupt"
  <2>1. main' = Idle
    BY <1>3 DEF JudgeFrame, playbackDirectiveForDecision
  <2>2. Shapes'
    BY <1>1, <2>1, Idling DEF IInv, Shapes, MainPCs
  <2>3. Judging'
    BY <2>1, Idling, NotJudging
  <2>4. Asking' /\ Counted'
    BY <1>1, <2>1, Idling, StillAsking, CountedLess DEF IInv
  <2>. QED
    BY <2>2, <2>3, <2>4 DEF IInv
<1>4. CASE EvaluateBargeIn(p) = "hard_interrupt"
  <2>1. main' = [Idle EXCEPT !.pc = "interrupt", !.heard = p]
    BY <1>4 DEF JudgeFrame, playbackDirectiveForDecision
  <2>2. p.partial # <<>>
    BY <1>2, <1>4, SoundIsNoInterruption
  <2>. HIDE DEF p
  <2>3. /\ main'.pc = "interrupt" /\ main'.chunks = 0 /\ main'.heard = p
        /\ DOMAIN main' = DOMAIN Idle
    BY <2>1 DEF Idle
  <2>4. Shapes'
    BY <1>1, <2>3 DEF IInv, Shapes, MainPCs
  <2>5. Judging'
    BY <1>2, <2>2, <2>3 DEF Judging, TurnEndsInSilence, SoundAloneNeverInterrupts
  <2>6. Asking' /\ Counted'
    BY <1>1, <2>3, Idling, StillAsking, CountedLess DEF IInv
  <2>. QED
    BY <2>4, <2>5, <2>6 DEF IInv
<1>. QED
  BY <1>3, <1>4

(* Counted when the audio moves: out of the turn, or into it.               *)
LEMMA CountedMoved ==
    ASSUME Counted, UNCHANGED frames,
           \/ audio' = audio + staged /\ staged' = 0
           \/ audio' = 0 /\ UNCHANGED staged
           \/ UNCHANGED audio /\ staged' = 0
           \/ UNCHANGED <<audio, staged>>,
           preview'.detector.audio \in {0, preview.detector.audio},
           \/ main'.pc \notin {"accept", "ensure", "push"} /\ main'.chunks = 0
           \/ UNCHANGED main
    PROVE  Counted'
<1>1. PICK a, b, c \in Nat :
        /\ audio = a * ChunkMs /\ staged = b * ChunkMs
        /\ preview.detector.audio = c * ChunkMs
        /\ a + b + (IF main.pc = "accept" THEN main.chunks ELSE 0) <= frames * MaxChunks
        /\ c + (IF main.pc \in {"accept", "ensure", "push"} THEN main.chunks ELSE 0)
             <= frames * MaxChunks
  BY Counts
<1>2. /\ frames \in 0 .. MaxFrames /\ main.chunks \in 0 .. MaxChunks /\ main.chunks \in Nat
      /\ frames * MaxChunks \in Nat /\ 0 \in 0 .. MaxChunks
  BY Counts, PreviewAssumption, Idling
<1>3. PICK total \in Nat : total = frames * MaxChunks
  BY <1>2
<1>4. /\ a + b + (IF main.pc = "accept" THEN main.chunks ELSE 0) <= total
      /\ c + (IF main.pc \in {"accept", "ensure", "push"} THEN main.chunks ELSE 0) <= total
  BY <1>1, <1>3
<1>5. PICK x, y \in Nat : audio' = x * ChunkMs /\ staged' = y * ChunkMs /\ x + y <= a + b
  <2>1. /\ audio + staged = (a + b) * ChunkMs /\ 0 = 0 * ChunkMs
    BY <1>1, Chunks
  <2>2. CASE audio' = audio + staged /\ staged' = 0
    BY <2>1, <2>2
  <2>3. CASE audio' = 0 /\ UNCHANGED staged
    BY <1>1, <2>1, <2>3
  <2>4. CASE UNCHANGED audio /\ staged' = 0
    BY <1>1, <2>1, <2>4
  <2>5. CASE UNCHANGED <<audio, staged>>
    BY <1>1, <2>5
  <2>. QED
    BY <2>2, <2>3, <2>4, <2>5
<1>6. PICK z \in Nat : preview'.detector.audio = z * ChunkMs /\ z <= c
  <2>1. 0 = 0 * ChunkMs
    BY Chunks
  <2>2. CASE preview'.detector.audio = 0
    BY <2>1, <2>2
  <2>3. CASE preview'.detector.audio = preview.detector.audio
    BY <1>1, <2>3
  <2>. QED
    BY <2>2, <2>3
<1>7. /\ x + y + (IF main'.pc = "accept" THEN main'.chunks ELSE 0) <= total
      /\ z + (IF main'.pc \in {"accept", "ensure", "push"} THEN main'.chunks ELSE 0) <= total
      /\ main'.chunks \in 0 .. MaxChunks
  BY <1>2, <1>4, <1>5, <1>6
<1>. QED
  BY <1>2, <1>3, <1>5, <1>6, <1>7, Recounted

(* The output is interrupted, the staged audio flushed, the turn answered.  *)
LEMMA InterruptInv ==
    ASSUME IInv, \/ InterruptOutput \/ FlushStaged \/ \E plays \in BOOLEAN : Respond(plays)
    PROVE  IInv'
<1>. DEFINE g == [Idle EXCEPT !.pc = "flush"]
            r == [NoOutput EXCEPT !.pc = "play"]
<1>1. /\ DOMAIN g = DOMAIN Idle /\ g.pc = "flush" /\ g.chunks = 0 /\ g.heard = NoSnapshot
      /\ DOMAIN r = DOMAIN NoOutput /\ r.pc = "play"
  BY DEF Idle, NoOutput
<1>. HIDE DEF g, r
<1>2. /\ main' \in {Idle, g} /\ UNCHANGED <<previewing, preview, questions, frames>>
      /\ speaking' \in BOOLEAN /\ out' \in {out, NoOutput, r}
      /\ \/ audio' = audio + staged /\ staged' = 0
         \/ UNCHANGED <<audio, staged>>
  BY DEF InterruptOutput, FlushStaged, Respond, g, r, IInv, Shapes
<1>3. /\ DOMAIN main' = DOMAIN Idle /\ main'.pc \in {"idle", "flush"} /\ main'.chunks = 0
      /\ Snapped(main'.heard)
  BY <1>1, <1>2, Idling
<1>4. Shapes'
  BY <1>1, <1>2, <1>3, Idling DEF IInv, Shapes, MainPCs, OutPCs
<1>5. Asking' /\ Judging'
  BY <1>2, <1>3, StillAsking, NotJudging DEF IInv
<1>6. Counted'
  BY <1>2, <1>3, CountedMoved DEF IInv
<1>. QED
  BY <1>4, <1>5, <1>6 DEF IInv

(* The client ends the turn.                                                *)
LEMMA ClientCommitInv ==
    ASSUME IInv, ClientCommit
    PROVE  IInv'
<1>1. /\ preview' = NoPreview /\ questions' = EmptyBag /\ audio' = 0 /\ previewing' = FALSE
      /\ main' = [Idle EXCEPT !.pc = "respond"]
      /\ UNCHANGED <<speaking, staged, out, frames>>
  BY DEF ClientCommit
<1>2. /\ DOMAIN main' = DOMAIN Idle /\ main'.pc = "respond" /\ main'.chunks = 0
      /\ main'.heard = NoSnapshot
  BY <1>1 DEF Idle
<1>3. Shapes'
  BY <1>1, <1>2 DEF IInv, Shapes, MainPCs
<1>4. Asking'
  BY <1>1, FreshAsks DEF IInv
<1>5. Judging'
  BY <1>2, Fresh DEF Judging, TurnEndsInSilence, SoundAloneNeverInterrupts
<1>6. preview'.detector.audio = 0
  BY <1>1, Fresh
<1>7. Counted'
  BY <1>1, <1>2, <1>6, CountedMoved DEF IInv
<1>. QED
  BY <1>3, <1>4, <1>5, <1>7 DEF IInv

(* Time passes for the preview.                                             *)
LEMMA Waited ==
    ASSUME Previewed(preview)
    PROVE  LET w == [preview EXCEPT !.detector = Elapse(@, PollMs)]
           IN  /\ Previewed(w) /\ w.open = preview.open
               /\ w.detector = Elapse(preview.detector, PollMs)
               /\ w.judge = preview.judge /\ w.slots = preview.slots
               /\ w.detector.audio = preview.detector.audio
               /\ w.detector.partial = preview.detector.partial
<1>. DEFINE e == Elapse(preview.detector, PollMs)
<1>1. PollMs \in Nat /\ Detected(preview.detector)
  BY PreviewAssumption DEF Previewed
<1>2. /\ Detected(e) /\ e.commitSuggested = preview.detector.commitSuggested
      /\ e.audio = preview.detector.audio /\ e.partial = preview.detector.partial
  BY <1>1, Aged
<1>. HIDE DEF e
<1>3. LET w == [preview EXCEPT !.detector = e]
      IN  /\ Previewed(w) /\ w.open = preview.open /\ w.detector = e
          /\ w.judge = preview.judge /\ w.slots = preview.slots
  BY <1>2, DetectorChanged
<1>. QED
  BY <1>2, <1>3 DEF e

(* The poll timer.                                                          *)
LEMMA TickInv ==
    ASSUME IInv, Tick
    PROVE  IInv'
<1>. DEFINE w == [preview EXCEPT !.detector = Elapse(@, PollMs)]
            seen == Observe(w)
<1>1. /\ Previewed(w) /\ w.judge = preview.judge /\ w.slots = preview.slots
      /\ w.detector.audio = preview.detector.audio
  BY Waited DEF IInv, Asking
<1>2. UNCHANGED <<speaking, staged, out, frames>>
  BY DEF Tick
<1>3. CASE speaking \/ ~ preview.open
  <2>1. preview' = w /\ UNCHANGED <<audio, previewing, questions, main>>
    BY <1>3 DEF Tick
  <2>. HIDE DEF w
  <2>2. Shapes' /\ Judging'
    BY <1>2, <2>1, StillJudging DEF IInv, Shapes
  <2>3. Asking'
    BY <1>1, <2>1, DetectingAsks DEF IInv
  <2>4. Counted'
    BY <1>1, <1>2, <2>1, CountedMoved DEF IInv
  <2>. QED
    BY <2>2, <2>3, <2>4 DEF IInv
<1>4. CASE ~ (speaking \/ ~ preview.open)
  <2>1. IF seen.commitNew /\ audio > 0
        THEN /\ preview' = NoPreview /\ questions' = EmptyBag
             /\ audio' = 0 /\ previewing' = FALSE
             /\ main' = [Idle EXCEPT !.pc = "respond", !.heard = seen.snapshot]
        ELSE /\ preview' = seen.preview /\ questions' = questions (+) seen.questions
             /\ previewing' = TRUE
             /\ UNCHANGED <<audio, main>>
    BY <1>4 DEF Tick, Poll
  <2>. HIDE DEF w
  <2>2. /\ Snapped(seen.snapshot)
        /\ seen.commitNew => EndsInSilence(seen.snapshot)
        /\ seen.preview.detector.audio = w.detector.audio
    BY <1>1, Observed
  <2>3. CASE seen.commitNew /\ audio > 0
    <3>1. /\ preview' = NoPreview /\ questions' = EmptyBag /\ audio' = 0 /\ previewing' = FALSE
          /\ main' = [Idle EXCEPT !.pc = "respond", !.heard = seen.snapshot]
      BY <2>1, <2>3
    <3>2. Snapped(seen.snapshot) /\ EndsInSilence(seen.snapshot)
      BY <2>2, <2>3
    <3>. HIDE DEF seen
    <3>3. /\ DOMAIN main' = DOMAIN Idle /\ main'.pc = "respond" /\ main'.chunks = 0
          /\ main'.heard = seen.snapshot
      BY <3>1 DEF Idle
    <3>4. Shapes'
      BY <1>2, <3>1, <3>3 DEF IInv, Shapes, MainPCs
    <3>5. Asking'
      BY <3>1, FreshAsks DEF IInv
    <3>6. Judging'
      BY <3>2, <3>3 DEF Judging, TurnEndsInSilence, SoundAloneNeverInterrupts, EndsInSilence
    <3>7. preview'.detector.audio = 0
      BY <3>1, Fresh
    <3>8. Counted'
      BY <1>2, <3>1, <3>3, <3>7, CountedMoved DEF IInv
    <3>. QED
      BY <3>4, <3>5, <3>6, <3>8 DEF IInv
  <2>4. CASE ~ (seen.commitNew /\ audio > 0)
    <3>1. /\ preview' = seen.preview /\ questions' = questions (+) seen.questions
          /\ previewing' = TRUE /\ UNCHANGED <<audio, main>>
      BY <2>1, <2>4
    <3>2. Asking'
      BY <1>1, <3>1, ObservingAsks DEF IInv
    <3>. HIDE DEF seen
    <3>3. Shapes' /\ Judging'
      BY <1>2, <3>1, StillJudging DEF IInv, Shapes
    <3>4. Counted'
      BY <1>1, <1>2, <2>2, <3>1, CountedMoved DEF IInv
    <3>. QED
      BY <3>2, <3>3, <3>4 DEF IInv
  <2>. QED
    BY <2>3, <2>4
<1>. QED
  BY <1>3, <1>4

(* An adviser answers.                                                      *)
LEMMA AnswerInv ==
    ASSUME IInv, Answer
    PROVE  IInv'
<1>1. UNCHANGED <<speaking, audio, previewing, staged, main, out, frames>>
  BY DEF Answer
<1>2. Asking' /\ preview'.detector = preview.detector
  BY AnswerAsks DEF IInv
<1>3. Shapes' /\ Judging'
  BY <1>1, StillJudging DEF IInv, Shapes
<1>4. Counted'
  BY <1>1, <1>2, CountedMoved DEF IInv
<1>. QED
  BY <1>2, <1>3, <1>4 DEF IInv

-----------------------------------------------------------------------------
(* The steps of the output goroutine *)

(* What the output goroutine closes and moves is counted.                   *)
LEMMA OutStepInv ==
    ASSUME IInv, OutStep
    PROVE  IInv'
<1>1. UNCHANGED <<main, frames>>
  BY DEF OutStep, OutVars, PlaybackEnds, LookForStaged, DropStaged, ClearInputPreview,
         ReturnActive, OutputIdle, OutputFlushes
<1>2. DOMAIN out' = DOMAIN NoOutput /\ out'.pc \in OutPCs
  BY Idling DEF OutStep, OutGoto, PlaybackEnds, LookForStaged, DropStaged, ClearInputPreview,
         ReturnActive, OutputIdle, OutputFlushes, IInv, Shapes, OutPCs, NoOutput
<1>3. speaking' \in BOOLEAN /\ previewing' \in BOOLEAN
  BY DEF OutStep, PlaybackEnds, LookForStaged, DropStaged, ClearInputPreview,
         ReturnActive, OutputIdle, OutputFlushes, IInv, Shapes
<1>4. /\ \/ preview' = NoPreview /\ questions' = EmptyBag
         \/ UNCHANGED <<preview, questions>>
      /\ \/ audio' = audio + staged /\ staged' = 0
         \/ audio' = 0 /\ UNCHANGED staged
         \/ UNCHANGED audio /\ staged' = 0
         \/ UNCHANGED <<audio, staged>>
  BY DEF OutStep, PlaybackEnds, LookForStaged, DropStaged, ClearInputPreview,
         ReturnActive, OutputIdle, OutputFlushes
<1>5. Shapes' /\ Judging'
  BY <1>1, <1>2, <1>3, StillJudging DEF IInv, Shapes
<1>6. Asking'
  BY <1>4, StillAsking, FreshAsks DEF IInv
<1>7. preview'.detector.audio \in {0, preview.detector.audio}
  BY <1>4, Fresh
<1>8. Counted'
  BY <1>1, <1>4, <1>7, CountedMoved DEF IInv
<1>. QED
  BY <1>5, <1>6, <1>8 DEF IInv

-----------------------------------------------------------------------------
(* The invariant *)

(* It holds of the first state.                                             *)
LEMMA InitInv == Init => IInv
<1>. SUFFICES ASSUME Init PROVE IInv
  OBVIOUS
<1>1. /\ speaking \in BOOLEAN /\ audio = 0 /\ staged = 0 /\ previewing = FALSE
      /\ preview = NoPreview /\ questions = EmptyBag /\ main = Idle /\ frames = 0
      /\ DOMAIN out = DOMAIN NoOutput /\ out.pc \in OutPCs
  BY Idling DEF Init, NoOutput, OutPCs
<1>2. Shapes
  BY <1>1, Idling DEF Shapes, MainPCs
<1>3. Asking
  BY <1>1, Fresh, BagEmpty DEF Asking, EvaluatingIsBacked
<1>4. Judging
  BY <1>1, Idling DEF Judging, TurnEndsInSilence, SoundAloneNeverInterrupts
<1>5. Counted
  <2>1. 0 = 0 * ChunkMs /\ 0 * MaxChunks = 0 /\ 0 \in 0 .. MaxFrames
    BY PreviewAssumption
  <2>2. preview.detector.audio = 0
    BY <1>1, Fresh
  <2>. QED
    BY <1>1, <2>1, <2>2, Idling DEF Counted
<1>. QED
  BY <1>2, <1>3, <1>4, <1>5 DEF IInv

(* Every step keeps it.                                                     *)
LEMMA NextInv == IInv /\ [Next]_vars => IInv'
<1>. SUFFICES ASSUME IInv, [Next]_vars PROVE IInv'
  OBVIOUS
<1>1. CASE \E n \in 1 .. MaxChunks : Frame(n)
  BY <1>1, FrameInv
<1>2. CASE AcceptFrame \/ EnsureInputPreview \/ JudgeFrame
  BY <1>2, AcceptFrameInv, EnsureInv, JudgeFrameInv
<1>3. CASE \E elapsed \in {0, SlowPushMs}, r \in Replies :
              PushInputPreviewAudio(elapsed, r.text, r.hint)
  <2>1. SlowPushMs \in Nat
    BY PreviewAssumption
  <2>. QED
    BY <1>3, <2>1, PushInv
<1>4. CASE PushFails \/ PushEnds
  BY <1>4, PushFailsInv, PushEndsInv
<1>5. CASE \/ InterruptOutput \/ FlushStaged \/ \E plays \in BOOLEAN : Respond(plays)
  BY <1>5, InterruptInv
<1>6. CASE Tick \/ ClientCommit \/ Answer \/ OutStep
  BY <1>6, TickInv, ClientCommitInv, AnswerInv, OutStepInv
<1>7. CASE UNCHANGED vars
  <2>1. UNCHANGED <<speaking, audio, previewing, staged, preview, questions, main, out, frames>>
    BY <1>7 DEF vars
  <2>2. Shapes' /\ Judging'
    BY <2>1, StillJudging DEF IInv, Shapes
  <2>3. Asking' /\ Counted'
    BY <2>1, StillAsking, CountedMoved DEF IInv
  <2>. QED
    BY <2>2, <2>3 DEF IInv
<1>. QED
  BY <1>1, <1>2, <1>3, <1>4, <1>5, <1>6, <1>7 DEF Next, MainStep, Push

(* The strengthening is an invariant: the answers are filed under the       *)
(* wording they were asked about, the requests are backed, and a snapshot   *)
(* without words is no sign of anything.                                    *)
THEOREM PreviewInvariant == Spec => []IInv
<1>. QED
  BY InitInv, NextInv, PTL DEF Spec

-----------------------------------------------------------------------------
(* What follows from it *)

(* More chunks are more milliseconds.                                       *)
LEMMA Scaled ==
    ASSUME NEW m \in Nat, NEW n \in Nat, m <= n, NEW k \in Nat
    PROVE  m * k <= n * k
<1>1. PICK j \in Nat : n = m + j
  <2>1. n - m \in Nat /\ n = m + (n - m)
    OBVIOUS
  <2>. QED
    BY <2>1
<1>2. n * k = m * k + j * k /\ m * k \in Nat /\ j * k \in Nat
  BY <1>1
<1>. QED
  BY <1>2

(* The state has its shape, and no more audio is held than has arrived:     *)
(* the turn, the staging buffer and the detector count whole chunks         *)
(* (handleBinary, stagePendingBargeInAudio, pushPreviewChunk).              *)
THEOREM PreviewTypeOK == Spec => []TypeOK
<1>1. IInv => TypeOK
  <2>. SUFFICES ASSUME IInv PROVE TypeOK
    OBVIOUS
  <2>1. PICK a, b, c \in Nat :
          /\ audio = a * ChunkMs /\ staged = b * ChunkMs
          /\ preview.detector.audio = c * ChunkMs
          /\ a + b + (IF main.pc = "accept" THEN main.chunks ELSE 0) <= frames * MaxChunks
          /\ c + (IF main.pc \in {"accept", "ensure", "push"} THEN main.chunks ELSE 0)
               <= frames * MaxChunks
    BY Counts DEF IInv
  <2>2. /\ frames \in 0 .. MaxFrames /\ frames \in Nat /\ main.chunks \in Nat
        /\ MaxFrames \in Nat /\ MaxChunks \in Nat /\ ChunkMs \in Nat
    BY Counts, PreviewAssumption DEF IInv
  <2>3. frames * MaxChunks <= MaxFrames * MaxChunks
    BY <2>2, Scaled
  <2>4. PICK total \in Nat, bound \in Nat :
          total = frames * MaxChunks /\ bound = MaxFrames * MaxChunks
    BY <2>2, Totals
  <2>5. a + b <= total /\ c <= total /\ total <= bound
    BY <2>1, <2>2, <2>3, <2>4
  <2>6. {a, b, c} \subseteq 0 .. bound
    BY <2>5
  <2>7. {audio, staged, preview.detector.audio} \subseteq
          {n * ChunkMs : n \in 0 .. MaxFrames * MaxChunks}
    BY <2>1, <2>4, <2>6
  <2>8. audio + staged <= frames * MaxChunks * ChunkMs
    <3>1. audio + staged = (a + b) * ChunkMs /\ a + b \in Nat
      BY <2>1, Chunks
    <3>2. (a + b) * ChunkMs <= total * ChunkMs
      BY <2>2, <2>5, <3>1, Scaled
    <3>. QED
      BY <2>4, <3>1, <3>2
  <2>9. /\ {speaking, previewing, preview.open} \subseteq BOOLEAN
        /\ preview.detector.silence \in Never .. MaxWaitMs
        /\ preview.detector.stableAge \in Never .. DraftStableForMs
        /\ \A q \in BagToSet(questions) : q.to \in {"judge", "slots"}
    BY DEF IInv, Shapes, Asking, Previewed, Detected
  <2>. QED
    BY <2>2, <2>7, <2>8, <2>9 DEF TypeOK, IInv, Shapes, MainPCs, OutPCs
<1>. QED
  BY <1>1, PreviewInvariant, PTL

(* An adviser's answer counts only for the wording it was asked about,      *)
(* however late it arrives (mergedSemanticSnapshot, mergedSlotSnapshot).    *)
THEOREM PreviewAdviceIsCurrent == Spec => []AdviceIsCurrent
<1>1. IInv => AdviceIsCurrent
  BY Observed DEF IInv, Asking, AdviceIsCurrent
<1>. QED
  BY <1>1, PreviewInvariant, PTL

(* No wording waits for an answer that nobody is going to give              *)
(* (shouldLaunch, storeResult, clearRequest).                               *)
THEOREM PreviewEvaluatingIsBacked == Spec => []EvaluatingIsBacked
<1>1. IInv => EvaluatingIsBacked
  BY DEF IInv, Asking
<1>. QED
  BY <1>1, PreviewInvariant, PTL

(* The server ends a turn in the silence after its words, never by a        *)
(* suggestion that was made before the user went on                         *)
(* (handleServerEndpointTick).                                              *)
THEOREM PreviewEndsInSilence == Spec => []TurnEndsInSilence
<1>1. IInv => TurnEndsInSilence
  BY DEF IInv, Judging
<1>. QED
  BY <1>1, PreviewInvariant, PTL

(* Sound without words never stops the playback, however long it lasts      *)
(* (EvaluateBargeIn).                                                       *)
THEOREM PreviewSoundAlone == Spec => []SoundAloneNeverInterrupts
<1>1. IInv => SoundAloneNeverInterrupts
  BY DEF IInv, Judging
<1>. QED
  BY <1>1, PreviewInvariant, PTL

(* More audio of the same words takes no interruption back                  *)
(* (EvaluateBargeIn).                                                       *)
THEOREM PreviewMonotone == Spec => []InterruptIsMonotone
<1>1. IInv => InterruptIsMonotone
  <2>. SUFFICES ASSUME IInv, NEW n \in 1 .. 10,
                       LET q == [pendingBargeInPreview(main.heard) EXCEPT !.audio = @ + 0]
                       IN  EvaluateBargeIn(q) = "hard_interrupt"
                PROVE  LET q == [pendingBargeInPreview(main.heard) EXCEPT !.audio = @ + n * ChunkMs]
                       IN  EvaluateBargeIn(q) = "hard_interrupt"
    BY DEF InterruptIsMonotone
  <2>. DEFINE p == pendingBargeInPreview(main.heard)
  <2>1. Snapped(p)
    BY Pending, Durations DEF IInv, Judging
  <2>2. n * ChunkMs \in Nat
    BY PreviewAssumption
  <2>. HIDE DEF p
  <2>3. [p EXCEPT !.audio = @ + 0] = p
    <3>1. p.audio + 0 = p.audio /\ DOMAIN p = DOMAIN NoSnapshot
      BY <2>1 DEF Snapped
    <3>2. p = [x \in DOMAIN p |-> p[x]]
      BY DEF p, pendingBargeInPreview
    <3>. QED
      BY <3>1, <3>2
  <2>4. EvaluateBargeIn(p) = "hard_interrupt"
    BY <2>3 DEF p
  <2>5. EvaluateBargeIn(Louder(p, n * ChunkMs)) = "hard_interrupt"
    BY <2>1, <2>2, <2>4, LouderInterrupts
  <2>. QED
    BY <2>5 DEF Louder, p
<1>. QED
  BY <1>1, PreviewInvariant, PTL

(* Silence after enough words is noticed by the poll that finds it          *)
(* MaxWaitMs long, whatever the wording and the advisers say                *)
(* (recomputeTurnArbitration).                                              *)
THEOREM PreviewNotices == Spec => SilenceIsNoticed
<1>. DEFINE Notices ==
       /\ main.pc = "idle" /\ ~ speaking /\ preview.open /\ preview'.open
       /\ preview.detector.partial # <<>> /\ preview.detector.audio >= config.minAudio
       /\ preview.detector.silence < MaxWaitMs /\ preview'.detector.silence = MaxWaitMs
       => preview'.detector.commitSuggested
<1>1. IInv /\ [Next]_vars => [Notices]_vars
  <2>. SUFFICES ASSUME IInv, Next, main.pc = "idle", ~ speaking, preview.open, preview'.open,
                       preview.detector.partial # <<>>,
                       preview.detector.audio >= config.minAudio,
                       preview.detector.silence < MaxWaitMs,
                       preview'.detector.silence = MaxWaitMs
                PROVE  preview'.detector.commitSuggested
    OBVIOUS
  <2>1. preview' # preview /\ preview' # NoPreview /\ preview'.detector # preview.detector
    BY Fresh DEF MaxWaitMs
  <2>2. ~ Answer
    BY <2>1, AnswerAsks DEF IInv
  <2>3. Tick
    <3>1. ASSUME OutStep PROVE UNCHANGED preview \/ preview' = NoPreview
      BY <3>1 DEF OutStep, PlaybackEnds, LookForStaged, DropStaged, ClearInputPreview,
             ReturnActive, OutputIdle, OutputFlushes
    <3>2. ~ MainStep
      BY DEF MainStep, AcceptFrame, EnsureInputPreview, Push, PushInputPreviewAudio, PushFails,
             PushEnds, JudgeFrame, InterruptOutput, FlushStaged, Respond
    <3>3. ASSUME NEW n, Frame(n) PROVE UNCHANGED preview
      BY <3>3 DEF Frame
    <3>4. ClientCommit => preview' = NoPreview
      BY DEF ClientCommit
    <3>. QED
      BY <2>1, <2>2, <3>1, <3>2, <3>3, <3>4 DEF Next
  <2>. DEFINE w == [preview EXCEPT !.detector = Elapse(@, PollMs)]
              seen == Observe(w)
  <2>4. preview' = seen.preview
    BY <2>1, <2>3 DEF Tick, Poll
  <2>5. /\ Previewed(w) /\ w.detector.audio = preview.detector.audio
        /\ w.detector.partial = preview.detector.partial
    BY Waited DEF IInv, Asking
  <2>. HIDE DEF w
  <2>6. /\ seen.preview.detector.silence = w.detector.silence
        /\ seen.preview.detector.commitSuggested = PresentArbitration(w.detector).acceptNow
    BY <2>5, Observed
  <2>7. Detected(w.detector)
    BY <2>5 DEF Previewed
  <2>8. PresentArbitration(w.detector).acceptNow = TRUE
    BY <2>4, <2>5, <2>6, <2>7, AcceptsAtLast
  <2>. QED
    BY <2>4, <2>6, <2>8
<1>2. SilenceIsNoticed <=> [][Notices]_vars
  BY PTL DEF SilenceIsNoticed
<1>. QED
  BY <1>1, <1>2, PreviewInvariant, PTL DEF Spec
=============================================================================
