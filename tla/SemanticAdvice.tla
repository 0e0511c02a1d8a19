----------------------------- MODULE SemanticAdvice -----------------------------
(***************************************************************************)
(* The two model-backed advisers of an input preview: the semantic judge   *)
(* (internal/voice/semantic_judge.go) and the slot parser                  *)
(* (semantic_slot_parser.go).  Each is asked about one wording, the key    *)
(* <<stable prefix, partial text>>, in a goroutine of its own; the answer  *)
(* is kept until the next one and merged into the snapshots that still     *)
(* have that wording.                                                      *)
(*                                                                         *)
(* Data: an answer is a record of the fields that the merges use, with the *)
(* values the model returned, which the decoders normalise.  Confidence is *)
(* a percentage.                                                           *)
(***************************************************************************)
EXTENDS TurnDetector

SemanticJudgeMediumConfidence == 68
SemanticJudgeHighConfidence == 78
SemanticJudgeMinRunes == 2
SemanticJudgeMinStableFor == 120
SemanticSlotParserMinRunes == 4
SemanticSlotParserMinStableFor == 160

Intents == {"backchannel", "takeover", "correction", "request", "question", "continue", "other"}
TaskFamilies == {"dialogue", "knowledge_query", "structured_command", "structured_query",
                 "correction", "backchannel"}

OneOf(v, values, default) == IF v \in values THEN v ELSE default

decodeSemanticTurnJudgement(raw) ==
    [status |-> OneOf(raw.status, {"complete", "correction"}, "incomplete"),
     intent |-> OneOf(raw.intent, Intents, "unknown"),
     family |-> OneOf(raw.family, TaskFamilies, "unknown"),
     slots |-> OneOf(raw.slots, {"not_applicable", "wait_slot", "clarify", "ready"}, "unknown"),
     waitDelta |-> clampInt(raw.waitDelta, -600, 600),
     confidence |-> clampInt(raw.confidence, 0, 100)]

decodeSemanticSlotParseResult(raw) ==
    [domain |-> OneOf(raw.domain, {"smart_home", "desktop_assistant", "general_chat"}, "unknown"),
     family |-> OneOf(raw.family, TaskFamilies, "unknown"),
     query |-> raw.query,              \* the intent's label contains "query"
     status |-> OneOf(raw.status,
                      {"partial", "complete", "ambiguous", "not_applicable"}, "unknown"),
     actionability |-> OneOf(raw.actionability,
                             {"wait_more", "draft_ok", "clarify_needed", "act_candidate"},
                             "observe_only"),
     riskConfirm |-> raw.riskConfirm,  \* set by the entity catalog's grounding
     confidence |-> clampInt(raw.confidence, 0, 100)]

-----------------------------------------------------------------------------
(* The request state of an adviser.                                         *)

NoKey == <<>>
semanticCandidateKey(stable, partial) == <<stable, partial>>

NoRequest == [evaluating |-> FALSE, lastRequestedKey |-> NoKey, key |-> NoKey]

shouldLaunch(s, key) ==
    /\ ~ (s.evaluating /\ s.lastRequestedKey = key)
    /\ s.key # key

\* Mutant: filed under the wording asked about last.
storeUnderLatest(s, key, asked, answer) ==
    [evaluating |-> FALSE, lastRequestedKey |-> s.lastRequestedKey,
     key |-> s.lastRequestedKey, asked |-> asked, answer |-> answer]

\* asked is the wording the question was about; the code has only the key.
storeResult(s, key, asked, answer) ==
    [evaluating |-> FALSE, lastRequestedKey |-> s.lastRequestedKey,
     key |-> key, asked |-> asked, answer |-> answer]

\* Mutant: the failed request is not forgotten.
keepRequest(s) == s

clearRequest(s) == [s EXCEPT !.evaluating = FALSE]

-----------------------------------------------------------------------------
(* The judge.                                                               *)

shouldJudgeSemantic(p) ==
    LET text == firstNonEmpty(p.stable, p.partial)
        a == p.arbitration
        short == looksLikeTakeoverLexicon(text) \/ looksLikeBackchannel(text)
    IN  /\ text # <<>>
        /\ Runes(text) >= SemanticJudgeMinRunes \/ short
        /\ \/ a.stableFor >= SemanticJudgeMinStableFor
           \/ a.candidateReady /\ a.taskFamily \in {"knowledge_query", "structured_command",
                                                    "structured_query", "correction"}
           \/ a.acceptCandidate \/ a.acceptNow \/ a.draftAllowed
           \/ short

defaultSemanticWaitDelta(j) ==
    IF j.status = "correction" THEN 320
    ELSE IF j.status = "complete"
    THEN IF j.intent = "question" THEN -140
         ELSE IF j.intent \in {"request", "takeover"} THEN -120
         ELSE IF j.intent \in {"backchannel", "continue"} THEN 180 ELSE -80
    ELSE IF j.intent \in {"continue", "correction"} THEN 220
    ELSE IF j.intent = "backchannel" THEN 120 ELSE 0

\* The detector's family is never unknown here: there is a text.
mergeSemanticJudgement(p, j) ==
    LET a == p.arbitration
        sure == j.confidence >= SemanticJudgeMediumConfidence
        complete == sure /\ j.status = "complete" /\ j.intent # "backchannel"
        corrected == sure /\ j.status = "correction"
        family == IF j.family # "unknown" /\ sure THEN j.family ELSE a.taskFamily
        draft == IF j.slots = "unknown" THEN ~ taskFamilyRequiresSlotReadiness(family)
                 ELSE j.slots # "wait_slot"
    IN  [p EXCEPT
           !.utteranceComplete = IF corrected THEN FALSE ELSE @ \/ complete,
           !.arbitration = recomputeTurnArbitration(firstNonEmpty(p.stable, p.partial),
              [a EXCEPT
                 !.semanticReady = TRUE,
                 !.semanticComplete = j.status = "complete",
                 !.semanticIntent = j.intent,
                 !.semanticConfidence = j.confidence,
                 !.taskFamily = family,
                 !.semanticWaitDelta = IF j.waitDelta # 0 THEN j.waitDelta
                                       ELSE defaultSemanticWaitDelta(j),
                 !.prewarmAllowed = @ \/ complete,
                 !.draftAllowed = IF corrected THEN FALSE
                                  ELSE IF complete THEN draft ELSE @,
                 !.slotActionability = IF complete /\ j.slots = "clarify"
                                       THEN "clarify_needed" ELSE @])]

-----------------------------------------------------------------------------
(* The slot parser.                                                         *)

shouldParseSemanticSlots(p) ==
    LET text == firstNonEmpty(p.stable, p.partial)
        a == p.arbitration
    IN  /\ Runes(text) >= SemanticSlotParserMinRunes
        /\ ~ /\ a.semanticIntent = "backchannel"
             /\ a.semanticConfidence >= SemanticJudgeMediumConfidence
        /\ \/ SlotConstraintRequired(a) /\ a.candidateReady
           \/ a.stableFor >= SemanticSlotParserMinStableFor
           \/ inferLexicalTaskFamily(text) = "structured_command" /\ a.candidateReady
           \/ a.draftAllowed \/ a.acceptCandidate \/ a.acceptNow
           \/ a.semanticComplete
           \/ p.utteranceComplete

inferSlotTaskFamily(p, r) ==
    LET lexical == inferLexicalTaskFamily(firstNonEmpty(p.partial, p.stable))
    IN  IF r.family # "unknown" THEN r.family
        ELSE IF r.domain = "general_chat"
        THEN IF lexical = "knowledge_query" THEN lexical ELSE "dialogue"
        ELSE IF r.domain \in {"smart_home", "desktop_assistant"}
        THEN IF r.query \/ (r.actionability = "observe_only" /\ r.status = "not_applicable")
             THEN "structured_query" ELSE "structured_command"
        ELSE IF p.arbitration.semanticIntent = "question" THEN "knowledge_query"
        ELSE lexical

slotGuardAdjustMs(r) ==
    (IF r.actionability = "wait_more" THEN 220
     ELSE IF r.actionability = "clarify_needed" THEN 80
     ELSE IF r.actionability = "act_candidate" THEN -40 ELSE 0)
    + (IF r.riskConfirm THEN 120 ELSE 0)

mergeSemanticSlotParse(p, r) ==
    LET sure == r.confidence >= SemanticJudgeMediumConfidence
        go == sure /\ r.actionability \in {"draft_ok", "clarify_needed", "act_candidate"}
        wait == sure /\ r.actionability = "wait_more"
    IN  [p EXCEPT !.arbitration = recomputeTurnArbitration(firstNonEmpty(p.stable, p.partial),
           [p.arbitration EXCEPT
              !.slotReady = TRUE,
              !.taskFamily = inferSlotTaskFamily(p, r),
              !.slotActionability = r.actionability,
              !.prewarmAllowed = @ \/ go,
              !.draftAllowed = go \/ (@ /\ ~ wait),
              !.slotGuardAdjust = slotGuardAdjustMs(r)])]
=============================================================================
