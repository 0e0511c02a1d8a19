---------------------------- MODULE PlaybackProofs ----------------------------
(***************************************************************************)
(* Proofs about a spoken answer: what the voice runtime records of it      *)
(* (PlaybackRecord), and what the read loop, the output goroutine and the  *)
(* client's acks make of it (PlaybackAck).                                 *)
(*                                                                         *)
(* The first part is about the record alone: whatever calls the gateway    *)
(* makes, in whatever order and with whatever arguments, the outcome that  *)
(* the next turn is told about makes sense and the memory agrees with it   *)
(* (RecordInv).                                                            *)
(*                                                                         *)
(* The second part is about the calls that are made, for any number of     *)
(* turns and segments, any marks and any order of acks.  The argument is   *)
(* one of custody: a goroutine with something to play or to report is the  *)
(* current output, of the current turn, while the read loop listens, and   *)
(* once cancelled it is waited for (Custody).  So the turn that the record *)
(* holds is the one that plays (OwnTurn), although no call names a turn;   *)
(* and an ack that is taken while there is a turn is one of its playback   *)
(* (OwnAck), although the ack state of an earlier one may still be there   *)
(* and may be cleared at any moment.  Acked follows the client's word that *)
(* it played everything to whatever rests on it.                           *)
(***************************************************************************)
EXTENDS PlaybackAck, TLAPS

\* What was heard of t is a prefix of its text, and the cached boundary says so.
Fresh(t) == IsPrefixOf(t.heard, t.delivered) /\ t.boundary = BoundaryOf(t.delivered, t.heard)

\* A turn carries the flags of an interruption only while it is being finished, and
\* only a live turn is played.
Unfinished(t) == ~t.interrupted /\ ~t.truncated /\ (t.active => t.id # NoTurn)

RecordInv ==
    /\ RecordTypeOK
    /\ OutcomeTruth
    /\ MemoryFollowsOutcome
    /\ turn.active => Fresh(turn)
    /\ Unfinished(turn)

-----------------------------------------------------------------------------
(* Texts *)

(* The empty text.                                                          *)
LEMMA NoTextType == NoText \in TextRecs
  BY DEF NoText, TextRecs, Forms

(* A text that a caller passes.                                             *)
LEMMA GivenText ==
    ASSUME NEW text \in Texts
    PROVE  text \in TextRecs
  BY RecordAssumption

(* Trimming shortens a text, in its form.                                   *)
LEMMA TrimmedPrefix ==
    ASSUME NEW text \in TextRecs
    PROVE  /\ Trimmed(text) \in TextRecs /\ Trimmed(text).form = text.form
           /\ Trimmed(text).runes <= text.runes
  <1>1. text.runes \in Nat /\ text.form \in Forms
    BY DEF TextRecs
  <1>2. CASE text.runes \in Blanks[text.form]
    <2>1. 0 \notin Blanks[text.form]
      BY <1>1, RecordAssumption
    <2>2. text.runes - 1 \in Nat
      BY <1>1, <1>2, <2>1
    <2>3. Trimmed(text) = [text EXCEPT !.runes = text.runes - 1]
      BY <1>2 DEF Trimmed
    <2> QED
      BY <1>1, <2>2, <2>3 DEF TextRecs
  <1>3. CASE text.runes \notin Blanks[text.form]
    BY <1>1, <1>3 DEF Trimmed
  <1> QED
    BY <1>2, <1>3

(* Every text begins with itself and with none.                             *)
LEMMA PrefixFacts ==
    ASSUME NEW text \in TextRecs
    PROVE  IsPrefixOf(text, text) /\ IsPrefixOf(NoText, text)
  <1>1. text.runes \in Nat /\ Common \in Nat
    BY RecordAssumption DEF TextRecs
  <1> QED
    BY <1>1 DEF IsPrefixOf, NoText

(* Where something is missed, less was heard, and a prefix.                 *)
LEMMA MissedFacts ==
    ASSUME NEW d \in TextRecs, NEW h \in TextRecs
    PROVE  /\ MissedRunes(d, h) \in Int
           /\ MissedRunes(d, h) > 0 => h.runes < d.runes /\ IsPrefixOf(h, d)
  <1>1. d.runes \in Nat /\ h.runes \in Nat
    BY DEF TextRecs
  <1> QED
    BY <1>1 DEF MissedRunes

(* The boundary of a text is one of the three.                              *)
LEMMA BoundaryType ==
    ASSUME NEW d, NEW h
    PROVE  BoundaryOf(d, h) \in Boundaries
  BY DEF BoundaryOf, Boundaries

-----------------------------------------------------------------------------
(* The estimate of what was heard *)

\* The quotient that the estimate takes is an integer.
LEMMA QuotientInt ==
    ASSUME NEW a \in Int, NEW b \in Nat \ {0}
    PROVE  a \div b \in Int
  OBVIOUS

\* heardTextForPlayback returns a prefix of the text.
LEMMA HeardRunesPrefix ==
    ASSUME NEW text \in Nat, NEW played \in Nat, NEW planned \in Nat,
           NEW runeMs \in Nat \ {0}
    PROVE  HeardRunes(text, played, planned, runeMs) \in 0 .. text
  <1>1. ASSUME NEW n \in Int, text # 0 PROVE Within(n, text) \in 0 .. text
    BY <1>1 DEF Within
  <1>2. CASE text = 0 \/ played <= 0
    BY <1>2 DEF HeardRunes
  <1>3. CASE ~(text = 0 \/ played <= 0) /\ planned = 0
    <2>1. played \div runeMs \in Int
      BY QuotientInt
    <2>2. HeardRunes(text, played, planned, runeMs) = Within(played \div runeMs, text)
      BY <1>3 DEF HeardRunes
    <2> QED
      BY <1>1, <1>3, <2>1, <2>2
  <1>4. CASE ~(text = 0 \/ played <= 0) /\ planned # 0 /\ played >= planned
    BY <1>4 DEF HeardRunes
  <1>5. CASE ~(text = 0 \/ played <= 0) /\ planned # 0 /\ ~(played >= planned)
    <2>1. text * played + planned - 1 \in Int
      OBVIOUS
    <2>2. (text * played + planned - 1) \div planned \in Int
      BY <1>5, <2>1, QuotientInt
    <2>3. HeardRunes(text, played, planned, runeMs)
            = Within((text * played + planned - 1) \div planned, text)
      BY <1>5 DEF HeardRunes
    <2> QED
      BY <1>1, <1>5, <2>2, <2>3
  <1> QED
    BY <1>2, <1>3, <1>4, <1>5

\* Fields that the updates of heard text leave alone.
Same(t, u) ==
    /\ u.id = t.id /\ u.delivered = t.delivered /\ u.active = t.active
    /\ u.completed = t.completed /\ u.interrupted = t.interrupted
    /\ u.truncated = t.truncated /\ u.soft = t.soft /\ u.policy = t.policy

\* The three fields that record what was heard, set at once.
LEMMA HeardFields ==
    ASSUME NEW t \in TurnRecs, NEW h \in TextRecs, IsPrefixOf(h, t.delivered),
           NEW s \in Sources,
           NEW u, u = [t EXCEPT !.heard = h, !.boundary = BoundaryOf(t.delivered, h),
                                !.source = s]
    PROVE  u \in TurnRecs /\ Fresh(u) /\ Same(t, u) /\ u.heard = h
  <1>1. BoundaryOf(t.delivered, h) \in Boundaries
    BY BoundaryType
  <1> QED
    BY <1>1 DEF Fresh, Same, TurnRecs

(* Setting the heard text sets its boundary.                                *)
LEMMA SetHeardFresh ==
    ASSUME NEW t \in TurnRecs, NEW heard \in TextRecs, IsPrefixOf(heard, t.delivered),
           NEW source \in Sources
    PROVE  /\ SetHeard(t, heard, source) \in TurnRecs
           /\ Fresh(SetHeard(t, heard, source))
           /\ Same(t, SetHeard(t, heard, source))
  <1>1. BoundaryOf(t.delivered, heard) \in Boundaries
    BY BoundaryType
  <1> QED
    BY <1>1 DEF SetHeard, Fresh, Same, TurnRecs

\* updateHeardTextLocked leaves a prefix and its boundary.
LEMMA UpdateHeardFresh ==
    ASSUME NEW t \in TurnRecs, NEW played \in Nat, NEW source \in Sources
    PROVE  /\ UpdateHeard(t, played, source) \in TurnRecs
           /\ Fresh(UpdateHeard(t, played, source))
           /\ Same(t, UpdateHeard(t, played, source))
  <1> DEFINE p == IF played > t.played THEN played ELSE t.played
             r == [t EXCEPT !.played = p]
             d == t.delivered
             n == HeardRunes(d.runes, p, t.planned, approxHeardRuneMs)
             h == Trimmed([d EXCEPT !.runes = n])
  <1>1. /\ p \in Nat /\ d \in TextRecs /\ d.runes \in Nat /\ t.planned \in Nat
        /\ d.form \in Forms
    BY DEF TurnRecs, TextRecs
  <1>2. r \in TurnRecs /\ Same(t, r)
    BY <1>1 DEF TurnRecs, Same
  <1>3. n \in 0 .. d.runes
    <2>1. approxHeardRuneMs \in Nat \ {0}
      BY DEF approxHeardRuneMs
    <2> HIDE DEF p
    <2> QED
      BY <1>1, <2>1, HeardRunesPrefix
  <1>4. h \in TextRecs /\ IsPrefixOf(h, r.delivered)
    <2> HIDE DEF n, p
    <2> DEFINE e == [d EXCEPT !.runes = n]
    <2>1. e \in TextRecs /\ e.form = d.form /\ e.runes = n
      BY <1>1, <1>3 DEF TextRecs
    <2>2. r.delivered = d
      BY <1>2 DEF Same
    <2> HIDE DEF e, d, r
    <2>3. Trimmed(e) \in TextRecs /\ Trimmed(e).form = d.form /\ Trimmed(e).runes <= n
      BY <2>1, TrimmedPrefix
    <2>4. Trimmed(e).runes \in Nat
      BY <2>3 DEF TextRecs
    <2>5. IsPrefixOf(Trimmed(e), d)
      BY <1>1, <1>3, <2>3, <2>4 DEF IsPrefixOf
    <2> QED
      BY <2>2, <2>3, <2>5 DEF e
  <1>5. UpdateHeard(t, played, source) = SetHeard(r, h, source)
    BY DEF UpdateHeard
  <1> HIDE DEF p, r, h, d, n
  <1>6. /\ SetHeard(r, h, source) \in TurnRecs
        /\ Fresh(SetHeard(r, h, source)) /\ Same(r, SetHeard(r, h, source))
    BY <1>2, <1>4, SetHeardFresh
  <1> QED
    BY <1>2, <1>5, <1>6 DEF Same

\* updateHeardTextExactLocked does too: a text that is not a prefix is not taken.
LEMMA UpdateHeardExactFresh ==
    ASSUME NEW t \in TurnRecs, NEW played \in Nat, NEW heard \in TextRecs,
           NEW source \in Sources
    PROVE  /\ UpdateHeardExact(t, played, heard, source) \in TurnRecs
           /\ Fresh(UpdateHeardExact(t, played, heard, source))
           /\ Same(t, UpdateHeardExact(t, played, heard, source))
  <1>1. CASE HasExactPrefix(t, heard)
    <2> DEFINE r == [t EXCEPT !.played = Larger(played, t.played)]
    <2>1. r \in TurnRecs /\ Same(t, r)
      BY DEF TurnRecs, Same, Larger
    <2>2. IsPrefixOf(heard, r.delivered)
      BY <1>1, <2>1 DEF Same, HasExactPrefix
    <2>3. UpdateHeardExact(t, played, heard, source) = SetHeard(r, heard, source)
      BY <1>1 DEF UpdateHeardExact
    <2> HIDE DEF r
    <2>4. /\ SetHeard(r, heard, source) \in TurnRecs
          /\ Fresh(SetHeard(r, heard, source)) /\ Same(r, SetHeard(r, heard, source))
      BY <2>1, <2>2, SetHeardFresh
    <2> QED
      BY <2>1, <2>3, <2>4 DEF Same
  <1>2. CASE ~HasExactPrefix(t, heard)
    BY <1>2, UpdateHeardFresh DEF UpdateHeardExact
  <1> QED
    BY <1>1, <1>2

(* What an interruption starts from is a prefix and its boundary.           *)
LEMMA ReestimateFresh ==
    ASSUME NEW t \in TurnRecs, Fresh(t)
    PROVE  Reestimate(t) \in TurnRecs /\ Fresh(Reestimate(t)) /\ Same(t, Reestimate(t))
  <1>1. t.played \in Nat /\ t.source \in Sources
    BY DEF TurnRecs
  <1>2. Same(t, t)
    BY DEF Same
  <1> QED
    BY <1>1, <1>2, UpdateHeardFresh DEF Reestimate

\* All that was delivered counts as heard.
LEMMA HeardAllFresh ==
    ASSUME NEW t \in TurnRecs, Fresh(t)
    PROVE  HeardAll(t) \in TurnRecs /\ Fresh(HeardAll(t)) /\ Same(t, HeardAll(t))
  <1> DEFINE h == IF t.delivered.runes > 0 THEN t.delivered ELSE t.heard
  <1>1. h \in TextRecs /\ IsPrefixOf(h, t.delivered)
    <2>1. t.delivered \in TextRecs /\ t.heard \in TextRecs
      BY DEF TurnRecs
    <2> QED
      BY <2>1, PrefixFacts DEF Fresh
  <1>2. BoundaryOf(t.delivered, h) \in Boundaries
    BY BoundaryType
  <1> HIDE DEF h
  <1>3. HeardAll(t) = [t EXCEPT !.heard = h, !.boundary = BoundaryOf(t.delivered, h)]
    BY DEF HeardAll, h
  <1> QED
    BY <1>1, <1>2, <1>3 DEF TurnRecs, Fresh, Same

\* A soft recovery moves the boundary back, never beyond the text.
LEMMA ApplySoftFresh ==
    ASSUME NEW t \in TurnRecs, Fresh(t), NEW before \in Snapshots
    PROVE  /\ ApplySoft(t, before) \in TurnRecs
           /\ Fresh(ApplySoft(t, before))
           /\ ApplySoft(t, before).id = t.id
           /\ ApplySoft(t, before).active = t.active
           /\ ApplySoft(t, before).completed = t.completed
  <1>1. CASE t.soft.policy = "ignore" \/ ~LimitsToSoft(t, t.soft)
    BY <1>1 DEF ApplySoft
  <1>2. CASE ~(t.soft.policy = "ignore" \/ ~LimitsToSoft(t, t.soft))
    <2> DEFINE b == PreferredBoundary(t.delivered, t.soft, before)
    <2>1. t.soft \in Snapshots /\ t.delivered \in TextRecs
      BY DEF TurnRecs
    <2>2. t.soft.heard \in TextRecs /\ before.heard \in TextRecs
      BY <2>1 DEF Snapshots
    <2>3. MissedRunes(t.delivered, t.soft.heard) > 0
      BY <1>2 DEF LimitsToSoft
    <2>4. IsPrefixOf(t.soft.heard, t.delivered)
      BY <2>1, <2>2, <2>3, MissedFacts
    <2>5. b \in Snapshots /\ IsPrefixOf(b.heard, t.delivered)
      BY <2>1, <2>4 DEF PreferredBoundary, UsableBoundary
    <2>6. b.heard \in TextRecs /\ b.source \in Sources
      BY <2>5 DEF Snapshots
    <2>7. ApplySoft(t, before)
            = [t EXCEPT !.heard = b.heard, !.boundary = BoundaryOf(t.delivered, b.heard),
                        !.source = b.source]
      BY <1>2 DEF ApplySoft
    <2> HIDE DEF b
    <2>8. IsPrefixOf(b.heard, t.delivered)
      BY <2>5
    <2> DEFINE u == ApplySoft(t, before)
    <2>9. u \in TurnRecs /\ Fresh(u) /\ Same(t, u)
      <3> DEFINE h == b.heard
                 s == b.source
      <3>1. /\ h \in TextRecs /\ IsPrefixOf(h, t.delivered) /\ s \in Sources
            /\ u = [t EXCEPT !.heard = h, !.boundary = BoundaryOf(t.delivered, h),
                            !.source = s]
        BY <2>6, <2>7, <2>8
      <3> HIDE DEF h, s, u
      <3> DEFINE w == [t EXCEPT !.heard = h, !.boundary = BoundaryOf(t.delivered, h),
                                !.source = s]
      <3>2. w \in TurnRecs /\ Fresh(w) /\ Same(t, w)
        BY <3>1, HeardFields, Zenon
      <3> HIDE DEF w
      <3> QED
        BY <3>1, <3>2 DEF w
    <2> QED
      BY <2>9 DEF Same
  <1> QED
    BY <1>1, <1>2

\* A snapshot leaves what was heard of the turn a prefix.
LEMMA CaptureSoftFresh ==
    ASSUME NEW t \in TurnRecs, t.active => Fresh(t), NEW p \in Policies
    PROVE  LET u == CaptureSoft(t, p)
           IN  /\ u \in TurnRecs /\ (u.active => Fresh(u)) /\ u.id = t.id
               /\ u.active = t.active
               /\ u.interrupted = t.interrupted /\ u.truncated = t.truncated
  <1>1. CASE ~t.active
    BY <1>1 DEF CaptureSoft
  <1>2. CASE t.active
    <2> DEFINE r == Reestimate(t)
               s == [policy |-> p, heard |-> r.heard, source |-> r.source,
                     played |-> r.played]
    <2>1. r \in TurnRecs /\ Fresh(r) /\ Same(t, r)
      BY <1>2, ReestimateFresh
    <2>2. CaptureSoft(t, p) = r \/ CaptureSoft(t, p) = [r EXCEPT !.soft = s]
      BY <1>2 DEF CaptureSoft
    <2> HIDE DEF r
    <2>3. s \in Snapshots
      BY <2>1 DEF Snapshots, TurnRecs
    <2> HIDE DEF s
    <2>4. /\ [r EXCEPT !.soft = s] \in TurnRecs /\ Fresh([r EXCEPT !.soft = s])
          /\ [r EXCEPT !.soft = s].id = r.id
          /\ [r EXCEPT !.soft = s].active = r.active
          /\ [r EXCEPT !.soft = s].interrupted = r.interrupted
          /\ [r EXCEPT !.soft = s].truncated = r.truncated
      BY <2>1, <2>3 DEF TurnRecs, Fresh
    <2> QED
      BY <2>1, <2>2, <2>4 DEF Same
  <1> QED
    BY <1>1, <1>2

\* Recording a policy touches nothing else.
LEMMA SetPolicyFresh ==
    ASSUME NEW t \in TurnRecs, NEW p \in Policies
    PROVE  LET u == SetPolicy(t, p)
           IN  /\ u \in TurnRecs /\ (Fresh(t) => Fresh(u)) /\ u.id = t.id
               /\ u.active = t.active
               /\ u.interrupted = t.interrupted /\ u.truncated = t.truncated
  BY DEF SetPolicy, TurnRecs, Fresh

-----------------------------------------------------------------------------
(* What a method does to the record *)

\* A method that leaves the turn alive preserves the invariant.
LEMMA Alive ==
    ASSUME RecordInv, turn' \in TurnRecs, turn'.id # NoTurn, turn'.active => Fresh(turn'),
           ~turn'.interrupted, ~turn'.truncated, memory' \in Outcomes,
           outcome' = outcome
    PROVE  RecordInv'
  <1>1. RecordTypeOK'
    BY DEF RecordInv, RecordTypeOK
  <1>2. OutcomeTruth'
    BY DEF RecordInv, OutcomeTruth
  <1>3. MemoryFollowsOutcome'
    BY DEF MemoryFollowsOutcome, Live
  <1> QED
    BY <1>1, <1>2, <1>3 DEF RecordInv, Unfinished, Fresh

\* What is saved of a turn.
LEMMA SavedType ==
    ASSUME NEW t \in TurnRecs
    PROVE  OutcomeOf(t) \in Outcomes
  BY DEF OutcomeOf, FactsOf, Outcomes, Facts, TurnRecs

\* So does one that ends it, if it ends as a completion or as an interruption.
LEMMA Ending ==
    ASSUME NEW t \in TurnRecs, Finish(t), IsPrefixOf(t.heard, t.delivered),
           t.completed # t.interrupted,
           t.truncated <=> (/\ t.interrupted /\ 0 < t.heard.runes
                            /\ t.heard.runes < t.delivered.runes)
    PROVE  RecordInv'
  <1>1. /\ turn' = FreshTurn(NoTurn)
        /\ outcome' = OutcomeOf(t) /\ memory' = OutcomeOf(t)
    BY DEF Finish, Persist
  <1>2. FreshTurn(NoTurn) \in TurnRecs
    BY NoTextType DEF FreshTurn, TurnRecs, Boundaries, Sources, Policies, NoSnapshot,
                       Snapshots
  <1>3. RecordTypeOK'
    BY <1>1, <1>2, SavedType DEF RecordTypeOK
  <1>4. OutcomeTruth'
    BY <1>1 DEF OutcomeTruth, OutcomeOf, FactsOf
  <1>5. MemoryFollowsOutcome'
    BY <1>1 DEF MemoryFollowsOutcome
  <1>6. turn'.active = FALSE /\ turn'.interrupted = FALSE /\ turn'.truncated = FALSE
    BY <1>1 DEF FreshTurn
  <1> QED
    BY <1>3, <1>4, <1>5, <1>6 DEF RecordInv, Unfinished

\* What the invariant says of a turn that a method finds.
LEMMA Found ==
    ASSUME RecordInv
    PROVE  /\ turn \in TurnRecs /\ memory \in Outcomes /\ outcome \in Outcomes
           /\ (turn.active => Fresh(turn) /\ turn.id # NoTurn)
           /\ ~turn.interrupted /\ ~turn.truncated
           /\ turn.played \in Nat /\ turn.planned \in Nat /\ turn.delivered \in TextRecs
           /\ turn.source \in Sources /\ turn.heard \in TextRecs
  BY DEF RecordInv, RecordTypeOK, Unfinished, TurnRecs

\* The methods that leave the turn alive.
LEMMA PrepareInv ==
    ASSUME RecordInv, NEW id \in Turns, PrepareTurn(id)
    PROVE  RecordInv'
  <1>1. FreshTurn(id) \in TurnRecs
    BY NoTextType DEF FreshTurn, TurnRecs, Boundaries, Sources, Policies, NoSnapshot,
                       Snapshots
  <1>2. turn' \in TurnRecs /\ turn'.id = id /\ memory' = OutcomeOf(turn') /\ outcome' = outcome
    BY <1>1, Found DEF PrepareTurn, Persist, FreshTurn
  <1>3. (turn'.active => Fresh(turn')) /\ ~turn'.interrupted /\ ~turn'.truncated
    BY Found DEF PrepareTurn, FreshTurn
  <1> QED
    BY <1>2, <1>3, SavedType, Alive, RecordAssumption

(* StartPlayback: nothing of the new text was heard yet.                    *)
LEMMA StartInv ==
    ASSUME RecordInv, NEW text \in Texts, NEW planned \in Durations, NEW prefer \in BOOLEAN,
           StartPlaybackWithOptions(text, planned, prefer)
    PROVE  RecordInv'
  <1>1. CASE ~Live
    BY <1>1 DEF StartPlaybackWithOptions, RecordInv, RecordTypeOK, OutcomeTruth,
                MemoryFollowsOutcome, Live, Unfinished, Fresh
  <1>2. CASE Live
    <2> DEFINE u == [FreshTurn(turn.id) EXCEPT !.delivered = text, !.planned = planned,
                                               !.active = TRUE, !.prefer = prefer]
    <2>1. text \in TextRecs /\ planned \in Nat
      BY RecordAssumption
    <2>2. turn.id \in Turns \cup {NoTurn} /\ turn.id # NoTurn
      BY <1>2, Found DEF Live, TurnRecs
    <2>3. FreshTurn(turn.id) \in TurnRecs
      BY <2>2, NoTextType DEF FreshTurn, TurnRecs, Boundaries, Sources, Policies,
                              NoSnapshot, Snapshots
    <2>4. u \in TurnRecs
      BY <2>1, <2>3 DEF TurnRecs
    <2>5. /\ u.heard = NoText /\ u.delivered = text /\ u.boundary = "none" /\ u.id = turn.id
          /\ u.interrupted = FALSE /\ u.truncated = FALSE
      BY DEF FreshTurn
    <2>6. turn' = u /\ memory' = memory /\ outcome' = outcome
      BY <1>2 DEF StartPlaybackWithOptions
    <2> HIDE DEF u
    <2>7. Fresh(u)
      BY <2>1, <2>5, PrefixFacts DEF Fresh, BoundaryOf, NoText
    <2> QED
      BY <2>2, <2>4, <2>5, <2>6, <2>7, Found, Alive
  <1> QED
    BY <1>1, <1>2

(* UpdatePlayback: a longer text, of which the same was heard.              *)
LEMMA UpdateInv ==
    ASSUME RecordInv, NEW text \in Texts, NEW planned \in Durations,
           UpdatePlayback(text, planned), Live
    PROVE  RecordInv'
  <1> DEFINE t == [turn EXCEPT !.delivered = IF text.runes > 0 THEN text ELSE @,
                               !.planned = IF planned > 0 THEN planned ELSE @]
             u == IF t.active THEN UpdateHeard(t, t.played, t.source) ELSE t
  <1>1. text \in TextRecs /\ planned \in Nat
    BY RecordAssumption
  <1>2. t \in TurnRecs
    BY <1>1, Found DEF TurnRecs
  <1>3. /\ t.id = turn.id /\ t.active = turn.active
        /\ t.interrupted = turn.interrupted /\ t.truncated = turn.truncated
    BY Found DEF TurnRecs
  <1>4. turn' = u /\ memory' = OutcomeOf(u) /\ outcome' = outcome
    BY DEF UpdatePlayback, Persist
  <1> HIDE DEF t
  <1>5. t.played \in Nat /\ t.source \in Sources
    BY <1>2 DEF TurnRecs
  <1>6. /\ u \in TurnRecs /\ (u.active => Fresh(u)) /\ u.id = t.id
        /\ u.interrupted = t.interrupted /\ u.truncated = t.truncated
    BY <1>2, <1>5, UpdateHeardFresh DEF Same
  <1> HIDE DEF u
  <1> QED
    BY <1>3, <1>4, <1>6, Found, SavedType, Alive DEF Live

\* A fact that the client reports of the live turn.
LEMMA ObserveInv ==
    ASSUME RecordInv, NEW u \in TurnRecs, Fresh(u), Same(turn, u), turn.id # NoTurn, Observe(u)
    PROVE  RecordInv'
  BY Found, Alive DEF Observe, Same

(* ObservePlaybackChunk.                                                    *)
LEMMA ChunkInv ==
    ASSUME RecordInv, ObservePlaybackChunk, turn.active
    PROVE  RecordInv'
  <1>1. CASE turn.prefer
    BY <1>1 DEF ObservePlaybackChunk, Ignored, recordVars, RecordInv, RecordTypeOK,
                OutcomeTruth, MemoryFollowsOutcome, Live, Unfinished, Fresh
  <1>2. CASE ~turn.prefer
    <2> DEFINE u == UpdateHeard(turn, turn.played + ChunkMs, "heuristic_bytes")
    <2>1. turn.played + ChunkMs \in Nat /\ "heuristic_bytes" \in Sources
      BY Found, RecordAssumption DEF Sources
    <2>2. u \in TurnRecs /\ Fresh(u) /\ Same(turn, u)
      BY <2>1, Found, UpdateHeardFresh
    <2>3. Observe(u)
      BY <1>2 DEF ObservePlaybackChunk
    <2> HIDE DEF u
    <2> QED
      BY <2>2, <2>3, Found, ObserveInv
  <1> QED
    BY <1>1, <1>2

(* ObservePlaybackStartedFact.                                              *)
LEMMA StartedInv ==
    ASSUME RecordInv, ObservePlaybackStartedFact, turn.active
    PROVE  RecordInv'
  <1> DEFINE u == [turn EXCEPT !.source = "playback_started"]
  <1>1. u \in TurnRecs /\ Fresh(u) /\ Same(turn, u)
    BY Found DEF TurnRecs, Sources, Fresh, Same
  <1>2. Observe(u)
    BY DEF ObservePlaybackStartedFact
  <1> HIDE DEF u
  <1> QED
    BY <1>1, <1>2, Found, ObserveInv

(* ObservePlaybackMarkFact, of any duration.                                *)
LEMMA MarkInv ==
    ASSUME RecordInv, NEW played \in Nat, ObservePlaybackMarkFact(played), turn.active
    PROVE  RecordInv'
  <1> DEFINE u == UpdateHeard(turn, played, "segment_mark")
  <1>1. "segment_mark" \in Sources
    BY DEF Sources
  <1>2. u \in TurnRecs /\ Fresh(u) /\ Same(turn, u)
    BY <1>1, Found, UpdateHeardFresh
  <1>3. Observe(u)
    BY DEF ObservePlaybackMarkFact
  <1> HIDE DEF u
  <1> QED
    BY <1>2, <1>3, Found, ObserveInv

(* ObservePlaybackMarkTextFact, of any duration and any text.               *)
LEMMA MarkTextInv ==
    ASSUME RecordInv, NEW played \in Nat, NEW heard \in TextRecs,
           ObservePlaybackMarkTextFact(played, heard), turn.active
    PROVE  RecordInv'
  <1> DEFINE u == UpdateHeardExact(turn, played, heard, "segment_mark")
  <1>1. "segment_mark" \in Sources
    BY DEF Sources
  <1>2. u \in TurnRecs /\ Fresh(u) /\ Same(turn, u)
    BY <1>1, Found, UpdateHeardExactFresh
  <1>3. Observe(u)
    BY DEF ObservePlaybackMarkTextFact
  <1> HIDE DEF u
  <1> QED
    BY <1>2, <1>3, Found, ObserveInv

(* ObservePlaybackCompletedFact, of a playback that is active or not.       *)
LEMMA CompletedFactInv ==
    ASSUME RecordInv, ObservePlaybackCompletedFact, Live
    PROVE  RecordInv'
  <1> DEFINE n == Larger(turn.planned, turn.played)
             v == UpdateHeard(turn, n, "playback_completed")
             u == HeardAll(v)
  <1>1. n \in Nat /\ "playback_completed" \in Sources
    BY Found DEF Larger, Sources
  <1>2. Observe(u)
    BY DEF ObservePlaybackCompletedFact
  <1> HIDE DEF n
  <1>3. v \in TurnRecs /\ Fresh(v) /\ Same(turn, v)
    BY <1>1, Found, UpdateHeardFresh
  <1> HIDE DEF v
  <1>4. u \in TurnRecs /\ Fresh(u) /\ Same(v, u)
    BY <1>3, HeardAllFresh
  <1> HIDE DEF u
  <1>5. Same(turn, u)
    BY <1>3, <1>4 DEF Same
  <1> QED
    BY <1>2, <1>4, <1>5, ObserveInv DEF Live

(* RecordInterruptionDecision, with or without a snapshot.                  *)
LEMMA PolicyInv ==
    ASSUME RecordInv, NEW p \in Policies, RecordInterruptionPolicy(p), Live
    PROVE  RecordInv'
  <1> DEFINE t == SetPolicy(turn, p)
             c == CaptureSoft(t, p)
  <1>1. /\ t \in TurnRecs /\ (t.active => Fresh(t)) /\ t.id = turn.id
        /\ t.interrupted = turn.interrupted /\ t.truncated = turn.truncated
    BY Found, SetPolicyFresh
  <1>2. Observe(t) \/ Observe(c)
    BY DEF RecordInterruptionPolicy
  <1> HIDE DEF t
  <1>3. /\ c \in TurnRecs /\ (c.active => Fresh(c)) /\ c.id = t.id
        /\ c.interrupted = t.interrupted /\ c.truncated = t.truncated
    BY <1>1, CaptureSoftFresh
  <1> HIDE DEF c
  <1> QED
    BY <1>1, <1>2, <1>3, Found, Alive DEF Observe, Live

\* The methods that end the turn.
LEMMA FinalizeInv ==
    ASSUME RecordInv, NEW text \in Texts, FinalizeTextResponse(text), Live
    PROVE  RecordInv'
  <1> DEFINE u == [turn EXCEPT !.delivered = text, !.heard = text, !.completed = TRUE,
                               !.active = FALSE, !.boundary = BoundaryOf(text, text)]
  <1>1. text \in TextRecs
    BY RecordAssumption
  <1>2. BoundaryOf(text, text) \in Boundaries
    BY BoundaryType
  <1>3. u \in TurnRecs
    BY <1>1, <1>2, Found DEF TurnRecs
  <1>4. /\ u.heard = text /\ u.delivered = text /\ u.completed = TRUE
        /\ u.interrupted = turn.interrupted /\ u.truncated = turn.truncated
    BY Found DEF TurnRecs
  <1>5. Finish(u)
    BY DEF FinalizeTextResponse
  <1> HIDE DEF u
  <1>6. u.interrupted = FALSE /\ u.truncated = FALSE
    BY <1>3, <1>4, Found DEF TurnRecs
  <1>7. IsPrefixOf(u.heard, u.delivered)
    BY <1>1, <1>4, PrefixFacts
  <1> QED
    BY <1>3, <1>4, <1>5, <1>6, <1>7, Ending

\* The boundary of a text that was heard in part.
LEMMA PartHeard ==
    ASSUME NEW t \in TurnRecs, Fresh(t)
    PROVE  (t.boundary = "prefix")
             <=> (0 < t.heard.runes /\ t.heard.runes < t.delivered.runes)
  <1>1. t.heard.runes \in Nat /\ t.delivered.runes \in Nat
    BY DEF TurnRecs, TextRecs
  <1>2. /\ t.heard.runes <= t.delivered.runes /\ IsPrefixOf(t.heard, t.delivered)
        /\ t.boundary = BoundaryOf(t.delivered, t.heard)
    BY DEF Fresh, IsPrefixOf
  <1> QED
    BY <1>1, <1>2 DEF BoundaryOf

(* InterruptPlayback: truncated is what the boundary says.                  *)
LEMMA InterruptInv ==
    ASSUME RecordInv, NEW p \in Policies, InterruptPlaybackWithPolicy(p), turn.active
    PROVE  RecordInv'
  <1> DEFINE q == IF p = "ignore" THEN "hard_interrupt" ELSE p
             s == SetPolicy(turn, q)
             t == Reestimate(s)
             cut == (t.boundary = "prefix")
             u == [t EXCEPT !.active = FALSE, !.completed = FALSE,
                            !.interrupted = TRUE, !.truncated = cut]
  <1>1. Finish(u)
    BY DEF InterruptPlaybackWithPolicy
  <1>2. q \in Policies
    BY DEF Policies
  <1> HIDE DEF q
  <1>3. s \in TurnRecs /\ Fresh(s)
    BY <1>2, Found, SetPolicyFresh
  <1> HIDE DEF s
  <1>4. t \in TurnRecs /\ Fresh(t)
    BY <1>3, ReestimateFresh
  <1> HIDE DEF t
  <1>5. cut \in BOOLEAN /\ (cut <=> (0 < t.heard.runes /\ t.heard.runes < t.delivered.runes))
    BY <1>4, PartHeard
  <1> HIDE DEF cut
  <1>6. u \in TurnRecs
    BY <1>4, <1>5 DEF TurnRecs
  <1>7. /\ u.heard = t.heard /\ u.delivered = t.delivered /\ u.completed = FALSE
        /\ u.interrupted = TRUE /\ u.truncated = cut
    BY <1>4 DEF TurnRecs
  <1> HIDE DEF u
  <1>8. IsPrefixOf(u.heard, u.delivered)
    BY <1>4, <1>7 DEF Fresh
  <1>9. u.truncated <=> (/\ u.interrupted /\ 0 < u.heard.runes
                         /\ u.heard.runes < u.delivered.runes)
    BY <1>5, <1>7
  <1> QED
    BY <1>1, <1>6, <1>7, <1>8, <1>9, Ending

(* CompletePlayback: a soft recovery may take back part of the text.        *)
LEMMA CompleteInv ==
    ASSUME RecordInv, NEW source \in Sources, CompletePlaybackWithSource(source), Live
    PROVE  RecordInv'
  <1> DEFINE before == [policy |-> "ignore", heard |-> turn.heard,
                        source |-> turn.source, played |-> turn.played]
             played == IF source = "playback_completed"
                       THEN Larger(turn.planned, turn.played) ELSE turn.played
             r == [turn EXCEPT !.active = FALSE, !.completed = TRUE]
             v == UpdateHeard(r, played, source)
             t == HeardAll(v)
             a == ApplySoft(t, before)
             u == [a EXCEPT !.interrupted = FALSE, !.truncated = FALSE]
  <1>1. Finish(u)
    BY DEF CompletePlaybackWithSource
  <1>2. before \in Snapshots /\ played \in Nat
    BY Found DEF Snapshots, Policies, Larger
  <1>3. r \in TurnRecs /\ r.completed = TRUE
    BY Found DEF TurnRecs
  <1> HIDE DEF before, played, r
  <1>4. v \in TurnRecs /\ Fresh(v) /\ Same(r, v)
    BY <1>2, <1>3, UpdateHeardFresh
  <1> HIDE DEF v
  <1>5. t \in TurnRecs /\ Fresh(t) /\ Same(v, t)
    BY <1>4, HeardAllFresh
  <1> HIDE DEF t
  <1>6. a \in TurnRecs /\ Fresh(a) /\ a.completed = t.completed
    BY <1>2, <1>5, ApplySoftFresh
  <1>7. a.completed = TRUE
    BY <1>3, <1>4, <1>5, <1>6 DEF Same
  <1> HIDE DEF a
  <1>8. u \in TurnRecs
    BY <1>6 DEF TurnRecs
  <1>9. /\ u.heard = a.heard /\ u.delivered = a.delivered
        /\ u.completed = TRUE /\ u.interrupted = FALSE /\ u.truncated = FALSE
    BY <1>6, <1>7 DEF TurnRecs
  <1> HIDE DEF u
  <1>10. IsPrefixOf(u.heard, u.delivered)
    BY <1>6, <1>9 DEF Fresh
  <1> QED
    BY <1>1, <1>8, <1>9, <1>10, Ending

-----------------------------------------------------------------------------
(* Theorems about the record *)

(* A call that finds no turn.                                               *)
LEMMA IgnoredInv ==
    ASSUME RecordInv, UNCHANGED recordVars
    PROVE  RecordInv'
  BY DEF recordVars, RecordInv, RecordTypeOK, OutcomeTruth, MemoryFollowsOutcome, Live,
         Unfinished, Fresh

(* No turn, no outcome.                                                     *)
LEMMA RecordInitInv == RecordInit => RecordInv
  <1> SUFFICES ASSUME RecordInit PROVE RecordInv
    OBVIOUS
  <1>1. FreshTurn(NoTurn) \in TurnRecs
    BY NoTextType DEF FreshTurn, TurnRecs, Boundaries, Sources, Policies, NoSnapshot,
                       Snapshots
  <1>2. NoOutcome \in Outcomes
    BY NoTextType DEF NoOutcome, Outcomes, NoFacts, Facts, Sources, Policies
  <1> QED
    BY <1>1, <1>2 DEF RecordInit, RecordInv, RecordTypeOK, OutcomeTruth, NoOutcome,
                      MemoryFollowsOutcome, Unfinished, FreshTurn

(* The record, whoever calls it.                                            *)
LEMMA RecordStepInv == RecordInv /\ [RecordNext]_recordVars => RecordInv'
  <1> SUFFICES ASSUME RecordInv, [RecordNext]_recordVars PROVE RecordInv'
    OBVIOUS
  <1>1. ASSUME NEW id \in Turns, PrepareTurn(id) PROVE RecordInv'
    BY <1>1, PrepareInv
  <1>2. ASSUME NEW text \in Texts, FinalizeTextResponse(text) PROVE RecordInv'
    BY <1>2, FinalizeInv, IgnoredInv DEF FinalizeTextResponse, Ignored
  <1>3. ASSUME NEW text \in Texts, NEW planned \in Durations, NEW prefer \in BOOLEAN,
               StartPlaybackWithOptions(text, planned, prefer)
        PROVE  RecordInv'
    BY <1>3, StartInv
  <1>4. ASSUME NEW text \in Texts, NEW planned \in Durations,
               UpdatePlayback(text, planned)
        PROVE  RecordInv'
    BY <1>4, UpdateInv, IgnoredInv DEF UpdatePlayback, Ignored
  <1>5. ASSUME ObservePlaybackChunk PROVE RecordInv'
    BY <1>5, ChunkInv, IgnoredInv DEF ObservePlaybackChunk, Ignored
  <1>6. ASSUME ObservePlaybackStartedFact PROVE RecordInv'
    BY <1>6, StartedInv, IgnoredInv DEF ObservePlaybackStartedFact, Ignored
  <1>7. ASSUME NEW played \in Durations, ObservePlaybackMarkFact(played) PROVE RecordInv'
    BY <1>7, MarkInv, IgnoredInv, RecordAssumption DEF ObservePlaybackMarkFact, Ignored
  <1>8. ASSUME NEW played \in Durations, NEW heard \in Texts,
               ObservePlaybackMarkTextFact(played, heard)
        PROVE  RecordInv'
    BY <1>8, MarkTextInv, IgnoredInv, RecordAssumption DEF ObservePlaybackMarkTextFact, Ignored
  <1>9. ASSUME ObservePlaybackCompletedFact PROVE RecordInv'
    BY <1>9, CompletedFactInv, IgnoredInv DEF ObservePlaybackCompletedFact, Ignored
  <1>10. ASSUME NEW p \in Policies, RecordInterruptionPolicy(p) PROVE RecordInv'
    BY <1>10, PolicyInv, IgnoredInv DEF RecordInterruptionPolicy, Ignored
  <1>11. ASSUME NEW p \in Policies, InterruptPlaybackWithPolicy(p) PROVE RecordInv'
    BY <1>11, InterruptInv, IgnoredInv DEF InterruptPlaybackWithPolicy, Ignored
  <1>12. ASSUME NEW source \in Sources, CompletePlaybackWithSource(source) PROVE RecordInv'
    BY <1>12, CompleteInv, IgnoredInv DEF CompletePlaybackWithSource, Ignored
  <1> QED
    BY <1>1, <1>2, <1>3, <1>4, <1>5, <1>6, <1>7, <1>8, <1>9, <1>10, <1>11, <1>12,
       IgnoredInv DEF RecordNext

\* The record of the turn, the memory and the outcome keep their types.
THEOREM RecordTypes == RecordSpec => []RecordTypeOK
  <1>1. RecordInv => RecordTypeOK
    BY DEF RecordInv
  <1> QED
    BY <1>1, RecordInitInv, RecordStepInv, PTL DEF RecordSpec

\* Whatever the gateway calls, in whatever order, the outcome that the next turn is
\* told about says that a beginning of what was delivered was heard, is a completion or an interruption
\* but not both, and is truncated exactly when an interruption cut the text short.
THEOREM RecordOutcome == RecordSpec => []OutcomeTruth
  <1>1. RecordInv => OutcomeTruth
    BY DEF RecordInv
  <1> QED
    BY <1>1, RecordInitInv, RecordStepInv, PTL DEF RecordSpec

\* When no turn is live, the memory record and the outcome agree: every method that
\* ends a turn saves it as it ends.
THEOREM RecordMemory == RecordSpec => []MemoryFollowsOutcome
  <1>1. RecordInv => MemoryFollowsOutcome
    BY DEF RecordInv
  <1> QED
    BY <1>1, RecordInitInv, RecordStepInv, PTL DEF RecordSpec

-----------------------------------------------------------------------------
(* Whose word the record rests on *)

\* The record of t rests, or may come to rest, on the client's word that it played
\* everything.
Completed == "playback_completed"
Said(t) == t.source = Completed \/ t.soft.source = Completed

\* A method that changes what was heard, and not on that word.
Quiet ==
    /\ turn'.id = turn.id /\ turn'.active = turn.active /\ outcome' = outcome
    /\ Said(turn') => Said(turn)

\* A method that ends the turn, on the word of source.
Ended(source) ==
    /\ turn' = FreshTurn(NoTurn)
    /\ outcome'.turn = turn.id
    /\ outcome'.facts.source = Completed => Said(turn) \/ source = Completed

(* An update of the heard text has the source it was given, if any.         *)
LEMMA UpdateSource ==
    ASSUME NEW t \in TurnRecs, NEW played \in Nat, NEW heard \in TextRecs, NEW source \in Sources
    PROVE  LET s == IF source = "unknown" THEN t.source ELSE source
           IN  /\ UpdateHeard(t, played, source).source = s
               /\ UpdateHeardExact(t, played, heard, source).source = s
<1>. DEFINE s == IF source = "unknown" THEN t.source ELSE source
<1>1. ASSUME NEW n, NEW h, NEW u, u = SetHeard([t EXCEPT !.played = n], h, source)
      PROVE  u.source = s
  <2>. DEFINE r == [t EXCEPT !.played = n]
  <2>1. "source" \in DOMAIN r /\ r.source = t.source
    BY DEF TurnRecs
  <2>2. u = [r EXCEPT !.heard = h, !.boundary = BoundaryOf(r.delivered, h),
                      !.source = IF source = "unknown" THEN r.source ELSE source]
    BY <1>1 DEF SetHeard
  <2>. HIDE DEF r
  <2>. QED
    BY <2>1, <2>2
<1>2. UpdateHeard(t, played, source).source = s
  BY <1>1 DEF UpdateHeard
<1>. QED
  BY <1>1, <1>2 DEF UpdateHeardExact

(* Estimating again keeps the source.                                       *)
LEMMA ReestimateSource ==
    ASSUME NEW t \in TurnRecs
    PROVE  Reestimate(t).source = t.source
<1>1. t.played \in Nat /\ t.source \in Sources /\ t.heard \in TextRecs
  BY DEF TurnRecs
<1>. QED
  BY <1>1, UpdateSource DEF Reestimate

(* A snapshot remembers the source that the turn has.                       *)
LEMMA CaptureSource ==
    ASSUME NEW t \in TurnRecs, t.active => Fresh(t), NEW p
    PROVE  Said(CaptureSoft(t, p)) => Said(t)
<1>1. CASE ~ t.active
  BY <1>1 DEF CaptureSoft
<1>2. CASE t.active
  <2>. DEFINE r == Reestimate(t)
              s == [policy |-> p, heard |-> r.heard, source |-> r.source, played |-> r.played]
  <2>1. r \in TurnRecs /\ Same(t, r) /\ r.source = t.source
    BY <1>2, ReestimateFresh, ReestimateSource
  <2>2. CaptureSoft(t, p) = r \/ CaptureSoft(t, p) = [r EXCEPT !.soft = s]
    BY <1>2 DEF CaptureSoft
  <2>. HIDE DEF r
  <2>3. [r EXCEPT !.soft = s].source = r.source /\ [r EXCEPT !.soft = s].soft.source = r.source
    BY <2>1 DEF TurnRecs
  <2>. HIDE DEF s
  <2>. QED
    BY <2>1, <2>2, <2>3 DEF Same, Said
<1>. QED
  BY <1>1, <1>2

(* UpdatePlayback keeps the turn and its source.                            *)
LEMMA UpdateEffect ==
    ASSUME RecordInv, NEW text \in Texts, NEW planned \in Durations, UpdatePlayback(text, planned)
    PROVE  RecordInv' /\ Quiet
<1>1. CASE ~ Live
  BY <1>1, IgnoredInv DEF UpdatePlayback, Ignored, recordVars, Quiet
<1>2. CASE Live
  <2>. DEFINE t == [turn EXCEPT !.delivered = IF text.runes > 0 THEN text ELSE @,
                                !.planned = IF planned > 0 THEN planned ELSE @]
              u == IF t.active THEN UpdateHeard(t, t.played, t.source) ELSE t
  <2>1. text \in TextRecs /\ planned \in Nat
    BY RecordAssumption
  <2>2. t \in TurnRecs /\ t.id = turn.id /\ t.active = turn.active
        /\ t.source = turn.source /\ t.soft = turn.soft
    BY <2>1, Found DEF TurnRecs
  <2>3. turn' = u /\ outcome' = outcome
    BY <1>2 DEF UpdatePlayback
  <2>. HIDE DEF t
  <2>4. t.played \in Nat /\ t.source \in Sources /\ t.heard \in TextRecs
    BY <2>2 DEF TurnRecs
  <2>5. u.id = t.id /\ u.active = t.active /\ u.source = t.source /\ u.soft = t.soft
    BY <2>2, <2>4, UpdateHeardFresh, UpdateSource DEF Same
  <2>. HIDE DEF u
  <2>. QED
    BY <1>2, <2>2, <2>3, <2>5, UpdateInv DEF Quiet, Said
<1>. QED
  BY <1>1, <1>2

(* A chunk, a started or a mark fact.                                       *)
LEMMA ObserveEffect ==
    ASSUME RecordInv, NEW u \in TurnRecs, Observe(u), Same(turn, u),
           u.source = Completed => turn.source = Completed
    PROVE  Quiet
  BY DEF Observe, Same, Quiet, Said

(* A chunk is heard by its bytes.                                           *)
LEMMA ChunkEffect ==
    ASSUME RecordInv, ObservePlaybackChunk
    PROVE  RecordInv' /\ Quiet
<1>1. CASE ~ (turn.active /\ ~ turn.prefer)
  BY <1>1, IgnoredInv DEF ObservePlaybackChunk, Ignored, recordVars, Quiet
<1>2. CASE turn.active /\ ~ turn.prefer
  <2>. DEFINE u == UpdateHeard(turn, turn.played + ChunkMs, "heuristic_bytes")
  <2>1. turn.played + ChunkMs \in Nat /\ "heuristic_bytes" \in Sources
    BY Found, RecordAssumption DEF Sources
  <2>2. u \in TurnRecs /\ Same(turn, u) /\ u.source = "heuristic_bytes"
    <3>. DEFINE n == turn.played + ChunkMs
    <3>1. n \in Nat /\ turn \in TurnRecs /\ turn.heard \in TextRecs
      BY <2>1, Found
    <3>. HIDE DEF n
    <3>2. UpdateHeard(turn, n, "heuristic_bytes").source = "heuristic_bytes"
      BY <2>1, <3>1, UpdateSource
    <3>3. /\ UpdateHeard(turn, n, "heuristic_bytes") \in TurnRecs
          /\ Same(turn, UpdateHeard(turn, n, "heuristic_bytes"))
      BY <2>1, <3>1, UpdateHeardFresh
    <3>. QED
      BY <3>2, <3>3 DEF n
  <2>3. Observe(u)
    BY <1>2 DEF ObservePlaybackChunk
  <2>. HIDE DEF u
  <2>. QED
    BY <1>2, <2>2, <2>3, ObserveEffect, ChunkInv DEF Completed
<1>. QED
  BY <1>1, <1>2

(* A started fact says nothing of the end.                                  *)
LEMMA StartedEffect ==
    ASSUME RecordInv, ObservePlaybackStartedFact
    PROVE  RecordInv' /\ Quiet
<1>1. CASE ~ turn.active
  BY <1>1, IgnoredInv DEF ObservePlaybackStartedFact, Ignored, recordVars, Quiet
<1>2. CASE turn.active
  <2>. DEFINE u == [turn EXCEPT !.source = "playback_started"]
  <2>1. u \in TurnRecs /\ Same(turn, u) /\ u.source = "playback_started"
    BY Found DEF TurnRecs, Sources, Same
  <2>2. Observe(u)
    BY <1>2 DEF ObservePlaybackStartedFact
  <2>. HIDE DEF u
  <2>. QED
    BY <1>2, <2>1, <2>2, ObserveEffect, StartedInv DEF Completed
<1>. QED
  BY <1>1, <1>2

(* Nor does a mark.                                                         *)
LEMMA MarkEffect ==
    ASSUME RecordInv, NEW played \in Nat, NEW heard \in TextRecs,
           ObservePlaybackMarkFact(played) \/ ObservePlaybackMarkTextFact(played, heard)
    PROVE  RecordInv' /\ Quiet
<1>1. CASE ~ turn.active
  BY <1>1, IgnoredInv DEF ObservePlaybackMarkFact, ObservePlaybackMarkTextFact, Ignored,
                          recordVars, Quiet
<1>2. CASE turn.active
  <2>. DEFINE u == UpdateHeard(turn, played, "segment_mark")
              w == UpdateHeardExact(turn, played, heard, "segment_mark")
  <2>1. "segment_mark" \in Sources
    BY DEF Sources
  <2>2. /\ u \in TurnRecs /\ Same(turn, u) /\ u.source = "segment_mark"
        /\ w \in TurnRecs /\ Same(turn, w) /\ w.source = "segment_mark"
    <3>1. turn \in TurnRecs
      BY Found
    <3>2. u.source = "segment_mark" /\ w.source = "segment_mark"
      BY <2>1, <3>1, UpdateSource
    <3>3. u \in TurnRecs /\ Same(turn, u)
      BY <2>1, <3>1, UpdateHeardFresh
    <3>4. w \in TurnRecs /\ Same(turn, w)
      BY <2>1, <3>1, UpdateHeardExactFresh
    <3>. QED
      BY <3>2, <3>3, <3>4
  <2>3. Observe(u) \/ Observe(w)
    BY <1>2 DEF ObservePlaybackMarkFact, ObservePlaybackMarkTextFact
  <2>. HIDE DEF u, w
  <2>. QED
    BY <1>2, <2>2, <2>3, ObserveEffect, MarkInv, MarkTextInv DEF Completed
<1>. QED
  BY <1>1, <1>2

(* A snapshot copies the source that the turn has.                          *)
LEMMA PolicyEffect ==
    ASSUME RecordInv, NEW p \in Policies, RecordInterruptionPolicy(p)
    PROVE  RecordInv' /\ Quiet
<1>1. CASE ~ Live
  BY <1>1, IgnoredInv DEF RecordInterruptionPolicy, Ignored, recordVars, Quiet
<1>2. CASE Live
  <2>. DEFINE t == SetPolicy(turn, p)
              c == CaptureSoft(t, p)
  <2>1. /\ t \in TurnRecs /\ (t.active => Fresh(t)) /\ t.id = turn.id /\ t.active = turn.active
        /\ t.source = turn.source /\ t.soft = turn.soft
    <3>1. t.source = turn.source /\ t.soft = turn.soft
      BY Found DEF SetPolicy, TurnRecs
    <3>. QED
      BY <3>1, Found, SetPolicyFresh
  <2>2. (Observe(t) \/ Observe(c))
    BY <1>2 DEF RecordInterruptionPolicy
  <2>. HIDE DEF t
  <2>3. c.id = t.id /\ c.active = t.active /\ (Said(c) => Said(t))
    BY <2>1, CaptureSoftFresh, CaptureSource
  <2>. HIDE DEF c
  <2>. QED
    BY <1>2, <2>1, <2>2, <2>3, PolicyInv DEF Observe, Quiet, Said
<1>. QED
  BY <1>1, <1>2

(* The client's word itself.                                                *)
LEMMA CompletedFactEffect ==
    ASSUME RecordInv, ObservePlaybackCompletedFact
    PROVE  /\ RecordInv' /\ turn'.id = turn.id /\ turn'.active = turn.active
           /\ outcome' = outcome
           /\ turn.id = NoTurn => turn' = turn
<1>1. CASE ~ Live
  BY <1>1, IgnoredInv DEF ObservePlaybackCompletedFact, Ignored, recordVars, Live
<1>2. CASE Live
  <2>. DEFINE n == Larger(turn.planned, turn.played)
              v == UpdateHeard(turn, n, "playback_completed")
              u == HeardAll(v)
  <2>1. n \in Nat /\ "playback_completed" \in Sources
    BY Found DEF Larger, Sources
  <2>2. Observe(u)
    BY <1>2 DEF ObservePlaybackCompletedFact
  <2>. HIDE DEF n
  <2>3. v \in TurnRecs /\ Fresh(v) /\ Same(turn, v)
    BY <2>1, Found, UpdateHeardFresh
  <2>. HIDE DEF v
  <2>4. Same(v, u)
    BY <2>3, HeardAllFresh
  <2>. HIDE DEF u
  <2>. QED
    BY <1>2, <2>2, <2>3, <2>4, CompletedFactInv DEF Same, Observe, Live
<1>. QED
  BY <1>1, <1>2

(* A text answer ends its turn with the source that the turn has.           *)
LEMMA FinalizeEffect ==
    ASSUME RecordInv, NEW text \in Texts, FinalizeTextResponse(text), Live
    PROVE  RecordInv' /\ Ended("unknown")
<1>. DEFINE u == [turn EXCEPT !.delivered = text, !.heard = text, !.completed = TRUE,
                              !.active = FALSE, !.boundary = BoundaryOf(text, text)]
<1>1. u.id = turn.id /\ u.source = turn.source
  BY Found DEF TurnRecs
<1>2. Finish(u)
  BY DEF FinalizeTextResponse
<1>. HIDE DEF u
<1>. QED
  BY <1>1, <1>2, FinalizeInv DEF Finish, OutcomeOf, FactsOf, Ended, Said

(* So does an interruption, and not as a completion.                        *)
LEMMA InterruptEffect ==
    ASSUME RecordInv, NEW p \in Policies, InterruptPlaybackWithPolicy(p), turn.active
    PROVE  RecordInv' /\ Ended("unknown") /\ outcome'.facts.completed = FALSE
<1>. DEFINE q == IF p = "ignore" THEN "hard_interrupt" ELSE p
            s == SetPolicy(turn, q)
            t == Reestimate(s)
            cut == (t.boundary = "prefix")
            u == [t EXCEPT !.active = FALSE, !.completed = FALSE,
                           !.interrupted = TRUE, !.truncated = cut]
<1>1. Finish(u)
  BY DEF InterruptPlaybackWithPolicy
<1>2. q \in Policies
  BY DEF Policies
<1>. HIDE DEF q
<1>3. s \in TurnRecs /\ Fresh(s) /\ s.id = turn.id /\ s.source = turn.source
  <2>1. s.source = turn.source
    BY Found DEF SetPolicy, TurnRecs
  <2>. QED
    BY <1>2, <2>1, Found, SetPolicyFresh
<1>. HIDE DEF s
<1>4. t \in TurnRecs /\ t.id = s.id /\ t.source = s.source
  BY <1>3, ReestimateFresh, ReestimateSource DEF Same
<1>. HIDE DEF t, cut
<1>5. u.id = t.id /\ u.source = t.source /\ u.completed = FALSE
  BY <1>4 DEF TurnRecs
<1>. HIDE DEF u
<1>. QED
  BY <1>1, <1>3, <1>4, <1>5, InterruptInv DEF Finish, OutcomeOf, FactsOf, Ended, Said

\* Part of what was ducked is still to come, and more than a rune of it.
Ducked(t) == t.soft.policy = "duck_only" /\ MissedRunes(t.delivered, t.soft.heard) >= 2

(* A soft recovery has one of three sources, and leaves a ducked tail out.  *)
LEMMA SoftEffect ==
    ASSUME NEW t \in TurnRecs, NEW before \in Snapshots, NEW a, a = ApplySoft(t, before)
    PROVE  /\ a.source \in {t.source, t.soft.source, before.source}
           /\ a.delivered = t.delivered
           /\ Ducked(t) => a.heard.runes < a.delivered.runes
<1>. DEFINE b == PreferredBoundary(t.delivered, t.soft, before)
<1>1. t.soft \in Snapshots /\ t.delivered \in TextRecs
  BY DEF TurnRecs
<1>2. t.soft.heard \in TextRecs /\ before.heard \in TextRecs
  BY <1>1 DEF Snapshots
<1>0. /\ MissedRunes(t.delivered, t.soft.heard) \in Int
      /\ Ducked(t) => t.soft.heard.runes < t.delivered.runes
  BY <1>1, <1>2, MissedFacts DEF Ducked
<1>3. CASE t.soft.policy = "ignore" \/ ~ LimitsToSoft(t, t.soft)
  <2>1. a = t
    BY <1>3 DEF ApplySoft
  <2>2. ~ Ducked(t)
    BY <1>0, <1>3 DEF Ducked, LimitsToSoft
  <2>. QED
    BY <2>1, <2>2
<1>4. CASE ~ (t.soft.policy = "ignore" \/ ~ LimitsToSoft(t, t.soft))
  <2>1. b.source \in {t.soft.source, before.source}
    BY DEF PreferredBoundary
  <2>2. Ducked(t) => b.heard.runes < t.delivered.runes
    BY <1>0 DEF PreferredBoundary, UsableBoundary
  <2>3. a = [t EXCEPT !.heard = b.heard, !.boundary = BoundaryOf(t.delivered, b.heard),
                      !.source = b.source]
    BY <1>4 DEF ApplySoft
  <2>. HIDE DEF b
  <2>4. a.source = b.source /\ a.delivered = t.delivered /\ a.heard = b.heard
    BY <2>3 DEF TurnRecs
  <2>. QED
    BY <2>1, <2>2, <2>4
<1>. QED
  BY <1>3, <1>4

(* A completion ends the turn on the word of its source.                    *)
LEMMA CompleteEffect ==
    ASSUME RecordInv, NEW source \in Sources, CompletePlaybackWithSource(source), Live
    PROVE  /\ RecordInv' /\ Ended(source)
           /\ Ducked(turn) => outcome'.facts.heard.runes < outcome'.facts.delivered.runes
<1>. DEFINE before == [policy |-> "ignore", heard |-> turn.heard,
                       source |-> turn.source, played |-> turn.played]
            played == IF source = "playback_completed"
                      THEN Larger(turn.planned, turn.played) ELSE turn.played
            r == [turn EXCEPT !.active = FALSE, !.completed = TRUE]
            v == UpdateHeard(r, played, source)
            t == HeardAll(v)
            a == ApplySoft(t, before)
            u == [a EXCEPT !.interrupted = FALSE, !.truncated = FALSE]
<1>1. Finish(u)
  BY DEF CompletePlaybackWithSource
<1>2. before \in Snapshots /\ played \in Nat /\ before.source = turn.source
  BY Found DEF Snapshots, Policies, Larger
<1>3. r \in TurnRecs /\ r.id = turn.id /\ r.source = turn.source /\ r.soft = turn.soft
      /\ r.delivered = turn.delivered
  BY Found DEF TurnRecs
<1>. HIDE DEF before, played, r
<1>4. /\ v \in TurnRecs /\ Fresh(v) /\ Same(r, v)
      /\ v.source = r.source \/ v.source = source
  <2>1. r.heard \in TextRecs
    BY <1>3 DEF TurnRecs
  <2>. QED
    BY <1>2, <1>3, <2>1, UpdateHeardFresh, UpdateSource
<1>. HIDE DEF v
<1>5. t \in TurnRecs /\ Fresh(t) /\ Same(v, t) /\ t.source = v.source
  <2>1. t.source = v.source
    BY <1>4 DEF HeardAll, TurnRecs
  <2>. QED
    BY <1>4, <2>1, HeardAllFresh
<1>. HIDE DEF t
<1>6. /\ a \in TurnRecs /\ a.id = t.id /\ a.delivered = t.delivered
      /\ a.source \in {t.source, t.soft.source, before.source}
      /\ Ducked(t) => a.heard.runes < a.delivered.runes
  BY <1>2, <1>5, ApplySoftFresh, SoftEffect
<1>. HIDE DEF a
<1>7. u.id = a.id /\ u.source = a.source /\ u.heard = a.heard /\ u.delivered = a.delivered
  BY <1>6 DEF TurnRecs
<1>. HIDE DEF u
<1>8. t.id = turn.id /\ t.soft = turn.soft /\ t.delivered = turn.delivered
  BY <1>3, <1>4, <1>5 DEF Same
<1>9. u.id = turn.id /\ (u.source = Completed => Said(turn) \/ source = Completed)
  BY <1>2, <1>3, <1>4, <1>5, <1>6, <1>7, <1>8 DEF Said
<1>10. Ducked(turn) => u.heard.runes < u.delivered.runes
  BY <1>6, <1>7, <1>8 DEF Ducked
<1>11. /\ turn' = FreshTurn(NoTurn) /\ outcome'.turn = u.id
       /\ outcome'.facts.source = u.source /\ outcome'.facts.heard = u.heard
       /\ outcome'.facts.delivered = u.delivered
  BY <1>1 DEF Finish, OutcomeOf, FactsOf
<1>. QED
  BY <1>9, <1>10, <1>11, CompleteInv DEF Ended

(* PrepareTurn keeps the turn it finds or starts a new one.                 *)
LEMMA PrepareEffect ==
    ASSUME RecordInv, NEW id \in Turns, PrepareTurn(id)
    PROVE  /\ RecordInv' /\ outcome' = outcome /\ turn'.id = id
           /\ turn.id = id => turn' = turn
           /\ turn.id # id => turn'.active = FALSE /\ ~ Said(turn')
<1>1. turn.id = id => turn' = turn
  BY DEF PrepareTurn
<1>2. turn.id # id => turn' = FreshTurn(id)
  BY DEF PrepareTurn
<1>3. /\ FreshTurn(id).id = id /\ FreshTurn(id).active = FALSE
      /\ ~ Said(FreshTurn(id))
  BY DEF FreshTurn, Said, Completed, NoSnapshot
<1>4. outcome' = outcome
  BY DEF PrepareTurn
<1>. QED
  BY <1>1, <1>2, <1>3, <1>4, PrepareInv

(* StartPlayback starts without a source.                                   *)
LEMMA StartEffect ==
    ASSUME RecordInv, NEW text \in Texts, NEW planned \in Durations, NEW prefer \in BOOLEAN,
           StartPlaybackWithOptions(text, planned, prefer), Live
    PROVE  /\ RecordInv' /\ outcome' = outcome /\ turn'.id = turn.id /\ turn'.active = TRUE
           /\ ~ Said(turn')
<1>. DEFINE f == FreshTurn(turn.id)
            u == [f EXCEPT !.delivered = text, !.planned = planned,
                           !.active = TRUE, !.prefer = prefer]
<1>1. turn' = u /\ outcome' = outcome
  BY DEF StartPlaybackWithOptions
<1>2. u.id = turn.id /\ u.active = TRUE /\ u.source = "unknown" /\ u.soft.source = "unknown"
  BY DEF FreshTurn, NoSnapshot
<1>. HIDE DEF u
<1>. QED
  BY <1>1, <1>2, StartInv DEF Said, Completed

-----------------------------------------------------------------------------
(* Types of the acks and the goroutines *)

\* TypeOK without the record
Shapes ==
    /\ ackOn \in BOOLEAN /\ speaking \in BOOLEAN /\ broken \in BOOLEAN
    /\ cur \in Turns \cup {NoTurn}
    /\ output \in Turns \cup {NoTurn}
    /\ ack \in AckStates
    /\ loop \in Loops
    /\ out \in [Turns -> OutRecs]
    /\ settled \subseteq Turns
    /\ acked \in [Turns -> [completed : BOOLEAN, cleared : 0 .. Segments]]

\* The read loop goes to pc with nothing of the message it has handled.
Leaves(pc, cont) ==
    /\ loop'.pc = pc /\ loop'.cont = cont /\ loop'.early = FALSE
    /\ loop'.kind = "none" /\ loop'.meta.playback = NoTurn

\* It goes on to pc.
GoesTo(pc) ==
    /\ loop'.pc = pc /\ loop'.cont = loop.cont /\ loop'.early = loop.early
    /\ loop'.kind = loop.kind /\ loop'.meta.playback = loop.meta.playback

(* The read loop between two handlers.                                      *)
LEMMA AtLoopType == AtLoop \in Loops
  BY AckAssumption, NoTextType DEF AtLoop, Loops, LoopPCs, NoMeta, Metas

(* The text to the end of a segment is one that callers pass, in each form. *)
LEMMA TextToType ==
    ASSUME NEW k \in 0 .. Segments
    PROVE  /\ \A f \in Forms : TextTo(f, k) \in Texts
           /\ Collected(k) \in Texts
           /\ \A whole \in BOOLEAN : FormOf(whole) \in Forms
<1>1. \A f \in Forms : TextTo(f, k) \in Texts
  BY AckAssumption DEF TextTo
<1>2. "response" \in Forms /\ "announced" \in Forms
  BY DEF Forms
<1>. QED
  BY <1>1, <1>2 DEF Collected, FormOf

(* So is the whole answer.                                                  *)
LEMMA AnswerType == Answer \in Texts /\ 0 \in Durations /\ Segments \in Nat
<1>1. Segments \in Nat /\ Segments \in 0 .. Segments /\ 0 \in Durations
  BY AckAssumption
<1>. QED
  BY <1>1, TextToType DEF Answer

(* Where a handler goes on or ends, the read loop keeps its type.           *)
LEMMA LoopShapes ==
    ASSUME Shapes, NEW pc \in LoopPCs, NEW cont \in LoopPCs
    PROVE  /\ loop' = Goto(pc) => loop' \in Loops /\ GoesTo(pc)
           /\ loop' = Back(pc) => loop' \in Loops /\ Leaves(pc, "loop")
           /\ loop' = [Back(pc) EXCEPT !.cont = cont] => loop' \in Loops /\ Leaves(pc, cont)
<1>1. AtLoop \in Loops
  BY AtLoopType
<1>2. /\ AtLoop.cont = "loop" /\ AtLoop.early = FALSE /\ AtLoop.kind = "none"
      /\ AtLoop.meta.playback = NoTurn
  BY DEF AtLoop, NoMeta
<1>3. loop \in Loops
  BY DEF Shapes
<1>4. /\ Goto(pc) \in Loops /\ Goto(pc).pc = pc /\ Goto(pc).cont = loop.cont
      /\ Goto(pc).early = loop.early /\ Goto(pc).kind = loop.kind
      /\ Goto(pc).meta = loop.meta
  BY <1>3 DEF Goto, Loops
<1>. DEFINE b == Back(pc)
<1>5. b \in Loops /\ b.pc = pc /\ b.cont = "loop" /\ b.early = FALSE /\ b.kind = "none"
      /\ b.meta = AtLoop.meta
  <2>. HIDE DEF AtLoop
  <2>. QED
    BY <1>1, <1>2 DEF Back, Loops
<1>. HIDE DEF b
<1>. DEFINE c == [b EXCEPT !.cont = cont]
<1>6. c \in Loops /\ c.pc = pc /\ c.cont = cont /\ c.early = FALSE /\ c.kind = "none"
      /\ c.meta = AtLoop.meta
  BY <1>5 DEF Loops
<1>. HIDE DEF c
<1>. QED
  BY <1>2, <1>4, <1>5, <1>6 DEF GoesTo, Leaves, b, c

\* Only goroutine p moves.
OutMoves(p, pc) ==
    /\ out' \in [Turns -> OutRecs]
    /\ out'[p].pc = pc /\ out'[p].cancelled = out[p].cancelled
    /\ \A q \in Turns : q # p => out'[q] = out[q]

\* Goroutines go on as they were, woken or not.
OutStays ==
    /\ out' \in [Turns -> OutRecs]
    /\ \A q \in Turns : /\ out'[q].pc = out[q].pc /\ out'[q].verdict = out[q].verdict
                        /\ out'[q].cancelled = out[q].cancelled

(* A goroutine that goes on to pc, perhaps with a new segment, a meta or a  *)
(* verdict.                                                                 *)
LEMMA OutShapes ==
    ASSUME Shapes, NEW p \in Turns, NEW pc \in OutPCs, NEW k \in 0 .. Segments,
           NEW meta \in Metas, NEW verdict \in {"none", "cleared", "completed"}
    PROVE  /\ OutGoto(p, pc) => OutMoves(p, pc) /\ out'[p].verdict = out[p].verdict
           /\ out' = [out EXCEPT ![p].pc = pc, ![p].seg = k]
                => OutMoves(p, pc) /\ out'[p].verdict = out[p].verdict
           /\ out' = [out EXCEPT ![p].pc = pc, ![p].meta = meta]
                => OutMoves(p, pc) /\ out'[p].verdict = out[p].verdict
           /\ out' = [out EXCEPT ![p].pc = pc, ![p].verdict = verdict]
                => OutMoves(p, pc) /\ out'[p].verdict = verdict
           /\ out' = [out EXCEPT ![p].woken = TRUE] => OutStays
<1>. DEFINE r == out[p]
<1>1. out \in [Turns -> OutRecs] /\ r \in OutRecs
  BY DEF Shapes
<1>2. ASSUME NEW u \in OutRecs, out' = [out EXCEPT ![p] = u]
      PROVE  /\ out' \in [Turns -> OutRecs] /\ out'[p] = u
             /\ \A q \in Turns : q # p => out'[q] = out[q]
  BY <1>1, <1>2
<1>. HIDE DEF r
<1>3. /\ [r EXCEPT !.pc = pc] \in OutRecs
      /\ [r EXCEPT !.pc = pc].pc = pc
      /\ [r EXCEPT !.pc = pc].cancelled = r.cancelled
      /\ [r EXCEPT !.pc = pc].verdict = r.verdict
  BY <1>1 DEF OutRecs
<1>4. /\ [r EXCEPT !.pc = pc, !.seg = k] \in OutRecs
      /\ [r EXCEPT !.pc = pc, !.seg = k].pc = pc
      /\ [r EXCEPT !.pc = pc, !.seg = k].cancelled = r.cancelled
      /\ [r EXCEPT !.pc = pc, !.seg = k].verdict = r.verdict
  BY <1>1 DEF OutRecs
<1>5. /\ [r EXCEPT !.pc = pc, !.meta = meta] \in OutRecs
      /\ [r EXCEPT !.pc = pc, !.meta = meta].pc = pc
      /\ [r EXCEPT !.pc = pc, !.meta = meta].cancelled = r.cancelled
      /\ [r EXCEPT !.pc = pc, !.meta = meta].verdict = r.verdict
  BY <1>1 DEF OutRecs
<1>6. /\ [r EXCEPT !.pc = pc, !.verdict = verdict] \in OutRecs
      /\ [r EXCEPT !.pc = pc, !.verdict = verdict].pc = pc
      /\ [r EXCEPT !.pc = pc, !.verdict = verdict].cancelled = r.cancelled
      /\ [r EXCEPT !.pc = pc, !.verdict = verdict].verdict = verdict
  BY <1>1 DEF OutRecs
<1>7. /\ [r EXCEPT !.woken = TRUE] \in OutRecs
      /\ [r EXCEPT !.woken = TRUE].pc = r.pc
      /\ [r EXCEPT !.woken = TRUE].cancelled = r.cancelled
      /\ [r EXCEPT !.woken = TRUE].verdict = r.verdict
  BY <1>1 DEF OutRecs
<1>8. ASSUME OutGoto(p, pc)
      PROVE  OutMoves(p, pc) /\ out'[p].verdict = out[p].verdict
  <2>1. out' = [out EXCEPT ![p] = [r EXCEPT !.pc = pc]]
    BY <1>8 DEF OutGoto, r
  <2>. QED
    BY <1>2, <1>3, <2>1 DEF OutMoves, r
<1>9. ASSUME out' = [out EXCEPT ![p].pc = pc, ![p].seg = k]
      PROVE  OutMoves(p, pc) /\ out'[p].verdict = out[p].verdict
  <2>1. out' = [out EXCEPT ![p] = [r EXCEPT !.pc = pc, !.seg = k]]
    BY <1>1, <1>9 DEF r
  <2>. QED
    BY <1>2, <1>4, <2>1 DEF OutMoves, r
<1>10. ASSUME out' = [out EXCEPT ![p].pc = pc, ![p].meta = meta]
       PROVE  OutMoves(p, pc) /\ out'[p].verdict = out[p].verdict
  <2>1. out' = [out EXCEPT ![p] = [r EXCEPT !.pc = pc, !.meta = meta]]
    BY <1>1, <1>10 DEF r
  <2>. QED
    BY <1>2, <1>5, <2>1 DEF OutMoves, r
<1>11. ASSUME out' = [out EXCEPT ![p].pc = pc, ![p].verdict = verdict]
       PROVE  OutMoves(p, pc) /\ out'[p].verdict = verdict
  <2>1. out' = [out EXCEPT ![p] = [r EXCEPT !.pc = pc, !.verdict = verdict]]
    BY <1>1, <1>11 DEF r
  <2>. QED
    BY <1>2, <1>6, <2>1 DEF OutMoves, r
<1>12. ASSUME out' = [out EXCEPT ![p].woken = TRUE]
       PROVE  OutStays
  <2>1. out' = [out EXCEPT ![p] = [r EXCEPT !.woken = TRUE]]
    BY <1>12 DEF r
  <2>. QED
    BY <1>2, <1>7, <2>1 DEF OutStays, r
<1>. QED
  BY <1>8, <1>9, <1>10, <1>11, <1>12

-----------------------------------------------------------------------------
(* Who plays, and whose acks these are *)

\* The goroutine of playback p has something to play or to report.
Busy(p) == out[p].pc \in {"next", "sync", "update", "play", "check", "ack", "select",
                          "verdict", "await", "return"}
\* Nobody has recorded yet how playback p ended.
Playing(p) == Busy(p) /\ out[p].pc \notin {"await", "return"}

\* The read loop handles an ack, interrupts, has a turn whose audio has started, or a
\* turn that may still start it.
Handling == loop.pc \in {"sync", "update", "fact", "observe"}
Stopping == loop.pc \in {"interrupt", "wait", "record", "idle"}
Settling == loop.pc = "settled" \/ (loop.pc = "respond" /\ loop.early)
Opening == loop.pc = "finalize" \/ (loop.pc = "respond" /\ ~ loop.early)

\* Where the read loop may be while a goroutine is busy.
Listening == loop.pc \in {"loop", "interrupt", "wait"} \/ Handling \/ Settling

\* A busy goroutine is the current output, of the current turn; the session says
\* speaking all the while, and once cancelled it is waited for.
Custody ==
    \A p \in Turns : Busy(p) =>
        /\ output = p /\ cur = p /\ speaking /\ Listening
        /\ loop.pc = "wait" => loop.meta.playback = p
        /\ out[p].cancelled => loop.pc = "wait"

\* Where the read loop is bound for.
Places ==
    /\ loop.pc = "begin" \/ (Stopping /\ loop.cont = "begin") => cur < MaxTurns
    /\ Settling \/ Opening => cur \in Turns
    /\ Stopping => loop.cont \in {"loop", "closed", "begin"}

\* The record holds the current turn or none, the one that plays while one does,
\* and an active one only for a goroutine that plays or an interruption that will
\* record it.
OwnTurn ==
    /\ turn.id \in {cur, NoTurn}
    /\ Opening => turn.id = cur /\ ~ turn.active
    /\ \A p \in Turns : Playing(p) => turn.id = p /\ turn.active
    /\ turn.active /\ ~ broken
         => (turn.id \in Turns /\ Playing(turn.id)) \/ loop.pc \in {"wait", "record"}

\* While there is a turn, an ack that is taken is one of its playback.
Ours == ack.meta.playback \in {cur, NoTurn}
OwnAck ==
    /\ Settling => Ours
    /\ (turn.id # NoTurn
        /\ (loop.pc = "loop" \/ Handling \/ (Stopping /\ loop.cont = "loop"))) => Ours
    /\ Handling => /\ loop.meta.playback \in Turns
                   /\ turn.id # NoTurn => loop.meta.playback = cur

\* The client said of p that it played everything, and whatever rests on that.
Heard(p) == p \in Turns /\ acked[p].completed
Acked ==
    /\ Said(turn) => Heard(turn.id)
    /\ outcome.facts.source = Completed => Heard(outcome.turn)
    /\ \A p \in Turns :
         Playing(p) /\ (ack.terminal = "completed" \/ out[p].verdict = "completed") => Heard(p)
    /\ loop.pc = "observe" /\ loop.kind = "completed" => Heard(loop.meta.playback)

IInv == Shapes /\ RecordInv /\ Custody /\ Places /\ OwnTurn /\ OwnAck /\ Acked

(* Turns are numbered from 1.                                               *)
LEMMA Numbers ==
    NoTurn \notin Turns /\ Turns = 1 .. MaxTurns /\ NoTurn = 0 /\ MaxTurns \in Nat
  BY AckAssumption

(* A text or a commit is accepted.                                          *)
LEMMA NextTurnStep ==
    ASSUME IInv, NextTurn
    PROVE  IInv'
<1>1. /\ loop.pc = "loop" /\ cur < MaxTurns /\ loop' \in Loops
      /\ \/ Leaves("interrupt", "begin") /\ speaking = TRUE
         \/ Leaves("begin", "loop") /\ speaking = FALSE
      /\ UNCHANGED <<recordVars, output, ack, out, broken, acked, speaking, cur>>
  BY LoopShapes DEF IInv, Shapes, NextTurn, LoopPCs
<1>2. Shapes'
  BY <1>1 DEF IInv, Shapes, NextTurn
<1>3. RecordInv' /\ turn' = turn /\ outcome' = outcome
  BY <1>1, IgnoredInv DEF IInv, recordVars
<1>11. Custody'
  BY <1>1, <1>3, Numbers DEF IInv, Shapes, Custody, Busy, Handling, Stopping, Settling,
     Opening, Listening, Leaves
<1>12. Places'
  BY <1>1, <1>3, Numbers DEF IInv, Shapes, Places, Handling, Stopping, Settling, Opening,
     Listening, Leaves
<1>13. OwnTurn'
  BY <1>1, <1>3, Numbers DEF IInv, Shapes, Custody, OwnTurn, Busy, Playing, Handling,
     Stopping, Settling, Opening, Listening, Leaves
<1>14. OwnAck'
  BY <1>1, <1>3, Numbers DEF IInv, Shapes, Custody, OwnTurn, OwnAck, Ours, Busy, Handling,
     Stopping, Settling, Opening, Listening, Leaves
<1>15. Acked'
  BY <1>1, <1>3, Numbers DEF IInv, Shapes, Custody, OwnTurn, OwnAck, Acked, Heard, Busy,
     Playing, Handling, Leaves
<1>. QED
  BY <1>1, <1>2, <1>3, <1>11, <1>12, <1>13, <1>14, <1>15 DEF IInv

(* The turn is prepared: the record had an older one or none.               *)
LEMMA BeginTurnStep ==
    ASSUME IInv, BeginTurn
    PROVE  IInv'
<1>1. /\ loop.pc = "begin" /\ cur' = cur + 1 /\ loop' \in Loops /\ Leaves("respond", "loop")
      /\ UNCHANGED <<output, ack, out, broken, acked, speaking>>
  BY LoopShapes DEF IInv, Shapes, BeginTurn, LoopPCs
<1>0. cur + 1 \in Turns /\ turn.id # cur + 1
  BY <1>1, Numbers DEF IInv, Shapes, Places, OwnTurn
<1>2. Shapes'
  BY <1>0, <1>1 DEF IInv, Shapes, BeginTurn
<1>3. /\ RecordInv' /\ outcome' = outcome /\ turn'.id = cur + 1
      /\ turn'.active = FALSE /\ ~ Said(turn')
  BY <1>0, PrepareEffect DEF IInv, BeginTurn
<1>11. Custody'
  BY <1>0, <1>1, <1>3, Numbers DEF IInv, Shapes, Custody, Busy, Handling, Stopping, Settling,
     Opening, Listening, Leaves
<1>12. Places'
  BY <1>0, <1>1, <1>3, Numbers DEF IInv, Shapes, Places, Handling, Stopping, Settling,
     Opening, Listening, Leaves
<1>13. OwnTurn'
  BY <1>0, <1>1, <1>3, Numbers DEF IInv, Shapes, Custody, OwnTurn, Busy, Playing, Handling,
     Stopping, Settling, Opening, Listening, Leaves
<1>14. OwnAck'
  BY <1>0, <1>1, <1>3, Numbers DEF IInv, Shapes, Custody, OwnTurn, OwnAck, Ours, Busy,
     Handling, Stopping, Settling, Opening, Listening, Leaves
<1>15. Acked'
  BY <1>0, <1>1, <1>3, Numbers DEF IInv, Shapes, Custody, OwnTurn, OwnAck, Acked, Heard,
     Busy, Playing, Handling, Leaves
<1>. QED
  BY <1>1, <1>2, <1>3, <1>11, <1>12, <1>13, <1>14, <1>15 DEF IInv

(* Text arrives while the turn answers.                                     *)
LEMMA CollectDeltaStep ==
    ASSUME IInv, CollectDelta
    PROVE  IInv'
<1>0. loop.collected \in 0 .. Segments /\ loop.collected < Segments /\ Segments \in Nat
  BY AckAssumption DEF IInv, Shapes, Loops, CollectDelta
<1>1. /\ loop.pc = "respond" /\ loop' \in Loops /\ GoesTo("respond")
      /\ UNCHANGED <<output, ack, out, broken, acked, speaking, cur>>
  BY <1>0 DEF IInv, Shapes, CollectDelta, Loops, GoesTo
<1>2. Shapes'
  BY <1>1 DEF IInv, Shapes, CollectDelta
<1>3. RecordInv' /\ Quiet
  <2>1. Collected(loop.collected + 1) \in Texts /\ 0 \in Durations
    <3>1. loop.collected + 1 \in 0 .. Segments
      BY <1>0
    <3>. QED
      BY <3>1, TextToType, AnswerType
  <2>2. Ignored => RecordInv' /\ Quiet
    BY IgnoredInv DEF IInv, Ignored, recordVars, Quiet
  <2>. QED
    BY <2>1, <2>2, UpdateEffect DEF IInv, CollectDelta
<1>11. Custody'
  BY <1>1, <1>3, Numbers DEF IInv, Shapes, Custody, Busy, Handling, Stopping, Settling,
     Opening, Listening, GoesTo, Quiet
<1>12. Places'
  BY <1>1, <1>3, Numbers DEF IInv, Shapes, Places, Handling, Stopping, Settling, Opening,
     Listening, GoesTo, Quiet
<1>13. OwnTurn'
  BY <1>1, <1>3, Numbers DEF IInv, Shapes, Custody, OwnTurn, Busy, Playing, Handling,
     Stopping, Settling, Opening, Listening, GoesTo, Quiet
<1>14. OwnAck'
  BY <1>1, <1>3, Numbers DEF IInv, Shapes, Custody, OwnTurn, OwnAck, Ours, Busy, Handling,
     Stopping, Settling, Opening, Listening, GoesTo, Quiet
<1>15. Acked'
  BY <1>1, <1>3, Numbers DEF IInv, Shapes, Custody, OwnTurn, OwnAck, Acked, Heard, Busy,
     Playing, Handling, GoesTo, Quiet
<1>. QED
  BY <1>1, <1>2, <1>3, <1>11, <1>12, <1>13, <1>14, <1>15 DEF IInv

(* The response settles.  Its turn may have been played to its end by then. *)
LEMMA SettleResponseStep ==
    ASSUME IInv, SettleResponse
    PROVE  IInv'
<1>1. /\ loop.pc = "respond" /\ loop' \in Loops
      /\ \/ loop.early = TRUE /\ GoesTo("settled")
         \/ loop.early = FALSE /\ GoesTo("finalize")
      /\ UNCHANGED <<output, ack, out, broken, acked, speaking, cur>>
  <2>1. loop.early \in BOOLEAN
    BY DEF IInv, Shapes, Loops
  <2>. QED
    BY <2>1, LoopShapes DEF IInv, Shapes, SettleResponse, LoopPCs
<1>0. cur \in Turns
  BY <1>1 DEF IInv, Places, Settling, Opening
<1>2. Shapes'
  BY <1>0, <1>1 DEF IInv, Shapes, SettleResponse
<1>3. /\ RecordInv' /\ outcome' = outcome /\ turn'.id = cur
      /\ turn' = turn \/ (turn.id # cur /\ turn'.active = FALSE /\ ~ Said(turn'))
  BY <1>0, PrepareEffect DEF IInv, SettleResponse
<1>11. Custody'
  BY <1>0, <1>1, <1>3, Numbers DEF IInv, Shapes, Custody, Busy, Handling, Stopping, Settling,
     Opening, Listening, GoesTo
<1>12. Places'
  BY <1>0, <1>1, <1>3, Numbers DEF IInv, Shapes, Places, Handling, Stopping, Settling,
     Opening, Listening, GoesTo
<1>13. OwnTurn'
  BY <1>0, <1>1, <1>3, Numbers DEF IInv, Shapes, Custody, OwnTurn, Busy, Playing, Handling,
     Stopping, Settling, Opening, Listening, GoesTo
<1>14. OwnAck'
  BY <1>0, <1>1, <1>3, Numbers DEF IInv, Shapes, Custody, OwnTurn, OwnAck, Ours, Busy,
     Handling, Stopping, Settling, Opening, Listening, GoesTo
<1>15. Acked'
  BY <1>0, <1>1, <1>3, Numbers DEF IInv, Shapes, Custody, OwnTurn, OwnAck, Acked, Heard,
     Busy, Playing, Handling, GoesTo
<1>. QED
  BY <1>1, <1>2, <1>3, <1>11, <1>12, <1>13, <1>14, <1>15 DEF IInv

(* The playback that started early gets the whole text.                     *)
LEMMA SettleEarlyStep ==
    ASSUME IInv, SettleEarly
    PROVE  IInv'
<1>1. /\ loop.pc = "settled" /\ loop' \in Loops /\ Leaves("loop", "loop")
      /\ UNCHANGED <<output, ack, out, broken, acked, speaking, cur>>
  BY LoopShapes DEF IInv, Shapes, SettleEarly, LoopPCs
<1>2. Shapes'
  BY <1>1 DEF IInv, Shapes, SettleEarly
<1>3. RecordInv' /\ Quiet
  <2>1. Answer \in Texts /\ 0 \in Durations
    BY AnswerType
  <2>. QED
    BY <2>1, UpdateEffect DEF IInv, SettleEarly
<1>11. Custody'
  BY <1>1, <1>3, Numbers DEF IInv, Shapes, Custody, Busy, Handling, Stopping, Settling,
     Opening, Listening, Leaves, Quiet
<1>12. Places'
  BY <1>1, <1>3, Numbers DEF IInv, Shapes, Places, Handling, Stopping, Settling, Opening,
     Listening, Leaves, Quiet
<1>13. OwnTurn'
  BY <1>1, <1>3, Numbers DEF IInv, Shapes, Custody, OwnTurn, Busy, Playing, Handling,
     Stopping, Settling, Opening, Listening, Leaves, Quiet
<1>14. OwnAck'
  BY <1>1, <1>3, Numbers DEF IInv, Shapes, Custody, OwnTurn, OwnAck, Ours, Busy, Handling,
     Stopping, Settling, Opening, Listening, Leaves, Quiet
<1>15. Acked'
  BY <1>1, <1>3, Numbers DEF IInv, Shapes, Custody, OwnTurn, OwnAck, Acked, Heard, Busy,
     Playing, Handling, Leaves, Quiet
<1>. QED
  BY <1>1, <1>2, <1>3, <1>11, <1>12, <1>13, <1>14, <1>15 DEF IInv

(* A turn without audio is over.                                            *)
LEMMA FinalizeTextStep ==
    ASSUME IInv, FinalizeText
    PROVE  IInv'
<1>1. /\ loop.pc = "finalize" /\ loop' \in Loops /\ Leaves("loop", "loop")
      /\ UNCHANGED <<output, ack, out, broken, acked, speaking, cur>>
  BY LoopShapes DEF IInv, Shapes, FinalizeText, LoopPCs
<1>0. turn.id = cur /\ cur \in Turns /\ Live
  BY <1>1, Numbers DEF IInv, Places, OwnTurn, Settling, Opening, Live
<1>2. Shapes'
  BY <1>1 DEF IInv, Shapes, FinalizeText
<1>3. /\ RecordInv' /\ Ended("unknown") /\ turn'.id = NoTurn /\ turn'.active = FALSE
      /\ ~ Said(turn')
  <2>1. Answer \in Texts
    BY AnswerType
  <2>2. RecordInv' /\ Ended("unknown")
    BY <1>0, <2>1, FinalizeEffect DEF IInv, FinalizeText
  <2>. QED
    BY <2>2 DEF Ended, FreshTurn, NoSnapshot, Said, Completed
<1>11. Custody'
  BY <1>0, <1>1, <1>3, Numbers DEF IInv, Shapes, Custody, Busy, Handling, Stopping, Settling,
     Opening, Listening, Leaves, Ended, Completed
<1>12. Places'
  BY <1>0, <1>1, <1>3, Numbers DEF IInv, Shapes, Places, Handling, Stopping, Settling,
     Opening, Listening, Leaves, Ended, Completed
<1>13. OwnTurn'
  BY <1>0, <1>1, <1>3, Numbers DEF IInv, Shapes, Custody, OwnTurn, Busy, Playing, Handling,
     Stopping, Settling, Opening, Listening, Leaves, Ended, Completed
<1>14. OwnAck'
  BY <1>0, <1>1, <1>3, Numbers DEF IInv, Shapes, Custody, OwnTurn, OwnAck, Ours, Busy,
     Handling, Stopping, Settling, Opening, Listening, Leaves, Ended, Completed
<1>15. Acked'
  BY <1>0, <1>1, <1>3, Numbers DEF IInv, Shapes, Custody, OwnTurn, OwnAck, Acked, Heard,
     Busy, Playing, Handling, Leaves, Ended, Completed
<1>. QED
  BY <1>1, <1>2, <1>3, <1>11, <1>12, <1>13, <1>14, <1>15 DEF IInv

(* A response fails.                                                        *)
LEMMA ResponseFailsStep ==
    ASSUME IInv, ResponseFails
    PROVE  IInv'
<1>1. /\ loop.pc = "respond" /\ loop' \in Loops /\ Leaves("interrupt", "closed")
      /\ UNCHANGED <<recordVars, output, ack, out, broken, acked, speaking, cur>>
  BY LoopShapes DEF IInv, Shapes, ResponseFails, LoopPCs
<1>2. Shapes'
  BY <1>1 DEF IInv, Shapes, ResponseFails
<1>3. RecordInv' /\ turn' = turn /\ outcome' = outcome
  BY <1>1, IgnoredInv DEF IInv, recordVars
<1>11. Custody'
  BY <1>1, <1>3, Numbers DEF IInv, Shapes, Custody, Busy, Handling, Stopping, Settling,
     Opening, Listening, Leaves
<1>12. Places'
  BY <1>1, <1>3, Numbers DEF IInv, Shapes, Places, Handling, Stopping, Settling, Opening,
     Listening, Leaves
<1>13. OwnTurn'
  BY <1>1, <1>3, Numbers DEF IInv, Shapes, Custody, OwnTurn, Busy, Playing, Handling,
     Stopping, Settling, Opening, Listening, Leaves
<1>14. OwnAck'
  BY <1>1, <1>3, Numbers DEF IInv, Shapes, Custody, OwnTurn, OwnAck, Ours, Busy, Handling,
     Stopping, Settling, Opening, Listening, Leaves
<1>15. Acked'
  BY <1>1, <1>3, Numbers DEF IInv, Shapes, Custody, OwnTurn, OwnAck, Acked, Heard, Busy,
     Playing, Handling, Leaves
<1>. QED
  BY <1>1, <1>2, <1>3, <1>11, <1>12, <1>13, <1>14, <1>15 DEF IInv

(* A barge-in, an update or the end of the session.                         *)
LEMMA AskInterruptStep ==
    ASSUME IInv, AskInterrupt
    PROVE  IInv'
<1>1. /\ loop.pc = "loop" /\ loop' \in Loops
      /\ Leaves("interrupt", "closed") \/ Leaves("interrupt", "loop")
      /\ UNCHANGED <<recordVars, output, ack, out, broken, acked, speaking, cur>>
  BY LoopShapes DEF IInv, Shapes, AskInterrupt, LoopPCs
<1>2. Shapes'
  BY <1>1 DEF IInv, Shapes, AskInterrupt
<1>3. RecordInv' /\ turn' = turn /\ outcome' = outcome
  BY <1>1, IgnoredInv DEF IInv, recordVars
<1>11. Custody'
  BY <1>1, <1>3, Numbers DEF IInv, Shapes, Custody, Busy, Handling, Stopping, Settling,
     Opening, Listening, Leaves
<1>12. Places'
  BY <1>1, <1>3, Numbers DEF IInv, Shapes, Places, Handling, Stopping, Settling, Opening,
     Listening, Leaves
<1>13. OwnTurn'
  BY <1>1, <1>3, Numbers DEF IInv, Shapes, Custody, OwnTurn, Busy, Playing, Handling,
     Stopping, Settling, Opening, Listening, Leaves
<1>14. OwnAck'
  BY <1>1, <1>3, Numbers DEF IInv, Shapes, Custody, OwnTurn, OwnAck, Ours, Busy, Handling,
     Stopping, Settling, Opening, Listening, Leaves
<1>15. Acked'
  BY <1>1, <1>3, Numbers DEF IInv, Shapes, Custody, OwnTurn, OwnAck, Acked, Heard, Busy,
     Playing, Handling, Leaves
<1>. QED
  BY <1>1, <1>2, <1>3, <1>11, <1>12, <1>13, <1>14, <1>15 DEF IInv

(* A soft barge-in leaves a snapshot.                                       *)
LEMMA DuckOutputStep ==
    ASSUME IInv, DuckOutput
    PROVE  IInv'
<1>1. UNCHANGED <<loop, output, ack, out, broken, acked, speaking, cur>>
  BY DEF DuckOutput, playVars
<1>2. Shapes'
  BY <1>1 DEF IInv, Shapes, DuckOutput, playVars
<1>3. RecordInv' /\ Quiet
  <2>1. SoftPolicies \subseteq Policies
    BY AckAssumption DEF Policies
  <2>. QED
    BY <2>1, PolicyEffect DEF IInv, DuckOutput
<1>11. Custody'
  BY <1>1, <1>3, Numbers DEF IInv, Shapes, Custody, Busy, Handling, Stopping, Settling,
     Opening, Listening, Quiet
<1>12. Places'
  BY <1>1, <1>3, Numbers DEF IInv, Shapes, Places, Handling, Stopping, Settling, Opening,
     Listening, Quiet
<1>13. OwnTurn'
  BY <1>1, <1>3, Numbers DEF IInv, Shapes, Custody, OwnTurn, Busy, Playing, Handling,
     Stopping, Settling, Opening, Listening, Quiet
<1>14. OwnAck'
  BY <1>1, <1>3, Numbers DEF IInv, Shapes, Custody, OwnTurn, OwnAck, Ours, Busy, Handling,
     Stopping, Settling, Opening, Listening, Quiet
<1>15. Acked'
  BY <1>1, <1>3, Numbers DEF IInv, Shapes, Custody, OwnTurn, OwnAck, Acked, Heard, Busy,
     Playing, Handling, Quiet
<1>. QED
  BY <1>1, <1>2, <1>3, <1>11, <1>12, <1>13, <1>14, <1>15 DEF IInv

(* An interruption cancels the current output, if there is one.             *)
LEMMA CancelOutputStep ==
    ASSUME IInv, CancelOutput
    PROVE  IInv'
<1>0. loop.pc = "interrupt" /\ loop \in Loops /\ out \in [Turns -> OutRecs]
  BY DEF IInv, Shapes, CancelOutput
<1>1. /\ loop' \in Loops /\ out' \in [Turns -> OutRecs]
      /\ \/ output = NoTurn /\ GoesTo("idle") /\ out' = out
         \/ /\ output \in Turns
            /\ loop'.pc = "wait" /\ loop'.cont = loop.cont /\ loop'.meta.playback = output
            /\ \A q \in Turns : /\ out'[q].pc = out[q].pc /\ out'[q].verdict = out[q].verdict
                                /\ q # output => out'[q] = out[q]
      /\ UNCHANGED <<recordVars, output, ack, broken, acked, speaking, cur>>
  <2>1. CASE output = NoTurn
    BY <2>1, LoopShapes DEF IInv, Shapes, CancelOutput, LoopPCs
  <2>2. CASE output # NoTurn
    <3>1. output \in Turns
      BY <2>2 DEF IInv, Shapes
    <3>. DEFINE m == [loop.meta EXCEPT !.playback = output]
                l == [loop EXCEPT !.pc = "wait", !.meta = m]
                r == [out[output] EXCEPT !.cancelled = TRUE]
    <3>2. m \in Metas /\ m.playback = output
      BY <1>0, <3>1 DEF Loops, Metas
    <3>3. r \in OutRecs /\ r.pc = out[output].pc /\ r.verdict = out[output].verdict
      BY <1>0, <3>1 DEF OutRecs
    <3>4. loop' = l /\ out' = [out EXCEPT ![output] = r]
      BY <2>2 DEF CancelOutput
    <3>. HIDE DEF m, r
    <3>5. l \in Loops /\ l.pc = "wait" /\ l.cont = loop.cont /\ l.meta = m
      BY <1>0, <3>2 DEF Loops, LoopPCs
    <3>. HIDE DEF l
    <3>. QED
      BY <1>0, <3>1, <3>2, <3>3, <3>4, <3>5 DEF CancelOutput
  <2>. QED
    BY <2>1, <2>2
<1>2. Shapes'
  BY <1>1 DEF IInv, Shapes, CancelOutput
<1>3. RecordInv' /\ turn' = turn /\ outcome' = outcome
  BY <1>1, IgnoredInv DEF IInv, recordVars
<1>11. Custody'
  BY <1>0, <1>1, <1>3, Numbers DEF IInv, Shapes, Custody, Busy, Handling, Stopping, Settling,
     Opening, Listening, GoesTo
<1>12. Places'
  BY <1>0, <1>1, <1>3, Numbers DEF IInv, Shapes, Places, Handling, Stopping, Settling,
     Opening, Listening, GoesTo
<1>13. OwnTurn'
  BY <1>0, <1>1, <1>3, Numbers DEF IInv, Shapes, Custody, OwnTurn, Busy, Playing, Handling,
     Stopping, Settling, Opening, Listening, GoesTo
<1>14. OwnAck'
  BY <1>0, <1>1, <1>3, Numbers DEF IInv, Shapes, Custody, OwnTurn, OwnAck, Ours, Busy,
     Handling, Stopping, Settling, Opening, Listening, GoesTo
<1>15. Acked'
  BY <1>0, <1>1, <1>3, Numbers DEF IInv, Shapes, Custody, OwnTurn, OwnAck, Acked, Heard,
     Busy, Playing, Handling, GoesTo
<1>. QED
  BY <1>1, <1>2, <1>3, <1>11, <1>12, <1>13, <1>14, <1>15 DEF IInv

(* and has waited for it.                                                   *)
LEMMA AwaitOutputStep ==
    ASSUME IInv, AwaitOutput
    PROVE  IInv'
<1>1. /\ loop.pc = "wait" /\ out[loop.meta.playback].pc = "done"
      /\ loop' \in Loops /\ GoesTo("record")
      /\ UNCHANGED <<recordVars, output, ack, out, broken, acked, speaking, cur>>
  BY LoopShapes DEF IInv, Shapes, AwaitOutput, LoopPCs
<1>2. Shapes'
  BY <1>1 DEF IInv, Shapes, AwaitOutput
<1>3. RecordInv' /\ turn' = turn /\ outcome' = outcome
  BY <1>1, IgnoredInv DEF IInv, recordVars
<1>11. Custody'
  BY <1>1, <1>3, Numbers DEF IInv, Shapes, Custody, Busy, Handling, Stopping, Settling,
     Opening, Listening, GoesTo
<1>12. Places'
  BY <1>1, <1>3, Numbers DEF IInv, Shapes, Places, Handling, Stopping, Settling, Opening,
     Listening, GoesTo
<1>13. OwnTurn'
  BY <1>1, <1>3, Numbers DEF IInv, Shapes, Custody, OwnTurn, Busy, Playing, Handling,
     Stopping, Settling, Opening, Listening, GoesTo
<1>14. OwnAck'
  BY <1>1, <1>3, Numbers DEF IInv, Shapes, Custody, OwnTurn, OwnAck, Ours, Busy, Handling,
     Stopping, Settling, Opening, Listening, GoesTo
<1>15. Acked'
  BY <1>1, <1>3, Numbers DEF IInv, Shapes, Custody, OwnTurn, OwnAck, Acked, Heard, Busy,
     Playing, Handling, GoesTo
<1>. QED
  BY <1>1, <1>2, <1>3, <1>11, <1>12, <1>13, <1>14, <1>15 DEF IInv

(* What an interruption does to the record, whether or not the turn plays.  *)
LEMMA InterruptionEffect ==
    ASSUME RecordInv, InterruptPlaybackWithPolicy("hard_interrupt")
    PROVE  /\ RecordInv' /\ turn'.active = FALSE
           /\ \/ turn' = turn /\ outcome' = outcome
              \/ turn.active /\ Ended("unknown") /\ turn'.id = NoTurn /\ ~ Said(turn')
<1>1. CASE turn.active
  <2>1. RecordInv' /\ Ended("unknown")
    BY <1>1, InterruptEffect DEF Policies
  <2>. QED
    BY <1>1, <2>1 DEF Ended, FreshTurn, NoSnapshot, Said, Completed
<1>2. CASE ~ turn.active
  BY <1>2, IgnoredInv, Found DEF InterruptPlaybackWithPolicy, Ignored, recordVars, TurnRecs
<1>. QED
  BY <1>1, <1>2

(* The interruption is recorded: nobody plays.                              *)
LEMMA RecordInterruptStep ==
    ASSUME IInv, RecordInterrupt
    PROVE  IInv'
<1>1. /\ loop.pc = "record" /\ loop' \in Loops /\ GoesTo("idle")
      /\ UNCHANGED <<output, ack, out, broken, acked, speaking, cur>>
  BY LoopShapes DEF IInv, Shapes, RecordInterrupt, LoopPCs
<1>2. Shapes'
  BY <1>1 DEF IInv, Shapes, RecordInterrupt
<1>3. /\ RecordInv' /\ turn'.active = FALSE
      /\ \/ turn' = turn /\ outcome' = outcome
         \/ turn.active /\ Ended("unknown") /\ turn'.id = NoTurn /\ ~ Said(turn')
  BY InterruptionEffect DEF IInv, RecordInterrupt
<1>11. Custody'
  BY <1>1, <1>3, Numbers DEF IInv, Shapes, Custody, Busy, Handling, Stopping, Settling,
     Opening, Listening, GoesTo, Ended, Completed
<1>12. Places'
  BY <1>1, <1>3, Numbers DEF IInv, Shapes, Places, Handling, Stopping, Settling, Opening,
     Listening, GoesTo, Ended, Completed
<1>13. OwnTurn'
  BY <1>1, <1>3, Numbers DEF IInv, Shapes, Custody, OwnTurn, Busy, Playing, Handling,
     Stopping, Settling, Opening, Listening, GoesTo, Ended, Completed
<1>14. OwnAck'
  BY <1>1, <1>3, Numbers DEF IInv, Shapes, Custody, OwnTurn, OwnAck, Ours, Busy, Handling,
     Stopping, Settling, Opening, Listening, GoesTo, Ended, Completed
<1>15. Acked'
  BY <1>1, <1>3, Numbers DEF IInv, Shapes, Custody, OwnTurn, OwnAck, Acked, Heard, Busy,
     Playing, Handling, GoesTo, Ended, Completed
<1>. QED
  BY <1>1, <1>2, <1>3, <1>11, <1>12, <1>13, <1>14, <1>15 DEF IInv

(* The session is idle; the read loop goes on with what it interrupted for. *)
LEMMA BecomeIdleStep ==
    ASSUME IInv, BecomeIdle
    PROVE  IInv'
<1>1. /\ loop.pc = "idle" /\ loop' \in Loops /\ Leaves(loop.cont, "loop")
      /\ speaking' = FALSE
      /\ UNCHANGED <<recordVars, output, ack, out, broken, acked, cur>>
  <2>1. loop.cont \in LoopPCs
    BY DEF IInv, Shapes, Loops
  <2>. QED
    BY <2>1, LoopShapes DEF IInv, BecomeIdle
<1>2. Shapes'
  BY <1>1 DEF IInv, Shapes, BecomeIdle
<1>3. RecordInv' /\ turn' = turn /\ outcome' = outcome
  BY <1>1, IgnoredInv DEF IInv, recordVars
<1>4. loop.cont \in {"loop", "closed", "begin"}
  BY <1>1 DEF IInv, Places, Stopping
<1>11. Custody'
  BY <1>1, <1>3, <1>4, Numbers DEF IInv, Shapes, Custody, Busy, Handling, Stopping, Settling,
     Opening, Listening, Leaves
<1>12. Places'
  BY <1>1, <1>3, <1>4, Numbers DEF IInv, Shapes, Places, Handling, Stopping, Settling,
     Opening, Listening, Leaves
<1>13. OwnTurn'
  BY <1>1, <1>3, <1>4, Numbers DEF IInv, Shapes, Custody, OwnTurn, Busy, Playing, Handling,
     Stopping, Settling, Opening, Listening, Leaves
<1>14. OwnAck'
  BY <1>1, <1>3, <1>4, Numbers DEF IInv, Shapes, Custody, OwnTurn, OwnAck, Ours, Busy,
     Handling, Stopping, Settling, Opening, Listening, Leaves
<1>15. Acked'
  BY <1>1, <1>3, <1>4, Numbers DEF IInv, Shapes, Custody, OwnTurn, OwnAck, Acked, Heard,
     Busy, Playing, Handling, Leaves
<1>. QED
  BY <1>1, <1>2, <1>3, <1>11, <1>12, <1>13, <1>14, <1>15 DEF IInv

-----------------------------------------------------------------------------
(* Acks *)

(* An ack of the playback that the ack state names.                         *)
LEMMA TakeAckStep ==
    ASSUME IInv, TakeAck
    PROVE  IInv'
<1>1. /\ loop.pc = "loop" /\ loop' \in Loops
      /\ loop'.pc = "sync" /\ loop'.early = FALSE
      /\ ack.meta.playback \in Turns /\ loop'.meta.playback = ack.meta.playback
      /\ UNCHANGED <<recordVars, output, ack, out, broken, acked, speaking, cur>>
  <2>1. PICK p \in Turns, kind \in {"started", "mark", "cleared", "completed"} :
            /\ validatePlaybackAckIdentity(p)
            /\ \E k \in (IF kind \in {"mark", "cleared"} THEN 1 .. Segments ELSE {0}),
                  ms \in (IF kind = "mark" THEN Marks ELSE {0}) :
                loop' = [Back("sync") EXCEPT !.kind = kind, !.seg = k, !.ms = ms,
                                             !.known = (kind = "cleared" /\ Announced(k)),
                                             !.meta.playback = p]
    BY DEF TakeAck
  <2>2. PICK k \in (IF kind \in {"mark", "cleared"} THEN 1 .. Segments ELSE {0}),
             ms \in (IF kind = "mark" THEN Marks ELSE {0}) :
                loop' = [Back("sync") EXCEPT !.kind = kind, !.seg = k, !.ms = ms,
                                             !.known = (kind = "cleared" /\ Announced(k)),
                                             !.meta.playback = p]
    BY <2>1
  <2>8. k \in 0 .. Segments
    BY AckAssumption
  <2>9. ms \in Marks \cup {0}
    OBVIOUS
  <2>3. PICK known \in BOOLEAN : known = (kind = "cleared" /\ Announced(k))
    OBVIOUS
  <2>. DEFINE b == Back("sync")
              m == [b.meta EXCEPT !.playback = p]
              l == [b EXCEPT !.kind = kind, !.seg = k, !.ms = ms, !.known = known, !.meta = m]
  <2>4. loop' = l
    BY <2>2, <2>3
  <2>5. b \in Loops /\ b.pc = "sync" /\ b.early = FALSE
    <3>1. AtLoop \in Loops /\ AtLoop.early = FALSE
      BY AtLoopType DEF AtLoop
    <3>. HIDE DEF AtLoop
    <3>. QED
      BY <3>1 DEF Back, Loops, LoopPCs
  <2>. HIDE DEF b
  <2>6. m \in Metas /\ m.playback = p
    BY <2>5 DEF Loops, Metas
  <2>. HIDE DEF m
  <2>7. l \in Loops /\ l.pc = "sync" /\ l.early = FALSE /\ l.meta = m
    BY <2>5, <2>6, <2>8, <2>9 DEF Loops
  <2>. HIDE DEF l
  <2>. QED
    BY <2>1, <2>4, <2>6, <2>7 DEF TakeAck, validatePlaybackAckIdentity
<1>2. Shapes'
  BY <1>1 DEF IInv, Shapes, TakeAck
<1>3. RecordInv' /\ turn' = turn /\ outcome' = outcome
  BY <1>1, IgnoredInv DEF IInv, recordVars
<1>11. Custody'
  BY <1>1, <1>3, Numbers DEF IInv, Shapes, Custody, Busy, Handling, Stopping, Settling,
     Opening, Listening
<1>12. Places'
  BY <1>1, <1>3, Numbers DEF IInv, Shapes, Places, Handling, Stopping, Settling, Opening,
     Listening
<1>13. OwnTurn'
  BY <1>1, <1>3, Numbers DEF IInv, Shapes, Custody, OwnTurn, Busy, Playing, Handling,
     Stopping, Settling, Opening, Listening
<1>14. OwnAck'
  BY <1>1, <1>3, Numbers DEF IInv, Shapes, Custody, OwnTurn, OwnAck, Ours, Busy, Handling,
     Stopping, Settling, Opening, Listening
<1>15. Acked'
  BY <1>1, <1>3, Numbers DEF IInv, Shapes, Custody, OwnTurn, OwnAck, Acked, Heard, Busy,
     Playing, Handling
<1>. QED
  BY <1>1, <1>2, <1>3, <1>11, <1>12, <1>13, <1>14, <1>15 DEF IInv

(* The newest segment is read,                                              *)
LEMMA AckReadMetaStep ==
    ASSUME IInv, AckReadMeta
    PROVE  IInv'
<1>1. /\ loop.pc = "sync" /\ loop' \in Loops /\ GoesTo("update")
      /\ UNCHANGED <<recordVars, output, ack, out, broken, acked, speaking, cur>>
  <2>1. loop \in Loops /\ ack.meta \in Metas
    BY DEF IInv, Shapes, AckStates
  <2>. DEFINE m == [loop.meta EXCEPT !.seg = ack.meta.seg, !.whole = ack.meta.whole]
              l == [loop EXCEPT !.pc = "update", !.meta = m]
  <2>2. loop' = l
    BY <2>1 DEF AckReadMeta, Loops
  <2>3. m \in Metas /\ m.playback = loop.meta.playback
    BY <2>1 DEF Loops, Metas
  <2>. HIDE DEF m
  <2>4. /\ l \in Loops /\ l.pc = "update" /\ l.cont = loop.cont /\ l.early = loop.early
        /\ l.kind = loop.kind /\ l.meta = m
    BY <2>1, <2>3 DEF Loops, LoopPCs
  <2>. HIDE DEF l
  <2>. QED
    BY <2>2, <2>3, <2>4 DEF AckReadMeta, GoesTo
<1>2. Shapes'
  BY <1>1 DEF IInv, Shapes, AckReadMeta
<1>3. RecordInv' /\ turn' = turn /\ outcome' = outcome
  BY <1>1, IgnoredInv DEF IInv, recordVars
<1>11. Custody'
  BY <1>1, <1>3, Numbers DEF IInv, Shapes, Custody, Busy, Handling, Stopping, Settling,
     Opening, Listening, GoesTo
<1>12. Places'
  BY <1>1, <1>3, Numbers DEF IInv, Shapes, Places, Handling, Stopping, Settling, Opening,
     Listening, GoesTo
<1>13. OwnTurn'
  BY <1>1, <1>3, Numbers DEF IInv, Shapes, Custody, OwnTurn, Busy, Playing, Handling,
     Stopping, Settling, Opening, Listening, GoesTo
<1>14. OwnAck'
  BY <1>1, <1>3, Numbers DEF IInv, Shapes, Custody, OwnTurn, OwnAck, Ours, Busy, Handling,
     Stopping, Settling, Opening, Listening, GoesTo
<1>15. Acked'
  BY <1>1, <1>3, Numbers DEF IInv, Shapes, Custody, OwnTurn, OwnAck, Acked, Heard, Busy,
     Playing, Handling, GoesTo
<1>. QED
  BY <1>1, <1>2, <1>3, <1>11, <1>12, <1>13, <1>14, <1>15 DEF IInv

(* A segment is reported to the record, by either of the two.               *)
LEMMA AnnounceEffect ==
    ASSUME RecordInv, NEW meta \in Metas, Announce(meta)
    PROVE  RecordInv' /\ Quiet
<1>1. /\ TextTo(FormOf(meta.whole), meta.seg) \in Texts
      /\ DurationAfter[meta.seg] \in Durations
  <2>1. meta.seg \in 0 .. Segments /\ meta.whole \in BOOLEAN
    BY DEF Metas
  <2>2. DurationAfter[meta.seg] \in Durations
    BY <2>1, AckAssumption
  <2>. QED
    BY <2>1, <2>2, TextToType
<1>2. Ignored => RecordInv' /\ Quiet
  BY IgnoredInv DEF Ignored, recordVars, Quiet
<1>. QED
  BY <1>1, <1>2, UpdateEffect DEF Announce

(* and reported.                                                            *)
LEMMA AckAnnounceStep ==
    ASSUME IInv, AckAnnounce
    PROVE  IInv'
<1>1. /\ loop.pc = "update" /\ loop' \in Loops /\ GoesTo("fact")
      /\ UNCHANGED <<output, ack, out, broken, acked, speaking, cur>>
  BY LoopShapes DEF IInv, Shapes, AckAnnounce, LoopPCs
<1>2. Shapes'
  BY <1>1 DEF IInv, Shapes, AckAnnounce
<1>3. RecordInv' /\ Quiet
  <2>1. loop.meta \in Metas
    BY DEF IInv, Shapes, Loops
  <2>. QED
    BY <2>1, AnnounceEffect DEF IInv, AckAnnounce
<1>11. Custody'
  BY <1>1, <1>3, Numbers DEF IInv, Shapes, Custody, Busy, Handling, Stopping, Settling,
     Opening, Listening, GoesTo, Quiet
<1>12. Places'
  BY <1>1, <1>3, Numbers DEF IInv, Shapes, Places, Handling, Stopping, Settling, Opening,
     Listening, GoesTo, Quiet
<1>13. OwnTurn'
  BY <1>1, <1>3, Numbers DEF IInv, Shapes, Custody, OwnTurn, Busy, Playing, Handling,
     Stopping, Settling, Opening, Listening, GoesTo, Quiet
<1>14. OwnAck'
  BY <1>1, <1>3, Numbers DEF IInv, Shapes, Custody, OwnTurn, OwnAck, Ours, Busy, Handling,
     Stopping, Settling, Opening, Listening, GoesTo, Quiet
<1>15. Acked'
  BY <1>1, <1>3, Numbers DEF IInv, Shapes, Custody, OwnTurn, OwnAck, Acked, Heard, Busy,
     Playing, Handling, GoesTo, Quiet
<1>. QED
  BY <1>1, <1>2, <1>3, <1>11, <1>12, <1>13, <1>14, <1>15 DEF IInv

(* What a mark amounts to is a duration and a text.                         *)
LEMMA MarkTypes ==
    ASSUME Shapes, NEW k \in 0 .. Segments, NEW ms \in Nat
    PROVE  MarkTotal(k, ms) \in Nat /\ MarkHeard(k, ms) \in TextRecs
<1>. DEFINE b == SegmentBefore(k)
            f == FormOf(ack.meta.whole)
            after == TextAfter[f]
            t0 == after[b]
            t1 == after[k]
            d0 == DurationAfter[b]
            d1 == DurationAfter[k]
            n == MarkTotal(k, ms) - d0
<1>1. Segments \in Nat /\ k \in Nat
  BY AckAssumption
<1>0. f \in Forms
  BY DEF FormOf, Forms
<1>. HIDE DEF f
<1>2. /\ t0 \in Nat /\ t1 \in Nat /\ t0 <= t1
      /\ d0 \in Nat /\ d1 \in Nat /\ d0 <= d1
  <2>1. \A i \in 0 .. Segments : after[i] \in Nat /\ DurationAfter[i] \in Nat
    <3>1. \A i \in 0 .. Segments : DurationAfter[i] \in Nat
      BY AckAssumption, RecordAssumption
    <3>2. after \in [0 .. Segments -> Nat]
      BY <1>0, AckAssumption
    <3>. QED
      BY <3>1, <3>2
  <2>2. after[0] = 0 /\ DurationAfter[0] = 0
    BY <1>0, AckAssumption
  <2>3. CASE b = 0
    BY <1>1, <2>1, <2>2, <2>3
  <2>4. CASE b # 0
    <3>1. b = k - 1 /\ k \in 1 .. Segments /\ b \in 0 .. Segments
      BY <1>1, <2>4 DEF SegmentBefore
    <3>2. after[k - 1] < after[k] /\ DurationAfter[k - 1] < DurationAfter[k]
      BY <1>0, <3>1, AckAssumption
    <3>. QED
      BY <2>1, <3>1, <3>2
  <2>. QED
    BY <2>3, <2>4
<1>3. MarkTotal(k, ms) = d0 + (IF d1 - d0 > 0 /\ ms > d1 - d0 THEN d1 - d0 ELSE ms)
  BY DEF MarkTotal
<1>. DEFINE r == t0 + HeardRunes(t1 - t0, n, d1 - d0, segmentRuneMs)
            text == [form |-> f, runes |-> r]
<1>4. MarkHeard(k, ms) = Trimmed(text)
  BY DEF MarkHeard, f
<1>. HIDE DEF b, t0, t1, d0, d1, after
<1>5. MarkTotal(k, ms) \in Nat /\ n \in Nat /\ t1 - t0 \in Nat /\ d1 - d0 \in Nat
  BY <1>2, <1>3
<1>6. HeardRunes(t1 - t0, n, d1 - d0, segmentRuneMs) \in 0 .. (t1 - t0)
  <2>1. segmentRuneMs \in Nat \ {0}
    BY DEF segmentRuneMs
  <2>. HIDE DEF n
  <2>. QED
    BY <1>5, <2>1, HeardRunesPrefix
<1>. HIDE DEF n
<1>7. r \in Nat
  BY <1>2, <1>5, <1>6
<1>. HIDE DEF r
<1>8. text \in TextRecs
  BY <1>0, <1>7 DEF TextRecs
<1>. HIDE DEF text
<1>. QED
  BY <1>4, <1>5, <1>8, TrimmedPrefix

(* The terminal ack, and who is woken by it.                                *)
LEMMA FinishTypes ==
    ASSUME Shapes, NEW terminal \in {"cleared", "completed"}, FinishAck(terminal)
    PROVE  /\ ack' \in AckStates /\ ack'.meta = ack.meta /\ OutStays
           /\ ack'.terminal = ack.terminal \/ ack'.terminal = terminal
<1>1. ack \in AckStates /\ out \in [Turns -> OutRecs] /\ NoMeta \in Metas /\ 0 \in 0 .. Segments
  BY AckAssumption DEF Shapes, NoMeta, Metas
<1>2. out' = out => OutStays
  BY <1>1 DEF OutStays
<1>3. CASE ack.terminal # "none"
  BY <1>1, <1>2, <1>3 DEF FinishAck
<1>4. CASE ack.terminal = "none"
  <2>1. ack' = [ack EXCEPT !.terminal = terminal]
    BY <1>4 DEF FinishAck
  <2>2. ack' \in AckStates /\ ack'.meta = ack.meta /\ ack'.terminal = terminal
    BY <1>1, <2>1 DEF AckStates
  <2>3. OutStays
    <3>1. CASE ack.waits = NoTurn
      BY <1>2, <1>4, <3>1 DEF FinishAck
    <3>2. CASE ack.waits # NoTurn
      <4>1. ack.waits \in Turns
        BY <1>1, <3>2 DEF AckStates
      <4>2. out' = [out EXCEPT ![ack.waits].woken = TRUE]
        BY <1>4, <3>2 DEF FinishAck
      <4>3. PICK w \in Turns : w = ack.waits
        BY <4>1
      <4>4. out' = [out EXCEPT ![w].woken = TRUE]
        BY <4>2, <4>3
      <4>5. "none" \in OutPCs
        BY DEF OutPCs
      <4>. QED
        BY <1>1, <4>4, <4>5, OutShapes
    <3>. QED
      BY <3>1, <3>2
  <2>. QED
    BY <2>2, <2>3
<1>. QED
  BY <1>3, <1>4

\* A completed ack that was taken stays taken.
StillAcked == \A q \in Turns : acked[q].completed => acked'[q].completed

(* The history of the acks.                                                 *)
LEMMA AckedTypes ==
    ASSUME Shapes, NEW p \in Turns, NEW k \in 0 .. Segments
    PROVE  /\ acked' = acked => StillAcked
           /\ acked' = [acked EXCEPT ![p].cleared = k]
                => /\ acked' \in [Turns -> [completed : BOOLEAN, cleared : 0 .. Segments]]
                   /\ StillAcked
           /\ acked' = [acked EXCEPT ![p].completed = TRUE]
                => /\ acked' \in [Turns -> [completed : BOOLEAN, cleared : 0 .. Segments]]
                   /\ StillAcked /\ acked'[p].completed
<1>. DEFINE A == [completed : BOOLEAN, cleared : 0 .. Segments]
            r == acked[p]
<1>1. acked \in [Turns -> A] /\ r \in A
  BY DEF Shapes
<1>. HIDE DEF r
<1>2. [r EXCEPT !.cleared = k] \in A /\ [r EXCEPT !.cleared = k].completed = r.completed
  BY <1>1
<1>3. [r EXCEPT !.completed = TRUE] \in A /\ [r EXCEPT !.completed = TRUE].completed = TRUE
  BY <1>1
<1>4. ASSUME NEW u \in A, acked' = [acked EXCEPT ![p] = u], r.completed => u.completed
      PROVE  acked' \in [Turns -> A] /\ StillAcked /\ acked'[p] = u
  BY <1>1, <1>4 DEF StillAcked, r
<1>5. ASSUME acked' = [acked EXCEPT ![p].cleared = k]
      PROVE  acked' \in [Turns -> A] /\ StillAcked
  <2>1. acked' = [acked EXCEPT ![p] = [r EXCEPT !.cleared = k]]
    BY <1>5 DEF r
  <2>. QED
    BY <1>2, <1>4, <2>1
<1>6. ASSUME acked' = [acked EXCEPT ![p].completed = TRUE]
      PROVE  acked' \in [Turns -> A] /\ StillAcked /\ acked'[p].completed
  <2>1. acked' = [acked EXCEPT ![p] = [r EXCEPT !.completed = TRUE]]
    BY <1>6 DEF r
  <2>. QED
    BY <1>3, <1>4, <2>1
<1>. QED
  BY <1>5, <1>6 DEF StillAcked

(* The fact reaches the ack state; a completed ack is of the turn there is. *)
LEMMA RecordFactStep ==
    ASSUME IInv, RecordFact
    PROVE  IInv'
<1>. DEFINE k == SegmentFor(loop.seg)
            p == loop.meta.playback
<1>0. /\ Shapes /\ loop \in Loops /\ loop.pc = "fact" /\ p \in Turns /\ k \in 0 .. Segments
      /\ loop.ms \in Nat /\ (out' = out => OutStays)
  <2>1. loop \in Loops /\ loop.pc = "fact" /\ Shapes
    BY DEF IInv, Shapes, RecordFact
  <2>2. p \in Turns
    BY <2>1 DEF IInv, OwnAck, Handling
  <2>3. ack.meta.seg \in 0 .. Segments
    BY DEF IInv, Shapes, AckStates, Metas
  <2>4. k \in 0 .. Segments
    BY <2>1, <2>3 DEF SegmentFor, Loops
  <2>5. loop.ms \in Nat
    <3>1. Marks \subseteq Nat
      BY AckAssumption
    <3>2. loop.ms \in Marks \cup {0}
      BY <2>1 DEF Loops
    <3>3. 0 \in Nat
      OBVIOUS
    <3>. QED
      BY <3>1, <3>2, <3>3, Zenon
  <2>6. out' = out => OutStays
    BY DEF IInv, Shapes, OutStays
  <2>. QED
    BY <2>1, <2>2, <2>4, <2>5, <2>6
<1>. HIDE DEF k, p
<1>1. /\ loop' \in Loops /\ GoesTo("observe") /\ OutStays
      /\ ack' \in AckStates /\ ack'.meta = ack.meta
      /\ ack'.terminal = "completed" => ack.terminal = "completed" \/ loop.kind = "completed"
      /\ acked' \in [Turns -> [completed : BOOLEAN, cleared : 0 .. Segments]]
      /\ StillAcked /\ (loop.kind = "completed" => acked'[p].completed)
      /\ UNCHANGED <<recordVars, output, broken, speaking, cur>>
  <2>1. UNCHANGED <<recordVars, output, broken, speaking, cur>>
    BY DEF RecordFact
  <2>2. ASSUME loop' = Goto("observe") PROVE loop' \in Loops /\ GoesTo("observe")
    BY <1>0, <2>2, LoopShapes DEF LoopPCs
  <2>3. ASSUME NEW n \in Nat, NEW h \in TextRecs,
               loop' = [loop EXCEPT !.pc = "observe", !.total = n, !.heard = h]
        PROVE  loop' \in Loops /\ GoesTo("observe")
    BY <1>0, <2>3 DEF Loops, LoopPCs, GoesTo
  <2>4. ack \in AckStates /\ acked \in [Turns -> [completed : BOOLEAN, cleared : 0 .. Segments]]
    BY <1>0 DEF Shapes
  <2>5. CASE loop.kind \in {"started", "mark"} /\ UNCHANGED <<ack, out, acked>>
             /\ loop' \in Loops /\ GoesTo("observe")
    BY <1>0, <2>1, <2>4, <2>5, AckedTypes DEF OutStays
  <2>6. ASSUME loop.kind = "cleared", FinishAck("cleared"), loop' \in Loops, GoesTo("observe"),
               acked' = acked \/ acked' = [acked EXCEPT ![p].cleared = k]
        PROVE  /\ OutStays /\ ack' \in AckStates /\ ack'.meta = ack.meta
               /\ ack'.terminal = "completed" => ack.terminal = "completed"
               /\ acked' \in [Turns -> [completed : BOOLEAN, cleared : 0 .. Segments]]
               /\ StillAcked
    BY <1>0, <2>4, <2>6, AckedTypes, FinishTypes
  <2>7. ASSUME loop.kind = "completed", FinishAck("completed"),
               acked' = [acked EXCEPT ![p].completed = TRUE]
        PROVE  /\ OutStays /\ ack' \in AckStates /\ ack'.meta = ack.meta
               /\ acked' \in [Turns -> [completed : BOOLEAN, cleared : 0 .. Segments]]
               /\ StillAcked /\ acked'[p].completed
    BY <1>0, <2>7, AckedTypes, FinishTypes
  <2>8. MarkTotal(k, loop.ms) \in Nat /\ MarkHeard(k, loop.ms) \in TextRecs
    BY <1>0, MarkTypes
  <2>9. DurationAfter[k] \in Nat /\ TextTo(FormOf(ack.meta.whole), k) \in TextRecs
    <3>1. DurationAfter[k] \in Nat
      BY <1>0, AckAssumption, RecordAssumption
    <3>2. FormOf(ack.meta.whole) \in Forms
      BY DEF FormOf, Forms
    <3>. QED
      BY <1>0, <3>1, <3>2, TextToType, GivenText
  <2>10. \/ /\ loop.kind \in {"started", "mark"} /\ UNCHANGED <<ack, out, acked>>
            /\ loop' \in Loops /\ GoesTo("observe")
         \/ /\ loop.kind = "cleared" /\ FinishAck("cleared")
            /\ loop' \in Loops /\ GoesTo("observe")
            /\ acked' = acked \/ acked' = [acked EXCEPT ![p].cleared = k]
         \/ /\ loop.kind = "completed" /\ FinishAck("completed")
            /\ loop' \in Loops /\ GoesTo("observe")
            /\ acked' = [acked EXCEPT ![p].completed = TRUE]
    <3>1. CASE loop.kind = "started"
      BY <3>1, <2>2 DEF RecordFact
    <3>2. CASE loop.kind = "mark"
      BY <3>2, <2>3, <2>8 DEF RecordFact, k
    <3>3. CASE loop.kind = "cleared"
      BY <3>3, <2>3, <2>9 DEF RecordFact, k, p
    <3>4. CASE loop.kind = "completed"
      BY <3>4, <2>2 DEF RecordFact, p
    <3>. QED
      BY <3>1, <3>2, <3>3, <3>4 DEF RecordFact
  <2>. QED
    BY <2>1, <2>5, <2>6, <2>7, <2>10
<1>2. Shapes'
  BY <1>1 DEF IInv, Shapes, RecordFact, OutStays
<1>3. RecordInv' /\ turn' = turn /\ outcome' = outcome
  BY <1>1, IgnoredInv DEF IInv, recordVars
<1>4. loop'.meta.playback = p /\ loop.meta.playback = p
  BY <1>1 DEF GoesTo, p
<1>11. Custody'
  BY <1>0, <1>1, <1>3, <1>4, Numbers DEF IInv, Shapes, Custody, Busy, Handling, Stopping,
     Settling, Opening, Listening, GoesTo, OutStays, StillAcked
<1>12. Places'
  BY <1>0, <1>1, <1>3, <1>4, Numbers DEF IInv, Shapes, Places, Handling, Stopping, Settling,
     Opening, Listening, GoesTo, OutStays, StillAcked
<1>13. OwnTurn'
  BY <1>0, <1>1, <1>3, <1>4, Numbers DEF IInv, Shapes, Custody, OwnTurn, Busy, Playing,
     Handling, Stopping, Settling, Opening, Listening, GoesTo, OutStays, StillAcked
<1>14. OwnAck'
  BY <1>0, <1>1, <1>3, <1>4, Numbers DEF IInv, Shapes, Custody, OwnTurn, OwnAck, Ours, Busy,
     Handling, Stopping, Settling, Opening, Listening, GoesTo, OutStays, StillAcked
<1>15. Acked'
  <2>1. \A q \in Turns : Heard(q) => Heard(q)'
    BY <1>0, <1>1, <1>3, <1>4 DEF Heard, GoesTo, OutStays, StillAcked
  <2>2. \A q \in Turns :
           Playing(q)' /\ (ack'.terminal = "completed" \/ out'[q].verdict = "completed")
             => Heard(q)'
    <3>. SUFFICES ASSUME NEW q \in Turns, Playing(q)',
                         ack'.terminal = "completed" \/ out'[q].verdict = "completed"
                  PROVE  Heard(q)'
      OBVIOUS
    <3>1. Playing(q) /\ out'[q].verdict = out[q].verdict
      BY <1>0, <1>1, <1>3, <1>4 DEF Playing, Busy, GoesTo, OutStays, StillAcked
    <3>2. turn.id = q /\ turn.id # NoTurn
      BY <3>1, Numbers DEF IInv, OwnTurn
    <3>3. loop.meta.playback = q
      BY <1>0, <1>1, <1>3, <1>4, <3>2 DEF IInv, OwnTurn, OwnAck, Handling
    <3>. QED
      BY <1>0, <1>1, <1>3, <1>4, <2>1, <3>1, <3>3 DEF IInv, Acked, Heard
  <2>3. loop'.pc = "observe" /\ loop'.kind = "completed" => Heard(loop.meta.playback)'
    BY <1>0, <1>1, <1>3, <1>4, <2>1 DEF IInv, Acked, Heard, GoesTo, OutStays, StillAcked
  <2>4. Said(turn)' => Heard(turn.id)'
    BY <1>0, <1>1, <1>3, <1>4, <2>1 DEF IInv, Acked, Heard, GoesTo, OutStays, StillAcked
  <2>5. outcome'.facts.source = Completed => Heard(outcome.turn)'
    BY <1>0, <1>1, <1>3, <1>4, <2>1 DEF IInv, Acked, Heard, GoesTo, OutStays, StillAcked
  <2>. QED
    BY <2>2, <2>3, <2>4, <2>5 DEF Acked
<1>. QED
  BY <1>1, <1>2, <1>3, <1>11, <1>12, <1>13, <1>14, <1>15 DEF IInv

(* The fact reaches the record, which holds the same turn still, or none.   *)
LEMMA ObserveFactStep ==
    ASSUME IInv, ObserveFact
    PROVE  IInv'
<1>1. /\ loop.pc = "observe" /\ loop' \in Loops
      /\ \/ Leaves("interrupt", "loop")
         \/ Leaves("loop", "loop")
      /\ UNCHANGED <<output, ack, out, broken, acked, speaking, cur>>
  BY LoopShapes DEF IInv, Shapes, ObserveFact, LoopPCs
<1>2. Shapes'
  BY <1>1 DEF IInv, Shapes, ObserveFact
<1>3. /\ RecordInv' /\ turn'.id = turn.id /\ turn'.active = turn.active /\ outcome' = outcome
      /\ \/ Said(turn') => Said(turn)
         \/ loop.kind = "completed" /\ turn.id # NoTurn
  <2>1. ASSUME Ignored PROVE RecordInv' /\ Quiet
    BY <2>1, IgnoredInv DEF IInv, Ignored, recordVars, Quiet
  <2>2. loop.total \in Nat /\ loop.heard \in TextRecs
    BY DEF IInv, Shapes, Loops
  <2>3. CASE loop.kind = "started"
    BY <2>3, StartedEffect DEF IInv, ObserveFact, Quiet
  <2>4. CASE loop.kind \in {"mark", "cleared"}
    BY <2>1, <2>2, <2>4, MarkEffect DEF IInv, ObserveFact, Quiet
  <2>5. CASE loop.kind = "completed"
    BY <2>5, CompletedFactEffect DEF IInv, ObserveFact
  <2>. QED
    BY <2>3, <2>4, <2>5 DEF ObserveFact
<1>11. Custody'
  BY <1>1, <1>3, Numbers DEF IInv, Shapes, Custody, Busy, Handling, Stopping, Settling,
     Opening, Listening, Leaves
<1>12. Places'
  BY <1>1, <1>3, Numbers DEF IInv, Shapes, Places, Handling, Stopping, Settling, Opening,
     Listening, Leaves
<1>13. OwnTurn'
  BY <1>1, <1>3, Numbers DEF IInv, Shapes, Custody, OwnTurn, Busy, Playing, Handling,
     Stopping, Settling, Opening, Listening, Leaves
<1>14. OwnAck'
  BY <1>1, <1>3, Numbers DEF IInv, Shapes, Custody, OwnTurn, OwnAck, Ours, Busy, Handling,
     Stopping, Settling, Opening, Listening, Leaves
<1>15. Acked'
  BY <1>1, <1>3, Numbers DEF IInv, Shapes, Custody, OwnTurn, OwnAck, Acked, Heard, Busy,
     Playing, Handling, Leaves
<1>. QED
  BY <1>1, <1>2, <1>3, <1>11, <1>12, <1>13, <1>14, <1>15 DEF IInv

-----------------------------------------------------------------------------
(* The start of a playback *)

(* A turn that may start its audio does, and its goroutine is the only one  *)
(* that is busy.                                                            *)
LEMMA StartAudioStep ==
    ASSUME IInv, Opening, NEW text \in Texts, NEW planned \in Durations, NEW whole \in BOOLEAN,
           StartAudio(text, planned, whole), loop' \in Loops,
           \/ loop'.pc = "loop" /\ loop'.cont = "loop"
           \/ loop'.pc = "respond" /\ loop'.early = TRUE,
           UNCHANGED <<ackOn, cur, settled, broken, acked>>
    PROVE  IInv'
<1>0. turn.id = cur /\ cur \in Turns /\ Live /\ (\A q \in Turns : ~ Busy(q))
  BY Numbers DEF IInv, Places, OwnTurn, Custody, Live, Opening, Listening, Handling, Settling
<1>. DEFINE r == [NoOut EXCEPT !.pc = "next", !.whole = whole]
<1>4. /\ NoOut \in OutRecs /\ NoOut.cancelled = FALSE /\ NoOut.verdict = "none"
      /\ NoMeta \in Metas
  BY AckAssumption DEF NoOut, OutRecs, OutPCs, NoMeta, Metas
<1>5. r \in OutRecs /\ r.pc = "next" /\ r.cancelled = FALSE /\ r.verdict = "none"
  <2>. HIDE DEF NoOut
  <2>. QED
    BY <1>4 DEF OutRecs, OutPCs
<1>6. [NoMeta EXCEPT !.playback = cur] \in Metas /\ [NoMeta EXCEPT !.playback = cur].playback = cur
  <2>. HIDE DEF NoMeta
  <2>. QED
    BY <1>0, <1>4 DEF Metas
<1>. DEFINE m == [NoMeta EXCEPT !.playback = cur]
<1>7. ack' = [meta |-> m, terminal |-> "none", waits |-> cur] /\ out' = [out EXCEPT ![cur] = r]
  BY DEF StartAudio
<1>. HIDE DEF m, r
<1>8. /\ ack' \in AckStates /\ ack'.meta.playback = cur /\ ack'.terminal = "none"
  BY <1>0, <1>6, <1>7 DEF AckStates, m
<1>9. /\ out' \in [Turns -> OutRecs] /\ out'[cur] = r
      /\ \A q \in Turns : q # cur => out'[q] = out[q]
  BY <1>0, <1>5, <1>7 DEF IInv, Shapes
<1>1. /\ speaking' = TRUE /\ output' = cur
      /\ UNCHANGED <<cur, broken, acked>>
  BY DEF StartAudio
<1>2. Shapes'
  BY <1>0, <1>1, <1>8, <1>9 DEF IInv, Shapes
<1>3. /\ RecordInv' /\ outcome' = outcome /\ turn'.id = cur /\ turn'.active = TRUE
      /\ ~ Said(turn')
  <2>1. ackOn \in BOOLEAN
    BY DEF IInv, Shapes
  <2>. QED
    BY <1>0, <2>1, StartEffect DEF IInv, StartAudio
<1>11. Custody'
  BY <1>0, <1>1, <1>3, <1>5, <1>8, <1>9, Numbers DEF IInv, Shapes, Custody, Busy, Handling,
     Stopping, Settling, Opening, Listening
<1>12. Places'
  BY <1>0, <1>1, <1>3, <1>5, <1>8, <1>9, Numbers DEF IInv, Shapes, Places, Handling,
     Stopping, Settling, Opening, Listening
<1>13. OwnTurn'
  BY <1>0, <1>1, <1>3, <1>5, <1>8, <1>9, Numbers DEF IInv, Shapes, Custody, OwnTurn, Busy,
     Playing, Handling, Stopping, Settling, Opening, Listening
<1>14. OwnAck'
  BY <1>0, <1>1, <1>3, <1>5, <1>8, <1>9, Numbers DEF IInv, Shapes, Custody, OwnTurn, OwnAck,
     Ours, Busy, Handling, Stopping, Settling, Opening, Listening
<1>15. Acked'
  BY <1>0, <1>1, <1>3, <1>5, <1>8, <1>9, Numbers DEF IInv, Shapes, Custody, OwnTurn, OwnAck,
     Acked, Heard, Busy, Playing, Handling
<1>. QED
  BY <1>1, <1>2, <1>3, <1>11, <1>12, <1>13, <1>14, <1>15 DEF IInv

(* Audio before the response has settled,                                   *)
LEMMA StartEarlyStep ==
    ASSUME IInv, StartEarly
    PROVE  IInv'
<1>1. PICK k \in 1 .. Segments : StartAudio(Collected(loop.collected), DurationAfter[k], FALSE)
  BY DEF StartEarly
<1>2. Collected(loop.collected) \in Texts /\ DurationAfter[k] \in Durations
  <2>1. loop.collected \in 0 .. Segments
    BY DEF IInv, Shapes, Loops
  <2>2. DurationAfter[k] \in Durations
    BY AckAssumption
  <2>. QED
    BY <2>1, <2>2, TextToType
<1>3. loop' \in Loops /\ loop'.pc = "respond" /\ loop'.early = TRUE
  BY DEF IInv, Shapes, Loops, StartEarly
<1>4. Opening
  BY DEF StartEarly, Opening
<1>5. UNCHANGED <<ackOn, cur, settled, broken, acked>>
  BY DEF StartEarly
<1>. QED
  BY <1>1, <1>2, <1>3, <1>4, <1>5, StartAudioStep

(* or with it.                                                              *)
LEMMA FinalizeAudioStep ==
    ASSUME IInv, FinalizeAudio
    PROVE  IInv'
<1>1. PICK whole \in BOOLEAN : StartAudio(Answer, DurationAfter[Segments], whole)
  BY DEF FinalizeAudio
<1>2. Answer \in Texts /\ DurationAfter[Segments] \in Durations
  BY AckAssumption, AnswerType
<1>3. loop' \in Loops /\ loop'.pc = "loop" /\ loop'.cont = "loop"
  BY LoopShapes DEF IInv, FinalizeAudio, LoopPCs, Leaves
<1>4. Opening
  BY DEF FinalizeAudio, Opening
<1>5. UNCHANGED <<ackOn, cur, settled, broken, acked>>
  BY DEF FinalizeAudio
<1>. QED
  BY <1>1, <1>2, <1>3, <1>4, <1>5, StartAudioStep

-----------------------------------------------------------------------------
(* The output goroutine *)

(* What there is to name in a step of a goroutine.                          *)
LEMMA OutFound ==
    ASSUME IInv
    PROVE  /\ Shapes /\ RecordInv /\ NoMeta \in Metas /\ 0 \in 0 .. Segments
           /\ ack \in AckStates /\ ack.meta \in Metas
           /\ ack.terminal \in {"none", "cleared", "completed"}
           /\ out \in [Turns -> OutRecs]
<1>1. NoMeta \in Metas /\ 0 \in 0 .. Segments
  BY AckAssumption DEF NoMeta, Metas
<1>. QED
  BY <1>1 DEF IInv, Shapes, AckStates

(* Only one goroutine is busy at a time.                                    *)
LEMMA OneBusy ==
    ASSUME IInv, NEW p \in Turns, NEW q \in Turns, Busy(p), Busy(q)
    PROVE  p = q
  BY DEF IInv, Custody

(* A goroutine that plays on: it moves within its loop, announces a segment *)
(* of its own playback or learns the terminal ack, and the record is told   *)
(* at most what was heard.                                                  *)
LEMMA PlaysOn ==
    ASSUME IInv, NEW p \in Turns, NEW pc, OutMoves(p, pc), Playing(p),
           pc \in {"next", "sync", "update", "play", "check", "ack", "select", "verdict"},
           out'[p].verdict = out[p].verdict \/ out'[p].verdict = ack.terminal,
           Shapes', RecordInv', Quiet,
           ack'.terminal = ack.terminal,
           ack'.meta.playback = p \/ ack'.meta.playback = ack.meta.playback,
           UNCHANGED <<output, loop, broken, acked, speaking, cur>>
    PROVE  IInv'
<1>1. \A q \in Turns : Busy(q)' <=> Busy(q)
  BY DEF OutMoves, Playing, Busy
<1>2. \A q \in Turns : Playing(q)' <=> Playing(q)
  BY <1>1 DEF OutMoves, Playing
<1>3. \A q \in Turns : out'[q].cancelled = out[q].cancelled
  BY DEF OutMoves
<1>4. Custody'
  BY <1>1, <1>3 DEF IInv, Custody, Listening, Handling, Settling
<1>5. Places'
  BY DEF IInv, Places, Stopping, Settling, Opening
<1>6. OwnTurn'
  BY <1>2 DEF IInv, OwnTurn, Opening, Quiet
<1>7. cur = p
  BY DEF IInv, Custody, Playing
<1>8. OwnAck'
  BY <1>7 DEF IInv, OwnAck, Ours, Settling, Handling, Stopping, Quiet
<1>9. Acked'
  <2>1. \A q \in Turns : Heard(q)' <=> Heard(q)
    BY DEF Heard
  <2>2. ASSUME NEW q \in Turns, Playing(q)',
               ack'.terminal = "completed" \/ out'[q].verdict = "completed"
        PROVE  Heard(q)'
    <3>1. Playing(q)
      BY <1>2, <2>2
    <3>2. q = p
      BY <3>1, OneBusy DEF Playing
    <3>. QED
      BY <2>1, <2>2, <3>1, <3>2 DEF IInv, Acked
  <2>. QED
    BY <2>2 DEF IInv, Acked, Heard, Quiet
<1>. QED
  BY <1>4, <1>5, <1>6, <1>8, <1>9 DEF IInv

(* A goroutine that stops playing without a word: the read loop waits for   *)
(* it and will record the end, or the connection is broken.                 *)
LEMMA StopsShort ==
    ASSUME IInv, NEW p \in Turns, OutMoves(p, "tidy"), Busy(p),
           loop.pc = "wait" \/ broken', Shapes', UNCHANGED recordVars,
           broken => broken',
           UNCHANGED <<output, ack, loop, acked, speaking, cur>>
    PROVE  IInv'
<1>0. RecordInv' /\ turn' = turn /\ outcome' = outcome
  BY IgnoredInv DEF IInv, recordVars
<1>1. \A q \in Turns : ~ Busy(q)'
  BY OneBusy DEF OutMoves, Busy
<1>2. Custody'
  BY <1>1 DEF Custody
<1>3. Places'
  BY DEF IInv, Places, Stopping, Settling, Opening
<1>4. OwnTurn'
  BY <1>0, <1>1 DEF IInv, OwnTurn, Opening, Playing
<1>5. OwnAck'
  BY <1>0 DEF IInv, OwnAck, Ours, Settling, Handling, Stopping
<1>6. Acked'
  BY <1>0, <1>1 DEF IInv, Acked, Heard, Playing
<1>. QED
  BY <1>0, <1>2, <1>3, <1>4, <1>5, <1>6 DEF IInv

(* The next segment is announced in the ack state.                          *)
LEMMA NextSegmentStep ==
    ASSUME IInv, NEW p \in Turns, NextSegment(p)
    PROVE  IInv'
<1>1. /\ Playing(p)
      /\ ack' \in AckStates /\ ack'.terminal = ack.terminal
      /\ ack'.meta.playback = p \/ ack' = ack
      /\ OutMoves(p, "check") \/ OutMoves(p, "sync")
      /\ out'[p].verdict = out[p].verdict
      /\ UNCHANGED <<recordVars, output, loop, broken, acked, speaking, cur>>
  <2>1. Playing(p)
    BY DEF NextSegment, At, Playing, Busy
  <2>2. out[p] \in OutRecs /\ Segments \in Nat
    BY OutFound, AckAssumption
  <2>3. out[p].seg \in 0 .. Segments /\ out[p].whole \in BOOLEAN
    BY <2>2 DEF OutRecs
  <2>4. CASE out[p].seg = Segments
    BY <2>1, <2>4, OutFound, OutShapes DEF NextSegment, OutPCs
  <2>5. CASE out[p].seg # Segments
    <3>. DEFINE k == IF out[p].whole THEN Segments ELSE out[p].seg + 1
                m == [playback |-> p, seg |-> k, whole |-> out[p].whole]
    <3>1. k \in 0 .. Segments
      BY <2>2, <2>3, <2>5
    <3>2. m \in Metas /\ m.playback = p
      BY <2>3, <3>1 DEF Metas
    <3>3. out' = [out EXCEPT ![p].pc = "sync", ![p].seg = k] /\ ack' = [ack EXCEPT !.meta = m]
      BY <2>5 DEF NextSegment
    <3>. HIDE DEF k, m
    <3>4. ack' \in AckStates /\ ack'.terminal = ack.terminal /\ ack'.meta = m
      BY <3>2, <3>3, OutFound DEF AckStates
    <3>5. OutMoves(p, "sync") /\ out'[p].verdict = out[p].verdict
      BY <3>1, <3>3, OutFound, OutShapes DEF OutPCs
    <3>. QED
      BY <2>1, <3>2, <3>4, <3>5 DEF NextSegment
  <2>. QED
    BY <2>4, <2>5
<1>2. Shapes'
  BY <1>1 DEF IInv, Shapes, OutMoves, NextSegment
<1>3. RecordInv' /\ Quiet
  BY <1>1, OutFound, IgnoredInv DEF recordVars, Quiet
<1>. QED
  BY <1>1, <1>2, <1>3, PlaysOn

(* It reads the newest segment,                                             *)
LEMMA OutReadMetaStep ==
    ASSUME IInv, NEW p \in Turns, OutReadMeta(p)
    PROVE  IInv'
<1>1. /\ Playing(p) /\ OutMoves(p, "update")
      /\ out'[p].verdict = out[p].verdict
      /\ UNCHANGED <<recordVars, output, ack, loop, broken, acked, speaking, cur>>
  BY OutFound, OutShapes DEF OutReadMeta, At, OutPCs, Playing, Busy
<1>2. Shapes'
  BY <1>1 DEF IInv, Shapes, OutMoves, OutReadMeta
<1>3. RecordInv' /\ Quiet
  BY <1>1, OutFound, IgnoredInv DEF recordVars, Quiet
<1>. QED
  BY <1>1, <1>2, <1>3, PlaysOn

(* and reports it.                                                          *)
LEMMA OutAnnounceStep ==
    ASSUME IInv, NEW p \in Turns, OutAnnounce(p)
    PROVE  IInv'
<1>1. /\ Playing(p) /\ OutMoves(p, "play")
      /\ out'[p].verdict = out[p].verdict
      /\ UNCHANGED <<output, ack, loop, broken, acked, speaking, cur>>
  BY OutFound, OutShapes DEF OutAnnounce, At, OutPCs, Playing, Busy
<1>2. Shapes'
  BY <1>1 DEF IInv, Shapes, OutMoves, OutAnnounce
<1>3. RecordInv' /\ Quiet
  <2>1. out[p].meta \in Metas
    BY OutFound DEF OutRecs
  <2>. QED
    BY <2>1, OutFound, AnnounceEffect DEF OutAnnounce
<1>. QED
  BY <1>1, <1>2, <1>3, PlaysOn

(* A chunk is written.                                                      *)
LEMMA PlayChunkStep ==
    ASSUME IInv, NEW p \in Turns, PlayChunk(p)
    PROVE  IInv'
<1>1. /\ Playing(p) /\ out[p].pc = "play"
      /\ UNCHANGED <<output, ack, loop, out, broken, acked, speaking, cur>>
  BY DEF PlayChunk, playVars, At, Playing, Busy
<1>2. Shapes'
  BY <1>1 DEF IInv, Shapes, PlayChunk, playVars
<1>3. RecordInv' /\ Quiet
  BY OutFound, ChunkEffect DEF PlayChunk
<1>4. OutMoves(p, "play")
  BY <1>1, OutFound DEF OutMoves
<1>. QED
  BY <1>1, <1>2, <1>3, <1>4, PlaysOn

(* A segment is played.                                                     *)
LEMMA SegmentPlayedStep ==
    ASSUME IInv, NEW p \in Turns, SegmentPlayed(p)
    PROVE  IInv'
<1>1. /\ Playing(p) /\ OutMoves(p, "next")
      /\ out'[p].verdict = out[p].verdict
      /\ UNCHANGED <<recordVars, output, ack, loop, broken, acked, speaking, cur>>
  BY OutFound, OutShapes DEF SegmentPlayed, At, OutPCs, Playing, Busy
<1>2. Shapes'
  BY <1>1 DEF IInv, Shapes, OutMoves, SegmentPlayed
<1>3. RecordInv' /\ Quiet
  BY <1>1, OutFound, IgnoredInv DEF recordVars, Quiet
<1>. QED
  BY <1>1, <1>2, <1>3, PlaysOn

(* All is written.                                                          *)
LEMMA CheckSpeakingStep ==
    ASSUME IInv, NEW p \in Turns, CheckSpeaking(p)
    PROVE  IInv'
<1>1. /\ Playing(p) /\ (OutMoves(p, "ack") \/ OutMoves(p, "verdict"))
      /\ out'[p].verdict = out[p].verdict
      /\ UNCHANGED <<recordVars, output, ack, loop, broken, acked, speaking, cur>>
  <2>1. speaking
    BY DEF IInv, Custody, CheckSpeaking, At, Busy
  <2>2. OutGoto(p, "ack") \/ OutGoto(p, "verdict")
    BY <2>1 DEF CheckSpeaking
  <2>. QED
    BY <2>2, OutFound, OutShapes DEF CheckSpeaking, At, OutPCs, Playing, Busy
<1>2. Shapes'
  BY <1>1 DEF IInv, Shapes, OutMoves, CheckSpeaking
<1>3. RecordInv' /\ Quiet
  BY <1>1, OutFound, IgnoredInv DEF recordVars, Quiet
<1>. QED
  BY <1>1, <1>2, <1>3, PlaysOn

(* The terminal ack has come already,                                       *)
LEMMA WaitTerminalStep ==
    ASSUME IInv, NEW p \in Turns, WaitTerminal(p)
    PROVE  IInv'
<1>1. /\ Playing(p) /\ (OutMoves(p, "select") \/ OutMoves(p, "verdict"))
      /\ out'[p].verdict = ack.terminal
      /\ UNCHANGED <<recordVars, output, ack, loop, broken, acked, speaking, cur>>
  <2>1. PICK pc \in {"select", "verdict"} :
           out' = [out EXCEPT ![p].pc = pc, ![p].verdict = ack.terminal]
    BY DEF WaitTerminal
  <2>2. pc \in OutPCs
    BY DEF OutPCs
  <2>3. OutMoves(p, pc) /\ out'[p].verdict = ack.terminal
    BY <2>1, <2>2, OutFound, OutShapes
  <2>. QED
    BY <2>3 DEF WaitTerminal, At, Playing, Busy
<1>2. Shapes'
  BY <1>1 DEF IInv, Shapes, OutMoves, WaitTerminal
<1>3. RecordInv' /\ Quiet
  BY <1>1, OutFound, IgnoredInv DEF recordVars, Quiet
<1>. QED
  BY <1>1, <1>2, <1>3, PlaysOn

(* or comes while the goroutine waits for it,                               *)
LEMMA SelectTerminalStep ==
    ASSUME IInv, NEW p \in Turns, SelectTerminal(p)
    PROVE  IInv'
<1>1. /\ Playing(p) /\ OutMoves(p, "verdict")
      /\ out'[p].verdict = ack.terminal
      /\ UNCHANGED <<recordVars, output, ack, loop, broken, acked, speaking, cur>>
  BY OutFound, OutShapes DEF SelectTerminal, At, OutPCs, Playing, Busy
<1>2. Shapes'
  BY <1>1 DEF IInv, Shapes, OutMoves, SelectTerminal
<1>3. RecordInv' /\ Quiet
  BY <1>1, OutFound, IgnoredInv DEF recordVars, Quiet
<1>. QED
  BY <1>1, <1>2, <1>3, PlaysOn

(* or does not come.                                                        *)
LEMMA AckTimeoutStep ==
    ASSUME IInv, NEW p \in Turns, AckTimeout(p)
    PROVE  IInv'
<1>1. /\ Playing(p) /\ OutMoves(p, "verdict")
      /\ out'[p].verdict = out[p].verdict
      /\ UNCHANGED <<recordVars, output, ack, loop, broken, acked, speaking, cur>>
  BY OutFound, OutShapes DEF AckTimeout, At, OutPCs, Playing, Busy
<1>2. Shapes'
  BY <1>1 DEF IInv, Shapes, OutMoves, AckTimeout
<1>3. RecordInv' /\ Quiet
  BY <1>1, OutFound, IgnoredInv DEF recordVars, Quiet
<1>. QED
  BY <1>1, <1>2, <1>3, PlaysOn

(* Cancelled, it returns without a word: the read loop records the end.     *)
LEMMA OutCancelledStep ==
    ASSUME IInv, NEW p \in Turns, OutCancelled(p)
    PROVE  IInv'
<1>1. /\ Busy(p) /\ OutMoves(p, "tidy")
      /\ UNCHANGED <<recordVars, output, ack, loop, broken, acked, speaking, cur>>
  BY OutFound, OutShapes DEF OutCancelled, OutPCs, Busy
<1>2. Shapes'
  BY <1>1 DEF IInv, Shapes, OutMoves, OutCancelled
<1>3. loop.pc = "wait"
  BY <1>1 DEF IInv, Custody, OutCancelled
<1>. QED
  BY <1>1, <1>2, <1>3, StopsShort

(* A write fails: the connection is broken.                                 *)
LEMMA WriteFailsStep ==
    ASSUME IInv, NEW p \in Turns, WriteFails(p)
    PROVE  IInv'
<1>1. /\ Busy(p) /\ OutMoves(p, "tidy") /\ broken' = TRUE
      /\ UNCHANGED <<recordVars, output, ack, loop, acked, speaking, cur>>
  BY OutFound, OutShapes DEF WriteFails, OutPCs, Busy
<1>2. Shapes'
  BY <1>1 DEF IInv, Shapes, OutMoves, WriteFails
<1>. QED
  BY <1>1, <1>2, StopsShort

(* A goroutine that records how its playback ended settles its own turn.    *)
LEMMA Settles ==
    ASSUME IInv, NEW p \in Turns, NEW pc \in {"tidy", "await"}, NEW source,
           Playing(p), OutMoves(p, pc), Shapes', RecordInv', Ended(source),
           source = Completed => Heard(p),
           pc = "await" => speaking' = speaking,
           UNCHANGED <<output, ack, loop, broken, acked, cur>>
    PROVE  IInv'
<1>0. /\ turn'.id = NoTurn /\ turn'.active = FALSE /\ ~ Said(turn') /\ turn.id = p
      /\ outcome'.turn = p /\ (outcome'.facts.source = Completed => Heard(p))
  <2>1. /\ turn'.id = NoTurn /\ turn'.active = FALSE /\ ~ Said(turn')
    BY DEF Ended, FreshTurn, NoSnapshot, Said, Completed
  <2>2. turn.id = p
    BY DEF IInv, OwnTurn
  <2>. QED
    BY <2>1, <2>2 DEF Ended, IInv, Acked
<1>1. \A q \in Turns : Busy(q)' => q = p /\ pc = "await" /\ Busy(p)
  BY OneBusy DEF OutMoves, Busy, Playing
<1>2. \A q \in Turns : ~ Playing(q)'
  BY <1>1 DEF Playing, OutMoves
<1>3. Custody'
  BY <1>1 DEF IInv, Custody, Listening, Handling, Settling, OutMoves
<1>4. ~ Opening
  <2>1. Listening
    BY DEF IInv, Custody, Playing
  <2>. QED
    BY <2>1 DEF Listening, Opening, Handling, Settling
<1>5. Places'
  BY DEF IInv, Places, Stopping, Settling, Opening
<1>6. OwnTurn'
  BY <1>0, <1>2, <1>4 DEF OwnTurn, Opening
<1>7. OwnAck'
  BY <1>0 DEF IInv, OwnAck, Ours, Settling, Handling, Stopping
<1>8. Acked'
  BY <1>0, <1>2 DEF IInv, Acked, Heard
<1>. QED
  BY <1>3, <1>5, <1>6, <1>7, <1>8 DEF IInv

(* Synthesis fails.                                                         *)
LEMMA StreamFailsStep ==
    ASSUME IInv, NEW p \in Turns, StreamFails(p)
    PROVE  IInv'
<1>1. /\ Playing(p) /\ OutMoves(p, "tidy")
      /\ UNCHANGED <<output, ack, loop, broken, acked, cur>>
  BY OutFound, OutShapes DEF StreamFails, At, OutPCs, Playing, Busy
<1>2. Shapes'
  BY <1>1 DEF IInv, Shapes, OutMoves, StreamFails
<1>3. RecordInv' /\ Ended("unknown")
  <2>1. speaking /\ turn.active
    BY <1>1 DEF IInv, Custody, OwnTurn, Playing
  <2>. QED
    BY <2>1, OutFound, InterruptEffect DEF StreamFails, Policies
<1>. QED
  BY <1>1, <1>2, <1>3, Settles DEF Completed

(* The verdict is recorded.                                                 *)
LEMMA RecordVerdictStep ==
    ASSUME IInv, NEW p \in Turns, RecordVerdict(p)
    PROVE  IInv'
<1>1. /\ Playing(p) /\ OutMoves(p, "await")
      /\ UNCHANGED <<output, ack, loop, broken, acked, cur, speaking>>
  BY OutFound, OutShapes DEF RecordVerdict, At, OutPCs, Playing, Busy
<1>2. Shapes'
  BY <1>1 DEF IInv, Shapes, OutMoves, RecordVerdict
<1>3. turn.active /\ Live
  BY <1>1, Numbers DEF IInv, OwnTurn, Live
<1>4. CASE out[p].verdict = "completed"
  <2>1. RecordInv' /\ Ended(Completed)
    BY <1>3, <1>4, OutFound, CompleteEffect DEF RecordVerdict, Completed, Sources
  <2>2. Heard(p)
    BY <1>1, <1>4 DEF IInv, Acked
  <2>. QED
    BY <1>1, <1>2, <2>1, <2>2, Settles
<1>5. CASE out[p].verdict = "cleared"
  <2>1. RecordInv' /\ Ended("unknown")
    BY <1>3, <1>5, OutFound, InterruptEffect DEF RecordVerdict, Policies
  <2>. QED
    BY <1>1, <1>2, <2>1, Settles DEF Completed
<1>6. CASE out[p].verdict = "none"
  <2>1. RecordInv' /\ Ended("heuristic_bytes")
    BY <1>3, <1>6, OutFound, CompleteEffect DEF RecordVerdict, Sources
  <2>. QED
    BY <1>1, <1>2, <2>1, Settles DEF Completed
<1>. QED
  BY <1>4, <1>5, <1>6 DEF RecordVerdict

(* The goroutine returns: the record is settled by then.                    *)
LEMMA ReturnSteps ==
    ASSUME IInv, NEW p \in Turns, AwaitOutcome(p) \/ ReturnActive(p)
    PROVE  IInv'
<1>1. /\ Busy(p) /\ ~ Playing(p)
      /\ \/ OutMoves(p, "return") /\ speaking' = speaking
         \/ OutMoves(p, "tidy") /\ speaking' = FALSE
      /\ UNCHANGED <<recordVars, output, ack, loop, broken, acked, cur>>
  BY OutFound, OutShapes DEF AwaitOutcome, ReturnActive, At, OutPCs, Playing, Busy
<1>2. Shapes'
  BY <1>1 DEF IInv, Shapes, OutMoves, AwaitOutcome, ReturnActive
<1>3. RecordInv' /\ turn' = turn /\ outcome' = outcome
  BY <1>1, OutFound, IgnoredInv DEF recordVars
<1>4. \A q \in Turns : Busy(q)' => q = p /\ speaking' = speaking
  BY <1>1, OneBusy DEF OutMoves, Busy
<1>5. \A q \in Turns : ~ Playing(q) /\ ~ Playing(q)'
  <2>1. \A q \in Turns : ~ Playing(q)
    BY <1>1, OneBusy DEF Playing
  <2>2. out'[p].pc \in {"return", "tidy"}
    BY <1>1 DEF OutMoves
  <2>. QED
    BY <1>4, <2>1, <2>2 DEF Playing, Busy
<1>6. Custody'
  BY <1>1, <1>4 DEF IInv, Custody, Listening, Handling, Settling, OutMoves
<1>7. Places'
  BY <1>1 DEF IInv, Places, Stopping, Settling, Opening
<1>8. OwnTurn'
  BY <1>1, <1>3, <1>5 DEF IInv, OwnTurn, Opening
<1>9. OwnAck'
  BY <1>1, <1>3 DEF IInv, OwnAck, Ours, Settling, Handling, Stopping
<1>10. Acked'
  BY <1>1, <1>3, <1>5 DEF IInv, Acked, Heard
<1>. QED
  BY <1>2, <1>3, <1>6, <1>7, <1>8, <1>9, <1>10 DEF IInv

(* The deferred calls leave what is not theirs: an ack state cleared under  *)
(* a later playback only loses acks.                                        *)
LEMMA DeferredSteps ==
    ASSUME IInv, NEW p \in Turns, ClearAck(p) \/ ClearOutput(p)
    PROVE  IInv'
<1>0. /\ NoAck \in AckStates /\ NoAck.meta.playback = NoTurn /\ NoAck.terminal = "none"
  BY AckAssumption DEF NoAck, AckStates, NoMeta, Metas
<1>1. /\ ~ Busy(p) /\ out' \in [Turns -> OutRecs] /\ out'[p].pc \in {"exit", "done"}
      /\ \A q \in Turns : q # p => out'[q] = out[q]
      /\ ack' = ack \/ ack' = NoAck
      /\ output' = output \/ (output = p /\ output' = NoTurn)
      /\ UNCHANGED <<recordVars, loop, broken, acked, cur, speaking>>
  <2>1. CASE ClearAck(p)
    BY <2>1, OutFound, OutShapes DEF ClearAck, At, OutPCs, Busy, OutMoves
  <2>2. CASE ClearOutput(p)
    <3>. DEFINE r == [NoOut EXCEPT !.pc = "done"]
    <3>1. NoOut \in OutRecs
      BY AckAssumption DEF NoOut, OutRecs, OutPCs, NoMeta, Metas
    <3>2. r \in OutRecs /\ r.pc = "done"
      <4>. HIDE DEF NoOut
      <4>. QED
        BY <3>1 DEF OutRecs, OutPCs
    <3>3. out' = [out EXCEPT ![p] = r]
      BY <2>2 DEF ClearOutput
    <3>. HIDE DEF r
    <3>4. out' \in [Turns -> OutRecs] /\ out'[p] = r /\ (\A q \in Turns : q # p => out'[q] = out[q])
      BY <3>2, <3>3, OutFound
    <3>. QED
      BY <2>2, <3>2, <3>4 DEF ClearOutput, At, Busy
  <2>. QED
    BY <2>1, <2>2
<1>. HIDE DEF NoAck
<1>2. Shapes'
  BY <1>0, <1>1 DEF IInv, Shapes, ClearAck, ClearOutput
<1>3. RecordInv' /\ turn' = turn /\ outcome' = outcome
  BY <1>1, OutFound, IgnoredInv DEF recordVars
<1>4. \A q \in Turns : Busy(q)' <=> Busy(q)
  BY <1>1 DEF Busy
<1>5. \A q \in Turns : Busy(q) => q # p /\ out'[q] = out[q]
  BY <1>1
<1>6. \A q \in Turns : Playing(q)' <=> Playing(q)
  BY <1>4, <1>5 DEF Playing
<1>7. Custody'
  BY <1>1, <1>4, <1>5 DEF IInv, Custody, Listening, Handling, Settling
<1>8. Places'
  BY <1>1 DEF IInv, Places, Stopping, Settling, Opening
<1>9. OwnTurn'
  BY <1>1, <1>3, <1>6 DEF IInv, OwnTurn, Opening
<1>10. OwnAck'
  BY <1>0, <1>1, <1>3 DEF IInv, OwnAck, Ours, Settling, Handling, Stopping
<1>11. Acked'
  <2>1. \A q \in Turns : Playing(q) => out'[q] = out[q]
    BY <1>5 DEF Playing
  <2>. QED
    BY <1>0, <1>1, <1>3, <1>6, <2>1 DEF IInv, Acked, Heard
<1>. QED
  BY <1>2, <1>3, <1>7, <1>8, <1>9, <1>10, <1>11 DEF IInv

-----------------------------------------------------------------------------
(* The theorems *)

(* Initially nobody plays.                                                  *)
LEMMA AckInit == Init => IInv
<1>. SUFFICES ASSUME Init PROVE IInv
  OBVIOUS
<1>1. RecordInv /\ turn = FreshTurn(NoTurn) /\ outcome = NoOutcome
  BY RecordInitInv DEF Init, RecordInit
<1>2. /\ NoAck \in AckStates /\ AtLoop \in Loops /\ NoOut \in OutRecs
      /\ AtLoop.pc = "loop" /\ NoOut.pc = "none" /\ NoAck.meta.playback = NoTurn
  <2>1. NoAck \in AckStates /\ NoOut \in OutRecs
    BY AckAssumption DEF NoAck, AckStates, NoMeta, Metas, NoOut, OutRecs, OutPCs
  <2>. QED
    BY <2>1, AtLoopType DEF NoAck, NoMeta, AtLoop, NoOut
<1>3. Shapes
  <2>1. [completed |-> FALSE, cleared |-> 0] \in [completed : BOOLEAN, cleared : 0 .. Segments]
    BY AckAssumption
  <2>. QED
    BY <1>2, <2>1 DEF Init, Shapes
<1>4. \A p \in Turns : ~ Busy(p)
  BY <1>2 DEF Init, Busy
<1>5. turn.id = NoTurn /\ turn.active = FALSE /\ ~ Said(turn) /\ outcome.facts.source = "unknown"
  BY <1>1 DEF FreshTurn, NoOutcome, NoFacts, NoSnapshot, Said, Completed
<1>6. loop.pc = "loop"
  BY <1>2 DEF Init
<1>. QED
  BY <1>1, <1>3, <1>4, <1>5, <1>6
     DEF IInv, Custody, Places, OwnTurn, OwnAck, Acked, Playing, Handling, Stopping, Settling,
         Opening, Completed

(* Each step of the read loop and of a goroutine keeps the invariant.       *)
LEMMA AckNext == IInv /\ [Next]_vars => IInv'
<1>. SUFFICES ASSUME IInv, [Next]_vars PROVE IInv'
  OBVIOUS
<1>1. CASE ReadLoop
  BY <1>1, NextTurnStep, BeginTurnStep, CollectDeltaStep, StartEarlyStep, SettleResponseStep,
     SettleEarlyStep, FinalizeTextStep, FinalizeAudioStep, ResponseFailsStep, AskInterruptStep,
     DuckOutputStep, CancelOutputStep, AwaitOutputStep, RecordInterruptStep, BecomeIdleStep,
     TakeAckStep, AckReadMetaStep, AckAnnounceStep, RecordFactStep, ObserveFactStep
     DEF ReadLoop
<1>2. ASSUME NEW p \in Turns, Output(p) PROVE IInv'
  BY <1>2, OutCancelledStep, NextSegmentStep, OutReadMetaStep, OutAnnounceStep, PlayChunkStep,
     SegmentPlayedStep, StreamFailsStep, WriteFailsStep, CheckSpeakingStep, WaitTerminalStep,
     SelectTerminalStep, AckTimeoutStep, RecordVerdictStep, ReturnSteps, DeferredSteps
     DEF Output
<1>3. CASE UNCHANGED vars
  <2>1. UNCHANGED recordVars /\ UNCHANGED playVars
    BY <1>3 DEF vars
  <2>2. RecordInv' /\ turn' = turn /\ outcome' = outcome
    BY <2>1, IgnoredInv DEF IInv, recordVars
  <2>3. Shapes'
    BY <2>1 DEF IInv, Shapes, playVars
  <2>4. Custody' /\ Places' /\ OwnTurn' /\ OwnAck' /\ Acked'
    BY <2>1, <2>2 DEF IInv, playVars, Custody, Places, OwnTurn, OwnAck, Acked, Busy, Playing,
                      Handling, Stopping, Settling, Opening, Listening, Ours, Heard
  <2>. QED
    BY <2>2, <2>3, <2>4 DEF IInv
<1>. QED
  BY <1>1, <1>2, <1>3 DEF Next

(* The inductive invariant of playbacks and acks, for any number of turns   *)
(* and segments and whatever acks the client sends.                         *)
THEOREM AckInvariant == Spec => []IInv
  BY AckInit, AckNext, PTL DEF Spec

(* The types of the ack state, of the read loop and of the goroutines; a    *)
(* mark never amounts to a negative duration or length                      *)
(* (recordPlaybackMark).                                                    *)
THEOREM AckTypeOK == Spec => []TypeOK
<1>1. IInv => TypeOK
  BY DEF IInv, Shapes, RecordInv, TypeOK
<1>. QED
  BY <1>1, AckInvariant, PTL

(* That an answer was heard to its end on the client's word is recorded     *)
(* only of a playback that the client said it of: neither a late ack, nor a *)
(* snapshot of a soft barge-in, nor the ack state of an earlier playback    *)
(* carries it over (validatePlaybackAckIdentity,                            *)
(* captureSoftRecoverySnapshotLocked).                                      *)
THEOREM AckCompleted == Spec => []CompletedIsAcked
<1>1. IInv => CompletedIsAcked
  BY DEF IInv, Acked, Heard, Said, Completed, CompletedIsAcked
<1>. QED
  BY <1>1, AckInvariant, PTL

(* A goroutine settles the turn it has played, although CompletePlayback    *)
(* names no turn: the record holds no other one while it plays              *)
(* (startAudioStream).                                                      *)
THEOREM AckSettlesOwn == Spec => []SettlesOwnTurn
<1>1. IInv => SettlesOwnTurn
  BY DEF IInv, OwnTurn, Playing, Busy, SettlesOwnTurn
<1>. QED
  BY <1>1, AckInvariant, PTL

(* Once a goroutine is gone and the read loop is back at its channel, the   *)
(* end of the playback is recorded, unless the connection is broken         *)
(* (startAudioStream, interruptOutputWithPolicy).                           *)
THEOREM AckEnded == Spec => []EndedIsRecorded
<1>1. IInv => EndedIsRecorded
  BY DEF IInv, OwnTurn, Playing, Busy, EndedIsRecorded
<1>. QED
  BY <1>1, AckInvariant, PTL

(* The outcome and the memory tell the truth under the calls of the gateway *)
(* too, marks of any duration among them (voice_collaboration.go).          *)
THEOREM AckOutcome == Spec => [](OutcomeTruth /\ MemoryFollowsOutcome)
<1>1. IInv => OutcomeTruth /\ MemoryFollowsOutcome
  BY DEF IInv, RecordInv
<1>. QED
  BY <1>1, AckInvariant, PTL

(* Of the steps of the read loop, only a text answer and an interruption    *)
(* end a turn.                                                              *)
LEMMA LoopGoesOn ==
    ASSUME IInv, ReadLoop, turn.active, turn'.id = NoTurn
    PROVE  RecordInterrupt
<1>1. RecordInv /\ turn.id # NoTurn
  BY Found DEF IInv
<1>2. ~ UNCHANGED recordVars
  BY <1>1 DEF recordVars
<1>3. CASE BeginTurn \/ SettleResponse
  <2>1. turn'.id \in {cur, cur + 1}
    BY <1>3 DEF BeginTurn, SettleResponse, PrepareTurn, FreshTurn
  <2>2. cur \in Nat /\ (SettleResponse => cur \in Turns)
    BY Numbers DEF IInv, Shapes, Places, Settling, Opening, SettleResponse
  <2>3. BeginTurn => turn'.id = cur + 1
    BY DEF BeginTurn, PrepareTurn, FreshTurn
  <2>4. SettleResponse => turn'.id = cur
    BY DEF SettleResponse, PrepareTurn, FreshTurn
  <2>. QED
    BY <1>3, <2>2, <2>3, <2>4, Numbers
<1>4. CASE StartEarly \/ FinalizeAudio
  <2>1. Live
    BY <1>1 DEF Live
  <2>2. turn'.id = turn.id
    BY <1>4, <2>1 DEF StartEarly, FinalizeAudio, StartAudio, StartPlaybackWithOptions, FreshTurn
  <2>. QED
    BY <1>1, <2>2
<1>5. CASE CollectDelta \/ SettleEarly
  <2>1. 0 \in Durations /\ Answer \in Texts /\ Segments \in Nat
    BY AnswerType
  <2>2. CollectDelta => Collected(loop.collected + 1) \in Texts
    <3>1. CollectDelta => loop.collected + 1 \in 0 .. Segments
      BY <2>1 DEF IInv, Shapes, Loops, CollectDelta
    <3>. QED
      BY <3>1, TextToType
  <2>3. Quiet
    BY <1>1, <1>2, <1>5, <2>1, <2>2, UpdateEffect DEF CollectDelta, SettleEarly, Ignored
  <2>. QED
    BY <1>1, <2>3 DEF Quiet
<1>6. CASE DuckOutput
  <2>1. SoftPolicies \subseteq Policies
    BY AckAssumption DEF Policies
  <2>2. Quiet
    BY <1>1, <1>6, <2>1, PolicyEffect DEF DuckOutput
  <2>. QED
    BY <1>1, <2>2 DEF Quiet
<1>7. CASE AckAnnounce
  <2>1. loop.meta \in Metas
    BY DEF IInv, Shapes, Loops
  <2>. QED
    BY <1>1, <1>7, <2>1, AnnounceEffect DEF AckAnnounce, Quiet
<1>8. CASE ObserveFact
  <2>1. loop.total \in Nat /\ loop.heard \in TextRecs
    BY DEF IInv, Shapes, Loops
  <2>2. turn'.id = turn.id
    BY <1>1, <1>2, <1>8, <2>1, StartedEffect, MarkEffect, CompletedFactEffect
       DEF ObserveFact, Ignored, Quiet
  <2>. QED
    BY <1>1, <2>2
<1>9. CASE FinalizeText
  BY <1>9 DEF IInv, OwnTurn, Opening, FinalizeText
<1>. QED
  BY <1>2, <1>3, <1>4, <1>5, <1>6, <1>7, <1>8, <1>9
     DEF ReadLoop, NextTurn, ResponseFails, AskInterrupt, CancelOutput, AwaitOutput, BecomeIdle,
         TakeAck, AckReadMeta, RecordFact

(* Of the steps of a goroutine, its failure and its verdict.                *)
LEMMA OutGoesOn ==
    ASSUME IInv, NEW p \in Turns, Output(p), turn.active, turn'.id = NoTurn
    PROVE  StreamFails(p) \/ RecordVerdict(p)
<1>1. RecordInv /\ turn.id # NoTurn
  BY Found DEF IInv
<1>2. ~ UNCHANGED recordVars
  BY <1>1 DEF recordVars
<1>3. CASE OutAnnounce(p)
  <2>1. out[p].meta \in Metas
    BY OutFound DEF OutRecs
  <2>. QED
    BY <1>1, <1>3, <2>1, AnnounceEffect DEF OutAnnounce, Quiet
<1>4. CASE PlayChunk(p)
  BY <1>1, <1>4, ChunkEffect DEF PlayChunk, Quiet
<1>. QED
  BY <1>2, <1>3, <1>4
     DEF Output, OutCancelled, NextSegment, OutReadMeta, SegmentPlayed, WriteFails, CheckSpeaking,
         WaitTerminal, SelectTerminal, AckTimeout, AwaitOutcome, ReturnActive, ClearAck,
         ClearOutput

(* An answer was ducked, its text still begins with what had been heard     *)
(* then, and two runes or more follow: when it completes it is not recorded *)
(* as heard to its end.  The gateway finalises a text only for a turn that  *)
(* has no playback, and every other completion is limited to what the       *)
(* snapshot says (applySoftRecoveryOutcomeLocked).  The announced text may  *)
(* begin otherwise, and then nothing limits it: see CompletedIsNoProof.     *)
THEOREM AckDucked == Spec => DuckedTailIsMissed
<1>. DEFINE Tail == /\ turn.active /\ turn'.id = NoTurn
                    /\ turn.soft.policy = "duck_only"
                    /\ MissedRunes(turn.delivered, turn.soft.heard) >= 2
                    /\ outcome'.facts.completed
            Missed == outcome'.facts.heard.runes < outcome'.facts.delivered.runes
<1>1. ASSUME IInv, [Next]_vars PROVE [Tail => Missed]_recordVars
  <2>. SUFFICES ASSUME Next, Tail PROVE Missed
    BY <1>1 DEF vars
  <2>1. RecordInv /\ Live /\ "hard_interrupt" \in Policies
    BY <1>1, Found DEF IInv, Live, Policies
  <2>2. ~ InterruptPlaybackWithPolicy("hard_interrupt")
    BY <2>1, InterruptEffect
  <2>3. ~ Ignored
    BY <2>1 DEF Ignored, recordVars, Live
  <2>4. ~ ReadLoop
    BY <1>1, <2>2, LoopGoesOn DEF RecordInterrupt
  <2>5. PICK p \in Turns : Output(p)
    BY <2>4 DEF Next
  <2>6. StreamFails(p) \/ RecordVerdict(p)
    BY <1>1, <2>5, OutGoesOn
  <2>7. PICK source \in Sources : CompletePlaybackWithSource(source)
    BY <2>2, <2>3, <2>6 DEF StreamFails, RecordVerdict, Sources
  <2>8. Ducked(turn)
    BY DEF Ducked
  <2>. QED
    BY <2>1, <2>7, <2>8, CompleteEffect
<1>. QED
  BY <1>1, AckInvariant, PTL DEF Spec, DuckedTailIsMissed
=============================================================================
