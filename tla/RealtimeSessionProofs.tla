------------------------- MODULE RealtimeSessionProofs -------------------------
(***************************************************************************)
(* The session core's invariants, for every set of identifiers and         *)
(* payloads and any number of frames and turns.                            *)
(*                                                                         *)
(* Each method is one critical section, so the argument is one case per    *)
(* method.  None of the invariants is inductive alone: what a snapshot     *)
(* shows depends on the agreement of flag and identifier, which Start has  *)
(* from the emptiness of an inactive session.  IInv takes them together.   *)
(***************************************************************************)
EXTENDS RealtimeSession, SequenceTheorems, TLAPS

\* The cached state is the derived one.
StateDerived ==
    session.state = deriveCompatState(session.input, session.output, session.active)

IInv ==
    /\ TypeOK
    /\ StateDerived
    /\ session.active <=> session.id # NoID
    /\ NothingSurvivesReset
    /\ BytesCountAudio

-----------------------------------------------------------------------------
(* Facts about the turn's audio, a sequence of frames *)

(* The empty buffer is a buffer without frames.                             *)
LEMMA EmptyBuffer == <<>> \in Seq(Frames) /\ Len(<<>>) = 0
BY EmptySeq

(* A frame that is ingested lengthens the buffer by one.                    *)
LEMMA BufferAppend ==
    ASSUME NEW chunks \in Seq(Frames), NEW frame \in Frames
    PROVE  /\ Append(chunks, frame) \in Seq(Frames)
           /\ Len(Append(chunks, frame)) = Len(chunks) + 1
BY AppendProperties

(* What a commit hands over adds up with what was handed over before.       *)
LEMMA BufferConcat ==
    ASSUME NEW s \in Seq(Frames), NEW t \in Seq(Frames)
    PROVE  /\ s \o t \in Seq(Frames)
           /\ Len(s \o t) = Len(s) + Len(t)
           /\ Len(s) \in Nat /\ Len(t) \in Nat
BY ConcatProperties, LenProperties

(* An idle session is a session.                                            *)
LEMMA IdleIsSession == idleSnapshot \in Sessions
BY EmptyBuffer DEF idleSnapshot, Sessions, CompatStates, InputStates, OutputStates,
                   CloseReasons

(* A session whose fields are replaced by values of their types is one.     *)
LEMMA FieldsReplaced ==
    ASSUME NEW s \in Sessions, NEW in \in InputStates, NEW out \in OutputStates,
           NEW st \in CompatStates, NEW f \in Nat, NEW b \in Nat, NEW t \in Nat,
           NEW c \in Seq(Frames)
    PROVE  [s EXCEPT !.input = in, !.output = out, !.frames = f, !.bytes = b,
                     !.turns = t, !.chunks = c, !.state = st] \in Sessions
BY DEF Sessions

(* An empty buffer holds no bytes.                                          *)
LEMMA EmptiedCounts ==
    ASSUME session'.bytes = 0, session'.chunks = <<>>, handed' = <<>>
    PROVE  BytesCountAudio'
<1>1. Len(session'.chunks) = 0 /\ Len(handed') = 0
  BY EmptyBuffer
<1>. QED
  BY <1>1 DEF BytesCountAudio

-----------------------------------------------------------------------------
(* Every method preserves the invariant *)

(* Start, which needs that the inactive session it begins from is empty.    *)
LEMMA StartPreserves ==
    ASSUME IInv, NEW id \in SessionIDs, Start(id)
    PROVE  IInv'
<1>. USE IDAssumption DEF IInv, TypeOK, Start, StartOp, WithState, deriveCompatState
<1>1. TypeOK'
  <2>1. CASE session.active
    BY <2>1
  <2>2. CASE ~session.active
    BY <2>2, IdleIsSession, EmptyBuffer DEF Sessions, CompatStates, InputStates,
                                        OutputStates, CloseReasons, idleSnapshot
  <2>. QED
    BY <2>1, <2>2
<1>2. StateDerived'
  BY DEF Sessions, CompatStates, InputStates, OutputStates, CloseReasons,
         StateDerived, idleSnapshot
<1>3. (session.active <=> session.id # NoID)'
  BY DEF Sessions, CompatStates, InputStates, OutputStates, CloseReasons, idleSnapshot
<1>4. NothingSurvivesReset'
  BY DEF Sessions, CompatStates, InputStates, OutputStates, CloseReasons,
         NothingSurvivesReset, idleSnapshot
<1>5. BytesCountAudio'
  <2>1. CASE session.active
    BY <2>1 DEF BytesCountAudio
  <2>2. CASE ~session.active
    <3>1. session'.bytes = 0 /\ session'.chunks = <<>> /\ handed' = <<>>
      BY <2>2 DEF idleSnapshot
    <3>. QED
      BY <3>1, EmptiedCounts
  <2>. QED
    BY <2>1, <2>2 DEF Sessions, CompatStates, InputStates, OutputStates, CloseReasons
<1>. QED
  BY <1>1, <1>2, <1>3, <1>4, <1>5 DEF IInv

(* IngestAudioFrame: bytes and chunks grow together, or neither does.       *)
LEMMA IngestPreserves ==
    ASSUME IInv, NEW payload \in Frames \cup {NoBytes}, IngestOwnedAudioFrame(payload)
    PROVE  IInv'
<1>. USE IDAssumption DEF IInv, TypeOK, IngestOwnedAudioFrame, IngestOp, WithState,
                          deriveCompatState
<1>1. TypeOK'
  <2>1. CASE ~session.active
    BY <2>1
  <2>2. CASE session.active
    <3>. DEFINE bytes  == IF payload = NoBytes THEN session.bytes ELSE session.bytes + 1
                chunks == IF payload = NoBytes THEN session.chunks
                                               ELSE Append(session.chunks, payload)
                state  == IF session.output = "idle" THEN "active" ELSE session.output
    <3>1. bytes \in Nat
      BY DEF Sessions
    <3>2. chunks \in Seq(Frames)
      <4>1. CASE payload = NoBytes
        BY <4>1 DEF Sessions
      <4>2. CASE payload # NoBytes
        BY <4>2, BufferAppend DEF Sessions
      <4>. QED
        BY <4>1, <4>2
    <3>3. state \in CompatStates /\ session.output \in OutputStates
      BY DEF Sessions, CompatStates, InputStates, OutputStates, CloseReasons
    <3>4. session' = [session EXCEPT !.input = "active", !.output = session.output,
                                     !.frames = session.frames + 1, !.bytes = bytes,
                                     !.turns = session.turns, !.chunks = chunks,
                                     !.state = state]
      BY <2>2 DEF Sessions
    <3>5. /\ session \in Sessions /\ "active" \in InputStates
          /\ session.frames + 1 \in Nat /\ session.turns \in Nat
      BY DEF Sessions, InputStates
    <3>6. session' \in Sessions
      <4>. HIDE DEF bytes, chunks, state
      <4>. QED
        BY ONLY <3>1, <3>2, <3>3, <3>4, <3>5, FieldsReplaced
    <3>. QED
      BY <3>6
  <2>. QED
    BY <2>1, <2>2 DEF Sessions
<1>2. StateDerived'
  BY DEF Sessions, CompatStates, InputStates, OutputStates, CloseReasons,
         StateDerived, idleSnapshot
<1>3. (session.active <=> session.id # NoID)'
  BY DEF Sessions, CompatStates, InputStates, OutputStates, CloseReasons, idleSnapshot
<1>4. NothingSurvivesReset'
  BY DEF Sessions, CompatStates, InputStates, OutputStates, CloseReasons,
         NothingSurvivesReset, idleSnapshot
<1>5. BytesCountAudio'
  <2>1. CASE payload = NoBytes \/ ~session.active
    BY <2>1 DEF Sessions, CompatStates, InputStates, OutputStates, CloseReasons,
                BytesCountAudio
  <2>2. CASE payload # NoBytes /\ session.active
    <3>1. Len(Append(session.chunks, payload)) = Len(session.chunks) + 1
      BY <2>2, BufferAppend DEF Sessions
    <3>2. Len(handed) \in Nat /\ Len(session.chunks) \in Nat
      BY BufferConcat DEF Sessions
    <3>3. /\ session'.bytes = session.bytes + 1
          /\ session'.chunks = Append(session.chunks, payload)
          /\ handed' = handed
      BY <2>2 DEF Sessions
    <3>. QED
      BY <3>1, <3>2, <3>3 DEF BytesCountAudio, Sessions
  <2>. QED
    BY <2>1, <2>2
<1>. QED
  BY <1>1, <1>2, <1>3, <1>4, <1>5 DEF IInv

(* AcceptText touches the input lane alone.                                 *)
LEMMA AcceptTextPreserves ==
    ASSUME IInv, AcceptText
    PROVE  IInv'
<1>. USE IDAssumption DEF IInv, TypeOK, AcceptText, AcceptTextOp, WithState,
                          deriveCompatState
<1>1. TypeOK'
  BY DEF Sessions, CompatStates, InputStates, OutputStates, CloseReasons
<1>2. StateDerived'
  BY DEF Sessions, CompatStates, InputStates, OutputStates, CloseReasons,
         StateDerived, idleSnapshot
<1>3. (session.active <=> session.id # NoID)'
  BY DEF Sessions, CompatStates, InputStates, OutputStates, CloseReasons, idleSnapshot
<1>4. NothingSurvivesReset'
  BY DEF Sessions, CompatStates, InputStates, OutputStates, CloseReasons,
         NothingSurvivesReset, idleSnapshot
<1>5. BytesCountAudio'
  BY DEF Sessions, CompatStates, InputStates, OutputStates, CloseReasons,
         BytesCountAudio
<1>. QED
  BY <1>1, <1>2, <1>3, <1>4, <1>5 DEF IInv

(* CommitTurn moves the chunks to what has been handed over.                *)
LEMMA CommitTurnPreserves ==
    ASSUME IInv, CommitTurn
    PROVE  IInv'
<1>. USE IDAssumption DEF IInv, TypeOK, CommitTurn, CommitTurnOp, CommittedAudio,
                          WithState, deriveCompatState
<1>1. TypeOK'
  <2>1. handed' \in Seq(Frames)
    BY EmptyBuffer, BufferConcat DEF Sessions
  <2>2. session' \in Sessions
    <3>. DEFINE output == IF session.output \in {"speaking", "closing"} THEN session.output
                                                                          ELSE "thinking"
    <3>1. output \in OutputStates /\ output \in CompatStates /\ output # "idle"
      BY DEF OutputStates, CompatStates
    <3>2. CASE session.active
      <4>1. session' = [session EXCEPT !.input = "committed", !.output = output,
                                       !.frames = session.frames, !.bytes = session.bytes,
                                       !.turns = session.turns + 1, !.chunks = <<>>,
                                       !.state = output]
        BY <3>1, <3>2 DEF Sessions
      <4>2. /\ session \in Sessions /\ "committed" \in InputStates
            /\ session.frames \in Nat /\ session.bytes \in Nat
            /\ session.turns + 1 \in Nat
        BY DEF Sessions, InputStates
      <4>3. <<>> \in Seq(Frames)
        BY EmptyBuffer
      <4>. HIDE DEF output
      <4>. QED
        BY ONLY <3>1, <4>1, <4>2, <4>3, FieldsReplaced
    <3>. QED
      BY <3>2 DEF Sessions
  <2>. QED
    BY <2>1, <2>2
<1>2. StateDerived'
  BY DEF Sessions, CompatStates, InputStates, OutputStates, CloseReasons,
         StateDerived, idleSnapshot
<1>3. (session.active <=> session.id # NoID)'
  BY DEF Sessions, CompatStates, InputStates, OutputStates, CloseReasons, idleSnapshot
<1>4. NothingSurvivesReset'
  BY DEF Sessions, CompatStates, InputStates, OutputStates, CloseReasons,
         NothingSurvivesReset, idleSnapshot
<1>5. BytesCountAudio'
  <2>1. CASE ~session.active
    <3>1. Len(handed \o <<>>) = Len(handed)
      BY EmptyBuffer, BufferConcat
    <3>2. session' = session /\ handed' = handed \o <<>>
      BY <2>1
    <3>. QED
      BY <3>1, <3>2 DEF BytesCountAudio
  <2>2. CASE session.active
    <3>1. /\ Len(handed \o session.chunks) = Len(handed) + Len(session.chunks)
          /\ Len(handed) \in Nat /\ Len(session.chunks) \in Nat
      BY BufferConcat DEF Sessions
    <3>2. /\ session'.bytes = session.bytes
          /\ session'.chunks = <<>>
          /\ handed' = handed \o session.chunks
      BY <2>2 DEF Sessions
    <3>3. Len(session'.chunks) = 0
      BY <3>2, EmptyBuffer
    <3>4. Len(handed') = Len(handed) + Len(session.chunks)
      BY <3>1, <3>2
    <3>5. session.bytes = Len(handed) + Len(session.chunks)
      BY DEF BytesCountAudio
    <3>6. session'.bytes = session.bytes
      BY <3>2
    <3>7. session'.bytes = Len(handed') + Len(session'.chunks)
      BY ONLY <3>1, <3>3, <3>4, <3>5, <3>6
    <3>. QED
      BY <3>7 DEF BytesCountAudio
  <2>. QED
    BY <2>1, <2>2 DEF Sessions
<1>. QED
  BY <1>1, <1>2, <1>3, <1>4, <1>5 DEF IInv

(* SetState moves the two lanes.                                            *)
LEMMA SetStatePreserves ==
    ASSUME IInv, NEW state \in CompatStates, SetState(state)
    PROVE  IInv'
<1>. USE IDAssumption DEF IInv, TypeOK, SetState, SetStateOp, applyCompatState,
                          compatInput,
                              normalizeOutputState, WithState, deriveCompatState
<1>1. TypeOK'
  BY DEF Sessions, CompatStates, InputStates, OutputStates, CloseReasons
<1>2. StateDerived'
  BY DEF Sessions, CompatStates, InputStates, OutputStates, CloseReasons,
         StateDerived, idleSnapshot
<1>3. (session.active <=> session.id # NoID)'
  BY DEF Sessions, CompatStates, InputStates, OutputStates, CloseReasons, idleSnapshot
<1>4. NothingSurvivesReset'
  BY DEF Sessions, CompatStates, InputStates, OutputStates, CloseReasons,
         NothingSurvivesReset, idleSnapshot
<1>5. BytesCountAudio'
  BY DEF Sessions, CompatStates, InputStates, OutputStates, CloseReasons,
         BytesCountAudio
<1>. QED
  BY <1>1, <1>2, <1>3, <1>4, <1>5 DEF IInv

(* SetInputState moves the input lane.                                      *)
LEMMA SetInputStatePreserves ==
    ASSUME IInv, NEW state \in InputStates, SetInputState(state)
    PROVE  IInv'
<1>. USE IDAssumption DEF IInv, TypeOK, SetInputState, SetInputStateOp,
                          normalizeInputState, WithState, deriveCompatState
<1>1. TypeOK'
  BY DEF Sessions, CompatStates, InputStates, OutputStates, CloseReasons
<1>2. StateDerived'
  BY DEF Sessions, CompatStates, InputStates, OutputStates, CloseReasons,
         StateDerived, idleSnapshot
<1>3. (session.active <=> session.id # NoID)'
  BY DEF Sessions, CompatStates, InputStates, OutputStates, CloseReasons, idleSnapshot
<1>4. NothingSurvivesReset'
  BY DEF Sessions, CompatStates, InputStates, OutputStates, CloseReasons,
         NothingSurvivesReset, idleSnapshot
<1>5. BytesCountAudio'
  BY DEF Sessions, CompatStates, InputStates, OutputStates, CloseReasons,
         BytesCountAudio
<1>. QED
  BY <1>1, <1>2, <1>3, <1>4, <1>5 DEF IInv

(* SetOutputState moves the output lane.                                    *)
LEMMA SetOutputStatePreserves ==
    ASSUME IInv, NEW state \in OutputStates, SetOutputState(state)
    PROVE  IInv'
<1>. USE IDAssumption DEF IInv, TypeOK, SetOutputState, SetOutputStateOp,
                          normalizeOutputState, WithState, deriveCompatState
<1>1. TypeOK'
  BY DEF Sessions, CompatStates, InputStates, OutputStates, CloseReasons
<1>2. StateDerived'
  BY DEF Sessions, CompatStates, InputStates, OutputStates, CloseReasons,
         StateDerived, idleSnapshot
<1>3. (session.active <=> session.id # NoID)'
  BY DEF Sessions, CompatStates, InputStates, OutputStates, CloseReasons, idleSnapshot
<1>4. NothingSurvivesReset'
  BY DEF Sessions, CompatStates, InputStates, OutputStates, CloseReasons,
         NothingSurvivesReset, idleSnapshot
<1>5. BytesCountAudio'
  BY DEF Sessions, CompatStates, InputStates, OutputStates, CloseReasons,
         BytesCountAudio
<1>. QED
  BY <1>1, <1>2, <1>3, <1>4, <1>5 DEF IInv

(* End closes both lanes and keeps the audio.                               *)
LEMMA EndPreserves ==
    ASSUME IInv, NEW reason \in CloseReasons \ {""}, End(reason)
    PROVE  IInv'
<1>. USE IDAssumption DEF IInv, TypeOK, End, EndOp, WithState, deriveCompatState
<1>1. TypeOK'
  BY DEF Sessions, CompatStates, InputStates, OutputStates, CloseReasons
<1>2. StateDerived'
  BY DEF Sessions, CompatStates, InputStates, OutputStates, CloseReasons,
         StateDerived, idleSnapshot
<1>3. (session.active <=> session.id # NoID)'
  BY DEF Sessions, CompatStates, InputStates, OutputStates, CloseReasons, idleSnapshot
<1>4. NothingSurvivesReset'
  BY DEF Sessions, CompatStates, InputStates, OutputStates, CloseReasons,
         NothingSurvivesReset, idleSnapshot
<1>5. BytesCountAudio'
  BY DEF Sessions, CompatStates, InputStates, OutputStates, CloseReasons,
         BytesCountAudio
<1>. QED
  BY <1>1, <1>2, <1>3, <1>4, <1>5 DEF IInv

(* ClearTurn empties the buffer, with or without a session.                 *)
LEMMA ClearTurnPreserves ==
    ASSUME IInv, ClearTurn
    PROVE  IInv'
<1>. USE IDAssumption DEF IInv, TypeOK, ClearTurn, ClearTurnOp
<1>1. TypeOK'
  BY EmptyBuffer DEF Sessions, CompatStates, InputStates, OutputStates, CloseReasons
<1>2. StateDerived'
  BY DEF Sessions, CompatStates, InputStates, OutputStates, CloseReasons,
         StateDerived, idleSnapshot
<1>3. (session.active <=> session.id # NoID)'
  BY DEF Sessions, CompatStates, InputStates, OutputStates, CloseReasons, idleSnapshot
<1>4. NothingSurvivesReset'
  <2>. SUFFICES ASSUME ~session'.active PROVE session' = idleSnapshot
    BY DEF NothingSurvivesReset
  <2>1. session = idleSnapshot
    BY DEF NothingSurvivesReset, Sessions
  <2>. QED
    BY <2>1 DEF idleSnapshot
<1>5. BytesCountAudio'
  <2>1. session'.bytes = 0 /\ session'.chunks = <<>> /\ handed' = <<>>
    BY DEF Sessions
  <2>. QED
    BY <2>1, EmptiedCounts
<1>. QED
  BY <1>1, <1>2, <1>3, <1>4, <1>5 DEF IInv

(* Reset leaves the idle session.                                           *)
LEMMA ResetPreserves ==
    ASSUME IInv, Reset
    PROVE  IInv'
<1>. USE IDAssumption DEF IInv, TypeOK, Reset, ResetOp
<1>1. TypeOK'
  BY IdleIsSession, EmptyBuffer
<1>2. StateDerived'
  BY DEF StateDerived, idleSnapshot, deriveCompatState
<1>3. (session.active <=> session.id # NoID)'
  BY DEF Sessions, CompatStates, InputStates, OutputStates, CloseReasons, idleSnapshot
<1>4. NothingSurvivesReset'
  BY DEF Sessions, CompatStates, InputStates, OutputStates, CloseReasons,
         NothingSurvivesReset, idleSnapshot
<1>5. BytesCountAudio'
  <2>1. session'.bytes = 0 /\ session'.chunks = <<>> /\ handed' = <<>>
    BY DEF idleSnapshot
  <2>. QED
    BY <2>1, EmptiedCounts
<1>. QED
  BY <1>1, <1>2, <1>3, <1>4, <1>5 DEF IInv

-----------------------------------------------------------------------------
(* The theorems *)

(* The session starts in the invariant.                                     *)
LEMMA InitInv == Init => IInv
<1>. SUFFICES ASSUME Init PROVE IInv
  OBVIOUS
<1>1. TypeOK
  BY IdleIsSession, EmptyBuffer DEF Init, TypeOK
<1>2. BytesCountAudio
  <2>1. session.bytes = 0 /\ session.chunks = <<>> /\ handed = <<>>
    BY DEF Init, idleSnapshot
  <2>2. Len(session.chunks) = 0 /\ Len(handed) = 0
    BY <2>1, EmptyBuffer
  <2>. QED
    BY <2>1, <2>2 DEF BytesCountAudio
<1>3. StateDerived /\ (session.active <=> session.id # NoID) /\ NothingSurvivesReset
  BY DEF Init, idleSnapshot, StateDerived, deriveCompatState, NothingSurvivesReset
<1>. QED
  BY <1>1, <1>2, <1>3 DEF IInv

(* Every step, and a stuttering one, preserves the invariant.               *)
LEMMA NextInv == IInv /\ [Next]_vars => IInv'
<1>. SUFFICES ASSUME IInv, [Next]_vars PROVE IInv'
  OBVIOUS
<1>1. ASSUME NEW id \in SessionIDs, Start(id) PROVE IInv'
  BY <1>1, StartPreserves
<1>2. ASSUME NEW payload \in Frames \cup {NoBytes}, IngestOwnedAudioFrame(payload)
      PROVE IInv'
  BY <1>2, IngestPreserves
<1>3. CASE AcceptText
  BY <1>3, AcceptTextPreserves
<1>4. CASE CommitTurn
  BY <1>4, CommitTurnPreserves
<1>5. ASSUME NEW state \in CompatStates, SetState(state) PROVE IInv'
  BY <1>5, SetStatePreserves
<1>6. ASSUME NEW state \in InputStates, SetInputState(state) PROVE IInv'
  BY <1>6, SetInputStatePreserves
<1>7. ASSUME NEW state \in OutputStates, SetOutputState(state) PROVE IInv'
  BY <1>7, SetOutputStatePreserves
<1>8. ASSUME NEW reason \in CloseReasons \ {""}, End(reason) PROVE IInv'
  BY <1>8, EndPreserves
<1>9. CASE ClearTurn
  BY <1>9, ClearTurnPreserves
<1>10. CASE Reset
  BY <1>10, ResetPreserves
<1>11. CASE UNCHANGED vars
  BY <1>11 DEF vars, IInv, TypeOK, StateDerived, NothingSurvivesReset, BytesCountAudio
<1>. QED
  BY <1>1, <1>2, <1>3, <1>4, <1>5, <1>6, <1>7, <1>8, <1>9, <1>10, <1>11 DEF Next

(* The inductive invariant of the session core.                             *)
THEOREM SessionInvariant == Spec => []IInv
BY InitInv, NextInv, PTL DEF Spec

(* Type correctness: whatever calls the read loop and the output goroutine  *)
(* make, and in whatever order.                                             *)
THEOREM SessionTypeOK == Spec => []TypeOK
<1>1. IInv => TypeOK
  BY DEF IInv
<1>. QED
  BY <1>1, SessionInvariant, PTL

(* The byte counter is the amount of audio that was ingested since the      *)
(* buffer was last emptied (realtime_session.go, IngestOwnedAudioFrame,     *)
(* CommitTurn and ClearTurn).                                               *)
THEOREM SessionBytes == Spec => []BytesCountAudio
<1>1. IInv => BytesCountAudio
  BY DEF IInv
<1>. QED
  BY <1>1, SessionInvariant, PTL

(* A session that is over leaves nothing behind (Reset).                    *)
THEOREM SessionForgets == Spec => []NothingSurvivesReset
<1>1. IInv => NothingSurvivesReset
  BY DEF IInv
<1>. QED
  BY <1>1, SessionInvariant, PTL

(* What a snapshot shows is the state the session is in (cloneSnapshot and  *)
(* the mutators derive it differently).                                     *)
THEOREM SessionSnapshots == Spec => []SnapshotAgrees
<1>1. IInv => SnapshotAgrees
  BY DEF IInv, TypeOK, Sessions, StateDerived, SnapshotAgrees, SnapshotOf,
         deriveCompatState
<1>. QED
  BY <1>1, SessionInvariant, PTL

(* The identifier of a session is stable and its turns are only counted up, *)
(* whichever method is called: Start refuses an active session, and Reset   *)
(* ends it.                                                                 *)
THEOREM SessionIdentity == Spec => SessionKeepsIdentity
<1>1. ASSUME IInv, [Next]_vars, session.active, session'.active
      PROVE  session'.id = session.id /\ session'.turns \in {session.turns, session.turns + 1}
  <2>. USE <1>1 DEF WithState
  <2>0. session \in Sessions
    BY DEF IInv, TypeOK
  <2>1. ASSUME NEW id \in SessionIDs, Start(id) PROVE session' = session
    BY <2>1 DEF Start, StartOp
  <2>2. ASSUME NEW payload \in Frames \cup {NoBytes}, IngestOwnedAudioFrame(payload)
        PROVE  session'.id = session.id /\ session'.turns = session.turns
    BY <2>0, <2>2 DEF IngestOwnedAudioFrame, IngestOp, deriveCompatState, Sessions
  <2>3. CASE AcceptText
    BY <2>0, <2>3 DEF AcceptText, AcceptTextOp, deriveCompatState, Sessions
  <2>4. ASSUME CommitTurn
        PROVE  session'.id = session.id /\ session'.turns = session.turns + 1
    BY <2>0, <2>4 DEF CommitTurn, CommitTurnOp, deriveCompatState, Sessions
  <2>5. ASSUME NEW state \in CompatStates, SetState(state)
        PROVE  session'.id = session.id /\ session'.turns = session.turns
    BY <2>0, <2>5 DEF SetState, SetStateOp, applyCompatState, compatInput,
                      normalizeOutputState, deriveCompatState, Sessions
  <2>6. ASSUME NEW state \in InputStates, SetInputState(state)
        PROVE  session'.id = session.id /\ session'.turns = session.turns
    BY <2>0, <2>6 DEF SetInputState, SetInputStateOp, normalizeInputState,
                      deriveCompatState, Sessions
  <2>7. ASSUME NEW state \in OutputStates, SetOutputState(state)
        PROVE  session'.id = session.id /\ session'.turns = session.turns
    BY <2>0, <2>7 DEF SetOutputState, SetOutputStateOp, normalizeOutputState,
                      deriveCompatState, Sessions
  <2>8. ASSUME NEW reason \in CloseReasons \ {""}, End(reason)
        PROVE  session'.id = session.id /\ session'.turns = session.turns
    BY <2>0, <2>8 DEF End, EndOp, deriveCompatState, Sessions
  <2>9. CASE ClearTurn
    BY <2>0, <2>9 DEF ClearTurn, ClearTurnOp, Sessions
  <2>10. CASE Reset
    BY <2>10 DEF Reset, ResetOp, idleSnapshot
  <2>11. CASE UNCHANGED vars
    BY <2>11 DEF vars
  <2>. QED
    BY <2>1, <2>2, <2>3, <2>4, <2>5, <2>6, <2>7, <2>8, <2>9, <2>10, <2>11 DEF Next
<1>. QED
  BY <1>1, SessionInvariant, PTL DEF Spec, SessionKeepsIdentity

-----------------------------------------------------------------------------
(* The session implements the turn buffer *)

(* The audio taken in since the buffer was last emptied, as the refinement  *)
(* maps it: what was handed over, then what is waiting.                     *)
LEMMA BufferSteps ==
    ASSUME NEW h \in Seq(Frames), NEW c \in Seq(Frames)
    PROVE  /\ \A f \in Frames : h \o Append(c, f) = Append(h \o c, f)
           /\ (h \o c) \o <<>> = h \o c
           /\ h \o <<>> = h
           /\ <<>> \o <<>> = <<>>
<1>1. ASSUME NEW f \in Frames PROVE h \o Append(c, f) = Append(h \o c, f)
  <2>1. <<f>> \in Seq(Frames)
    BY EmptyBuffer, BufferAppend
  <2>2. Append(c, f) = c \o <<f>> /\ Append(h \o c, f) = (h \o c) \o <<f>>
    BY AppendIsConcat, BufferConcat
  <2>. QED
    BY <2>1, <2>2, ConcatAssociative
<1>2. (h \o c) \o <<>> = h \o c /\ h \o <<>> = h
  BY ConcatEmptySeq, BufferConcat
<1>3. <<>> \o <<>> = <<>>
  BY ConcatEmptySeq, EmptyBuffer
<1>. QED
  BY <1>1, <1>2, <1>3

(* A step that leaves the audio alone is a stuttering step of the buffer.   *)
LEMMA BufferStutters ==
    ASSUME session'.chunks = session.chunks, handed' = handed
    PROVE  UNCHANGED Buffer!vars
BY DEF Buffer!vars

(* A step that empties the buffer is a Forget.                              *)
LEMMA BufferForgets ==
    ASSUME session'.chunks = <<>>, handed' = <<>>
    PROVE  Buffer!Forget
<1>1. <<>> \o <<>> = <<>> /\ Len(<<>>) = 0
  BY EmptyBuffer, BufferSteps
<1>2. handed' \o session'.chunks = <<>> /\ Len(handed') = 0
  BY <1>1
<1>. QED
  BY <1>2 DEF Buffer!Forget

(* Every step of the session is a step of the turn buffer.                  *)
LEMMA BufferStep == IInv /\ [Next]_vars => [Buffer!Next]_(Buffer!vars)
<1>. SUFFICES ASSUME IInv, [Next]_vars
              PROVE  Buffer!Next \/ UNCHANGED Buffer!vars
  OBVIOUS
<1>0. session \in Sessions /\ session.chunks \in Seq(Frames) /\ handed \in Seq(Frames)
  BY DEF IInv, TypeOK, Sessions
<1>. USE DEF WithState
<1>1. ASSUME NEW id \in SessionIDs, Start(id) PROVE Buffer!Next \/ UNCHANGED Buffer!vars
  <2>1. CASE session.active
    BY <1>1, <2>1, BufferStutters DEF Start, StartOp
  <2>2. CASE ~session.active
    <3>1. session'.chunks = <<>> /\ handed' = <<>>
      BY <1>1, <2>2 DEF Start, StartOp, idleSnapshot
    <3>. QED
      BY <3>1, BufferForgets DEF Buffer!Next
  <2>. QED
    BY <2>1, <2>2
<1>2. ASSUME NEW payload \in Frames \cup {NoBytes}, IngestOwnedAudioFrame(payload)
      PROVE  Buffer!Next \/ UNCHANGED Buffer!vars
  <2>1. CASE payload = NoBytes \/ ~session.active
    <3>1. session'.chunks = session.chunks /\ handed' = handed
      BY <1>0, <1>2, <2>1 DEF IngestOwnedAudioFrame, IngestOp, deriveCompatState,
                              Sessions
    <3>. QED
      BY <3>1, BufferStutters
  <2>2. CASE payload # NoBytes /\ session.active
    <3>1. session'.chunks = Append(session.chunks, payload) /\ handed' = handed
      BY <1>0, <1>2, <2>2 DEF IngestOwnedAudioFrame, IngestOp, deriveCompatState,
                              Sessions
    <3>2. handed \o Append(session.chunks, payload) = Append(handed \o session.chunks, payload)
      BY <1>0, <2>2, BufferSteps
    <3>3. handed' \o session'.chunks = Append(handed \o session.chunks, payload)
      BY <3>1, <3>2
    <3>4. Buffer!Accept(payload)
      BY <3>1, <3>3 DEF Buffer!Accept
    <3>. QED
      BY <3>4, <2>2 DEF Buffer!Next
  <2>. QED
    BY <2>1, <2>2
<1>3. CASE AcceptText
  <2>1. session'.chunks = session.chunks /\ handed' = handed
    BY <1>0, <1>3 DEF AcceptText, AcceptTextOp, deriveCompatState, Sessions
  <2>. QED
    BY <2>1, BufferStutters
<1>4. CASE CommitTurn
  <2>1. CASE ~session.active
    <3>1. session'.chunks = session.chunks /\ handed' = handed \o <<>>
      BY <1>4, <2>1 DEF CommitTurn, CommitTurnOp, CommittedAudio
    <3>2. handed' = handed
      BY <1>0, <3>1, BufferSteps
    <3>. QED
      BY <3>1, <3>2, BufferStutters
  <2>2. CASE session.active
    <3>1. session'.chunks = <<>> /\ handed' = handed \o session.chunks
      BY <1>0, <1>4, <2>2 DEF CommitTurn, CommitTurnOp, CommittedAudio,
                              deriveCompatState, Sessions
    <3>2. (handed \o session.chunks) \o <<>> = handed \o session.chunks
      BY <1>0, BufferSteps
    <3>3. handed' \o session'.chunks = handed \o session.chunks
      BY <3>1, <3>2
    <3>4. Buffer!Deliver
      BY <3>1, <3>3 DEF Buffer!Deliver
    <3>. QED
      BY <3>4 DEF Buffer!Next
  <2>. QED
    BY <2>1, <2>2
<1>5. ASSUME NEW state \in CompatStates, SetState(state)
      PROVE  session'.chunks = session.chunks /\ handed' = handed
  BY <1>0, <1>5 DEF SetState, SetStateOp, applyCompatState, compatInput,
                    normalizeOutputState, deriveCompatState, Sessions
<1>6. ASSUME NEW state \in InputStates, SetInputState(state)
      PROVE  session'.chunks = session.chunks /\ handed' = handed
  BY <1>0, <1>6 DEF SetInputState, SetInputStateOp, normalizeInputState,
                    deriveCompatState, Sessions
<1>7. ASSUME NEW state \in OutputStates, SetOutputState(state)
      PROVE  session'.chunks = session.chunks /\ handed' = handed
  BY <1>0, <1>7 DEF SetOutputState, SetOutputStateOp, normalizeOutputState,
                    deriveCompatState, Sessions
<1>8. ASSUME NEW reason \in CloseReasons \ {""}, End(reason)
      PROVE  session'.chunks = session.chunks /\ handed' = handed
  BY <1>0, <1>8 DEF End, EndOp, deriveCompatState, Sessions
<1>9. ASSUME ClearTurn PROVE session'.chunks = <<>> /\ handed' = <<>>
  BY <1>0, <1>9 DEF ClearTurn, ClearTurnOp, Sessions
<1>10. ASSUME Reset PROVE session'.chunks = <<>> /\ handed' = <<>>
  BY <1>10 DEF Reset, ResetOp, idleSnapshot
<1>11. ASSUME UNCHANGED vars PROVE session'.chunks = session.chunks /\ handed' = handed
  BY <1>11 DEF vars
<1>12. ASSUME session'.chunks = <<>>, handed' = <<>> PROVE Buffer!Next
  BY <1>12, BufferForgets DEF Buffer!Next
<1>. QED
  BY <1>1, <1>2, <1>3, <1>4, <1>5, <1>6, <1>7, <1>8, <1>9, <1>10, <1>11, <1>12,
     BufferStutters DEF Next

(* The session core implements the turn buffer: frames in arrival order,    *)
(* each handed over by exactly one commit, for any number of frames.        *)
THEOREM SessionRefinesBuffer == Spec => BufferSpec
<1>1. Init => Buffer!Init
  <2>. SUFFICES ASSUME Init PROVE Buffer!Init
    OBVIOUS
  <2>1. session.chunks = <<>> /\ handed = <<>>
    BY DEF Init, idleSnapshot
  <2>2. <<>> \o <<>> = <<>> /\ Len(<<>>) = 0
    BY EmptyBuffer, BufferSteps
  <2>. QED
    BY <2>1, <2>2 DEF Buffer!Init
<1>. QED
  BY <1>1, BufferStep, SessionInvariant, PTL DEF Spec, BufferSpec, Buffer!Spec
=============================================================================
