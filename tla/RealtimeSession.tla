---------------------------- MODULE RealtimeSession ----------------------------
(***************************************************************************)
(* The session core (internal/session/realtime_session.go): the state of   *)
(* one websocket connection's session, shared by the connection's read     *)
(* loop and its output goroutine.  Each method is one critical section     *)
(* under s.mu and one action here; the gateways call the methods in any    *)
(* order, and every method but Start, ClearTurn, Reset and Snapshot        *)
(* returns ErrNoActiveSession and changes nothing when no session is       *)
(* active.                                                                 *)
(*                                                                         *)
(* Data: a payload is one of Frames (its bytes, all of one length, counted *)
(* as one unit) or NoBytes, the empty payload a decoder may return.        *)
(* Timestamps, codec and device fields are left out: no method reads them. *)
(***************************************************************************)
EXTENDS Naturals, Sequences

CONSTANTS
    SessionIDs,     \* non-empty session identifiers
    Frames,         \* non-empty audio payloads
    NoID,           \* the empty string: no session
    NoBytes         \* the empty payload

ASSUME IDAssumption == NoID \notin SessionIDs
ASSUME PayloadAssumption == NoBytes \notin Frames

InputStates  == {"idle", "active", "previewing", "committed", "closing"}
OutputStates == {"idle", "thinking", "speaking", "closing"}
CompatStates == {"idle", "active", "thinking", "speaking", "closing"}
CloseReasons == {"", "client_stop", "server_stop", "completed", "idle_timeout",
                 "max_duration", "error"}

Sessions ==
    [active : BOOLEAN, id : SessionIDs \cup {NoID},
     state : CompatStates, input : InputStates, output : OutputStates,
     closeReason : CloseReasons,
     frames : Nat, bytes : Nat, turns : Nat, chunks : Seq(Frames)]

-----------------------------------------------------------------------------
(* Helpers *)

deriveCompatState(input, output, active) ==
    IF ~active THEN "idle" ELSE IF output = "idle" THEN "active" ELSE output

\* Every mutator recomputes the cached compatibility state last.
WithState(s) == [s EXCEPT !.state = deriveCompatState(s.input, s.output, s.active)]

normalizeInputState(state)  == IF state \in InputStates  THEN state ELSE "active"
normalizeOutputState(state) == IF state \in OutputStates THEN state ELSE "idle"

\* What SetState(state) does to the two lanes, before the state is recomputed:
\* the output lane follows it; a turn that is answered keeps its input state.
compatInput(input, state) ==
    IF state \in {"thinking", "speaking"}
    THEN IF input \in {"idle", "closing"} THEN "committed" ELSE input
    ELSE IF state \in {"idle", "closing"} THEN state ELSE "active"

applyCompatState(s, state) ==
    [s EXCEPT !.input  = compatInput(s.input, state),
              !.output = normalizeOutputState(state)]

-----------------------------------------------------------------------------
(* The methods, as functions of the session *)

idleSnapshot ==
    [active |-> FALSE, id |-> NoID, state |-> "idle", input |-> "idle",
     output |-> "idle", closeReason |-> "", frames |-> 0, bytes |-> 0,
     turns |-> 0, chunks |-> <<>>]

\* Start fails with ErrSessionAlreadyActive while a session is active.
StartOp(s, id) ==
    IF s.active
    THEN s
    ELSE WithState([idleSnapshot EXCEPT !.active = TRUE, !.id = id, !.input = "active"])

IngestOp(s, payload) ==
    IF ~s.active
    THEN s
    ELSE WithState([s EXCEPT
            !.input  = "active",
            !.frames = @ + 1,
            !.bytes  = IF payload = NoBytes THEN @ ELSE @ + 1,
            !.chunks = IF payload = NoBytes THEN @ ELSE Append(@, payload)])

AcceptTextOp(s) == IF ~s.active THEN s ELSE WithState([s EXCEPT !.input = "active"])

\* Mutant: the committed chunks stay in the buffer.
CommitTurnKeepsChunks(s) ==
    IF ~s.active
    THEN s
    ELSE WithState([s EXCEPT
            !.input  = "committed",
            !.output = IF @ \in {"speaking", "closing"} THEN @ ELSE "thinking",
            !.turns  = @ + 1])

CommitTurnOp(s) ==
    IF ~s.active
    THEN s
    ELSE WithState([s EXCEPT
            !.input  = "committed",
            !.output = IF @ \in {"speaking", "closing"} THEN @ ELSE "thinking",
            !.turns  = @ + 1,
            !.chunks = <<>>])

\* flattenTurnAudioChunks: the audio that CommitTurn returns.
CommittedAudio(s) == IF s.active THEN s.chunks ELSE <<>>

SetStateOp(s, state) == IF ~s.active THEN s ELSE WithState(applyCompatState(s, state))

SetInputStateOp(s, state) ==
    IF ~s.active THEN s ELSE WithState([s EXCEPT !.input = normalizeInputState(state)])

SetOutputStateOp(s, state) ==
    IF ~s.active THEN s ELSE WithState([s EXCEPT !.output = normalizeOutputState(state)])

\* Mutant: the compatibility state is not recomputed.
EndStale(s, reason) ==
    IF ~s.active
    THEN s
    ELSE [s EXCEPT !.input = "closing", !.output = "closing", !.closeReason = reason]

EndOp(s, reason) ==
    IF ~s.active
    THEN s
    ELSE WithState([s EXCEPT !.input = "closing", !.output = "closing",
                             !.closeReason = reason])

\* Mutant: the byte counter is forgotten.
ClearTurnKeepsBytes(s) == [s EXCEPT !.frames = 0, !.chunks = <<>>]

ClearTurnOp(s) == [s EXCEPT !.frames = 0, !.bytes = 0, !.chunks = <<>>]

\* Mutant: the session is only marked inactive.
ResetMarks(s) == [s EXCEPT !.active = FALSE, !.id = NoID, !.state = "idle"]

ResetOp(s) == idleSnapshot

\* cloneSnapshot: what a reader is given.  It derives the state again, from the
\* session identifier instead of the active flag.
SnapshotOf(s) ==
    [id |-> s.id, state |-> deriveCompatState(s.input, s.output, s.id # NoID),
     input |-> s.input, output |-> s.output, bytes |-> s.bytes, turns |-> s.turns]

-----------------------------------------------------------------------------
VARIABLES
    session,    \* the fields of the RealtimeSession
    handed      \* history: the audio that commits have returned since the
                \* buffer was last emptied

vars == <<session, handed>>

TypeOK ==
    /\ session \in Sessions
    /\ handed \in Seq(Frames)

Init ==
    /\ session = idleSnapshot
    /\ handed = <<>>

Start(id) ==
    /\ session' = StartOp(session, id)
    /\ handed' = IF session.active THEN handed ELSE <<>>

IngestOwnedAudioFrame(payload) ==
    /\ session' = IngestOp(session, payload)
    /\ UNCHANGED handed

AcceptText ==
    /\ session' = AcceptTextOp(session)
    /\ UNCHANGED handed

CommitTurn ==
    /\ session' = CommitTurnOp(session)
    /\ handed' = handed \o CommittedAudio(session)

SetState(state) ==
    /\ session' = SetStateOp(session, state)
    /\ UNCHANGED handed

SetInputState(state) ==
    /\ session' = SetInputStateOp(session, state)
    /\ UNCHANGED handed

SetOutputState(state) ==
    /\ session' = SetOutputStateOp(session, state)
    /\ UNCHANGED handed

End(reason) ==
    /\ session' = EndOp(session, reason)
    /\ UNCHANGED handed

ClearTurn ==
    /\ session' = ClearTurnOp(session)
    /\ handed' = <<>>

Reset ==
    /\ session' = ResetOp(session)
    /\ handed' = <<>>

Next ==
    \/ \E id \in SessionIDs : Start(id)
    \/ \E payload \in Frames \cup {NoBytes} : IngestOwnedAudioFrame(payload)
    \/ AcceptText
    \/ CommitTurn
    \/ \E state \in CompatStates : SetState(state)
    \/ \E state \in InputStates : SetInputState(state)
    \/ \E state \in OutputStates : SetOutputState(state)
    \/ \E reason \in CloseReasons \ {""} : End(reason)
    \/ ClearTurn
    \/ Reset

Spec == Init /\ [][Next]_vars

-----------------------------------------------------------------------------
(* The byte counter is the length of the turn's audio, over everything that *)
(* was ingested since the buffer was last emptied and whether or not it has *)
(* been committed: the endpoint tick (realtime_ws.go:327) and the turn      *)
(* request (buildTurnRequest) read it as the amount of audio.               *)
BytesCountAudio == session.bytes = Len(handed) + Len(session.chunks)

(* Nobody can tell a session that is over from one that never was: without  *)
(* an active session there is no identifier, no audio, no close reason and  *)
(* both lanes are idle, whatever calls came before.                         *)
NothingSurvivesReset == ~session.active => session = idleSnapshot

(* The two ways the code derives the compatibility state (the mutators from *)
(* the active flag, cloneSnapshot from the identifier) agree, so a snapshot *)
(* shows the state the session is in, and a client is told "closing" or     *)
(* "speaking" exactly when the output lane is.                              *)
SnapshotAgrees ==
    /\ SnapshotOf(session).state = session.state
    /\ session.active <=> session.id # NoID

(* Within one session the identifier never changes and turns are never      *)
(* uncounted: only Reset takes them back.                                   *)
SessionKeepsIdentity ==
    [][session.active /\ session'.active
            => /\ session'.id = session.id
               /\ session'.turns \in {session.turns, session.turns + 1}]_vars

(* The abstract promise about the turn's audio.                             *)
Buffer == INSTANCE TurnBuffer WITH
    accepted  <- handed \o session.chunks,
    delivered <- Len(handed)
BufferSpec == Buffer!Spec
=============================================================================
