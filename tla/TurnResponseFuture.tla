--------------------------- MODULE TurnResponseFuture ---------------------------
(***************************************************************************)
(* The future that separates early audio from the final response envelope  *)
(* (internal/voice/orchestrated_response.go, asyncTurnResponseFuture).     *)
(*                                                                         *)
(* The responder goroutine publishes an audio start (at most one planner   *)
(* goroutine does) and resolves the response; the callers of Wait and of   *)
(* WaitAudioStart run concurrently with it and with each other.  Every     *)
(* method body is one critical section under f.mu, so one action each; the *)
(* select on ctx.Done() and the ready channel in front of the section is   *)
(* the guard.                                                              *)
(*                                                                         *)
(* Data: an audio stream is one of "early" (the planner's stream) and      *)
(* "final" (a stream that exists only in the response), "none" is nil.     *)
(***************************************************************************)
EXTENDS FiniteSets

CONSTANTS
    Waiters,        \* goroutines that call Wait
    AudioWaiters    \* goroutines that call WaitAudioStart

ASSUME CallersAssumption == Waiters \cap AudioWaiters = {}

Audio     == {"none", "early", "final"}
Responses == [audio : Audio, transferred : BOOLEAN]

\* What a call has returned: nothing yet, ctx.Err(), f.err, or a response.
Pending     == [kind |-> "pending",  audio |-> "none", transferred |-> FALSE]
CtxErr      == [kind |-> "ctx_err",  audio |-> "none", transferred |-> FALSE]
\* Mutant: an error that no caller knows.
UnknownErr  == [kind |-> "error",    audio |-> "none", transferred |-> FALSE]
FutureErr   == [kind |-> "err",      audio |-> "none", transferred |-> FALSE]
Returned(r) == [kind |-> "ok", audio |-> r.audio, transferred |-> r.transferred]
Results     == [kind : {"pending", "ctx_err", "err", "ok"},
                audio : Audio, transferred : BOOLEAN]

-----------------------------------------------------------------------------
(* The methods, as functions of the future's fields.                        *)

NewFuture ==
    [resolved |-> FALSE, err |-> FALSE,
     response |-> [audio |-> "none", transferred |-> FALSE],
     audioResolved |-> FALSE, audioStart |-> "none",
     audioClaimed |-> FALSE, responseDelivered |-> FALSE]

Futures ==
    [resolved : BOOLEAN, err : BOOLEAN, response : Responses,
     audioResolved : BOOLEAN, audioStart : Audio,
     audioClaimed : BOOLEAN, responseDelivered : BOOLEAN]

\* audioAvailable is true exactly when an audio start is recorded.
AudioAvailable(f) == f.audioStart # "none"

PublishAudioStart(f, stream) ==
    IF f.audioResolved \/ f.responseDelivered
    THEN f
    ELSE [f EXCEPT !.audioResolved = TRUE, !.audioStart = stream]

\* Mutant: Resolve forgets the callers of WaitAudioStart.
ResolveLeavesAudio(f, response, failed) ==
    IF f.resolved
    THEN f
    ELSE [f EXCEPT !.resolved = TRUE, !.response = response, !.err = failed]

\* Resolve settles the audio side too when nobody has: from the response's
\* own stream (responseAudioStartFromTurnResponse), or as "no audio".
Resolve(f, response, failed) ==
    IF f.resolved
    THEN f
    ELSE [f EXCEPT !.resolved = TRUE,
                   !.response = response,
                   !.err = failed,
                   !.audioResolved = TRUE,
                   !.audioStart = IF f.audioResolved THEN @ ELSE response.audio]

\* detachTurnResponseAudio
Detach(response) ==
    IF response.audio = "none"
    THEN response
    ELSE [audio |-> "none", transferred |-> TRUE]

TurnResponseHasAudio(response) == response.audio # "none" \/ response.transferred

\* Mutant: the stream is taken out because somebody might still claim it.
WaitResultExpectsClaim(f) ==
    IF f.err
    THEN FutureErr
    ELSE IF AudioAvailable(f) THEN Returned(Detach(f.response)) ELSE Returned(f.response)

\* Mutant: the second Wait gets the stream again.
WaitResultRepeats(f) ==
    IF f.err
    THEN FutureErr
    ELSE IF f.audioClaimed THEN Returned(Detach(f.response)) ELSE Returned(f.response)

\* A second Wait gets the response without the stream the first one got.
WaitResult(f) ==
    IF f.err
    THEN FutureErr
    ELSE IF f.audioClaimed \/ (f.responseDelivered /\ TurnResponseHasAudio(f.response))
         THEN Returned(Detach(f.response))
         ELSE Returned(f.response)

AfterWait(f) ==
    [f EXCEPT !.responseDelivered = @ \/ (~f.err /\ ~f.audioClaimed)]

\* Mutant: the stream may be claimed after the response went out with it.
CanClaimAudioLate(f) == ~f.err /\ AudioAvailable(f) /\ ~f.audioClaimed

CanClaimAudio(f) ==
    ~f.err /\ AudioAvailable(f) /\ ~f.audioClaimed /\ ~f.responseDelivered

\* An audio waiter that gets nothing returns ok = false, the zero start.
WaitAudioStartResult(f) ==
    IF f.err THEN FutureErr
    ELSE Returned([audio |-> IF CanClaimAudio(f) THEN f.audioStart ELSE "none",
                   transferred |-> FALSE])

AfterWaitAudioStart(f) == [f EXCEPT !.audioClaimed = @ \/ CanClaimAudio(f)]

-----------------------------------------------------------------------------
VARIABLES
    future,      \* the fields of the asyncTurnResponseFuture
    result,      \* what each caller's call has returned
    cancelled    \* the callers' context is done

vars == <<future, result, cancelled>>

Callers == Waiters \cup AudioWaiters

TypeOK ==
    /\ future \in Futures
    /\ result \in [Callers -> Results]
    /\ cancelled \in BOOLEAN

Init ==
    /\ future = NewFuture
    /\ result = [c \in Callers |-> Pending]
    /\ cancelled = FALSE

\* The planner goroutine hands over its stream; it runs once per turn, before
\* or after Resolve.
Publish ==
    /\ future' = PublishAudioStart(future, "early")
    /\ UNCHANGED <<result, cancelled>>

\* The responder goroutine: future.Resolve(r.respondWithOptionalPlanning(...)).
\* A turn whose planner has started speaking answers with the planner's own
\* stream; a failed turn resolves with the zero response.
Settle ==
    /\ \/ \E audio \in IF AudioAvailable(future) THEN {future.audioStart} ELSE Audio :
             future' = Resolve(future, [audio |-> audio, transferred |-> FALSE], FALSE)
       \/ future' = Resolve(future, NewFuture.response, TRUE)
    /\ UNCHANGED <<result, cancelled>>

Cancel ==
    /\ cancelled' = TRUE
    /\ UNCHANGED <<future, result>>

\* When both channels of the select are ready either branch may be taken.
ReturnCtxErr(c) ==
    /\ result[c] = Pending
    /\ cancelled
    /\ result' = [result EXCEPT ![c] = CtxErr]
    /\ UNCHANGED <<future, cancelled>>

Wait(w) ==
    /\ result[w] = Pending
    /\ future.resolved
    /\ result' = [result EXCEPT ![w] = WaitResult(future)]
    /\ future' = AfterWait(future)
    /\ UNCHANGED cancelled

WaitAudioStart(w) ==
    /\ result[w] = Pending
    /\ future.audioResolved
    /\ result' = [result EXCEPT ![w] = WaitAudioStartResult(future)]
    /\ future' = AfterWaitAudioStart(future)
    /\ UNCHANGED cancelled

Next ==
    \/ Publish
    \/ Settle
    \/ Cancel
    \/ \E c \in Callers : ReturnCtxErr(c)
    \/ \E w \in Waiters : Wait(w)
    \/ \E w \in AudioWaiters : WaitAudioStart(w)

Spec == Init /\ [][Next]_vars

-----------------------------------------------------------------------------
Owns(c) == result[c].audio # "none"

(* Audio ownership (contracts.go: the stream belongs to whoever             *)
(* WaitAudioStart returned it to, and must not be started again from the    *)
(* final response): over any interleaving of Wait and WaitAudioStart calls  *)
(* at most one of them hands out a stream.                                  *)
SingleOwner == \A c, d \in Callers : Owns(c) /\ Owns(d) => c = d

(* A settled turn's audio is not lost between the two ways out: when every  *)
(* call has returned successfully and the turn has audio, some call got it. *)
AudioDelivered ==
    (/\ future.resolved /\ ~future.err /\ future.response.audio # "none"
     /\ Waiters # {}
     /\ \A c \in Callers : result[c].kind = "ok")
        => \E c \in Callers : Owns(c)

(* A response that went out without its stream after somebody else got the  *)
(* stream says so, so that the gateway does not finalise the turn as if it  *)
(* had no audio (realtime_ws.go:1130).                                      *)
DetachedSaysTransferred ==
    \A w \in Waiters :
        (/\ result[w].kind = "ok" /\ ~Owns(w) /\ future.response.audio # "none")
            => result[w].transferred

(* The abstract promise: audio is offered, then taken by at most one.       *)
Ownership == INSTANCE AudioOwnership WITH
    owners  <- {c \in Callers : Owns(c)},
    offered <- AudioAvailable(future)
OwnershipSpec == Ownership!Spec
=============================================================================
