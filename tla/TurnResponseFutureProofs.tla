------------------------ MODULE TurnResponseFutureProofs ------------------------
(***************************************************************************)
(* Audio ownership, for any number of callers of Wait and WaitAudioStart.  *)
(*                                                                         *)
(* SingleOwner is not inductive: that no second call gets the stream rests *)
(* on the two flags, audioClaimed and responseDelivered, saying truthfully *)
(* that somebody has it (Flags), on at most one of them being set, and on  *)
(* the response that callers were given being the one the future still     *)
(* holds (Settled).  Holders adds the converse, that a flag is set only    *)
(* for a call that really returned the stream, which is what keeps audio   *)
(* from being lost.                                                        *)
(***************************************************************************)
EXTENDS TurnResponseFuture, TLAPS

\* What is known of the future's own fields.
Settled ==
    /\ future.responseDelivered => future.resolved /\ ~future.err
    /\ future.resolved => future.audioResolved
    /\ ~future.audioResolved => future.audioStart = "none"
    /\ future.audioResolved /\ ~future.resolved => future.audioStart # "none"
    /\ future.response.audio # "none" => future.resolved /\ future.audioStart # "none"
    /\ future.resolved /\ ~future.err => future.response.audio = future.audioStart
    /\ ~future.response.transferred
    /\ future.audioClaimed => future.audioStart # "none"
    /\ ~(future.audioClaimed /\ future.responseDelivered)

\* An owner has set the flag of its side.
Flags ==
    /\ \A a \in AudioWaiters : Owns(a) => future.audioClaimed
    /\ \A w \in Waiters :
         /\ Owns(w) => future.responseDelivered /\ future.response.audio # "none"
         /\ result[w].kind = "ok" =>
              /\ future.resolved
              /\ future.responseDelivered \/ future.audioClaimed

\* A set flag has an owner, if there is audio.
Holders ==
    /\ future.audioClaimed => \E a \in AudioWaiters : Owns(a)
    /\ future.responseDelivered /\ future.response.audio # "none"
         => \E w \in Waiters : Owns(w)

IInv ==
    /\ TypeOK
    /\ Settled
    /\ Flags
    /\ Holders
    /\ SingleOwner
    /\ DetachedSaysTransferred

-----------------------------------------------------------------------------
(* A freshly made future is one, and no call has returned.                  *)
LEMMA InitInv == Init => IInv
<1>. SUFFICES ASSUME Init PROVE IInv
  OBVIOUS
<1>1. TypeOK
  BY DEF Init, TypeOK, NewFuture, Futures, Responses, Audio, Results, Pending
<1>2. Settled
  BY DEF Init, Settled, NewFuture
<1>3. \A c \in Callers : ~Owns(c) /\ result[c].kind = "pending"
  BY DEF Init, Owns, Pending
<1>4. Flags /\ SingleOwner /\ DetachedSaysTransferred
  BY <1>3 DEF Flags, SingleOwner, DetachedSaysTransferred, Callers
<1>5. Holders
  BY DEF Init, Holders, NewFuture
<1>. QED
  BY <1>1, <1>2, <1>4, <1>5 DEF IInv

(* A step of the producer, which changes the future's fields and no result, *)
(* preserves the invariant if it leaves the flags and a settled response.   *)
LEMMA ProducerPreserves ==
    ASSUME IInv, TypeOK', Settled', result' = result,
           future'.audioClaimed = future.audioClaimed,
           future'.responseDelivered = future.responseDelivered,
           future.resolved => future'.resolved /\ future'.response = future.response
    PROVE  IInv'
<1>. USE DEF IInv, Owns
<1>1. Flags'
  BY DEF Flags, Settled
<1>2. Holders'
  BY DEF Holders, Settled
<1>3. SingleOwner'
  BY DEF SingleOwner
<1>4. DetachedSaysTransferred'
  BY DEF DetachedSaysTransferred, Flags, Callers
<1>. QED
  BY <1>1, <1>2, <1>3, <1>4

(* Publishing an audio start.                                               *)
LEMMA PublishPreserves ==
    ASSUME IInv, Publish
    PROVE  IInv'
<1>. USE DEF IInv, Publish, PublishAudioStart, TypeOK
<1>1. TypeOK'
  BY DEF Futures, Audio
<1>2. Settled'
  BY DEF Futures, Settled
<1>. QED
  BY <1>1, <1>2, ProducerPreserves DEF Futures

(* Resolving the response, with the stream that was published or its own.   *)
LEMMA SettlePreserves ==
    ASSUME IInv, Settle
    PROVE  IInv'
<1>1. PICK r \in Responses, e \in BOOLEAN :
         /\ future' = Resolve(future, r, e)
         /\ ~r.transferred
         /\ AudioAvailable(future) /\ ~e => r.audio = future.audioStart
         /\ e => r.audio = "none"
  <2>1. NewFuture.response \in Responses /\ NewFuture.response.audio = "none"
        /\ ~NewFuture.response.transferred
    BY DEF NewFuture, Responses, Audio
  <2>2. CASE future' = Resolve(future, NewFuture.response, TRUE)
    BY <2>1, <2>2
  <2>3. ASSUME NEW audio \in IF AudioAvailable(future) THEN {future.audioStart} ELSE Audio,
               future' = Resolve(future, [audio |-> audio, transferred |-> FALSE], FALSE)
        PROVE  \E r \in Responses, e \in BOOLEAN :
                 /\ future' = Resolve(future, r, e)
                 /\ ~r.transferred
                 /\ AudioAvailable(future) /\ ~e => r.audio = future.audioStart
                 /\ e => r.audio = "none"
    <3>1. [audio |-> audio, transferred |-> FALSE] \in Responses
      BY DEF IInv, TypeOK, Futures, Responses
    <3>. QED
      BY <2>3, <3>1
  <2>. QED
    BY <2>2, <2>3 DEF Settle
<1>. USE <1>1 DEF IInv, Settle, Resolve, TypeOK
<1>2. TypeOK'
  BY DEF Futures, Responses
<1>3. Settled'
  BY DEF Futures, Responses, Settled, AudioAvailable
<1>. QED
  BY <1>2, <1>3, ProducerPreserves DEF Futures

(* A call that returns no stream and leaves the future alone.               *)
LEMMA CtxErrPreserves ==
    ASSUME IInv, NEW c \in Callers, ReturnCtxErr(c)
    PROVE  IInv'
<1>. USE DEF IInv, ReturnCtxErr, TypeOK
<1>1. TypeOK'
  BY DEF Results, CtxErr, Audio
<1>2. result'[c] = CtxErr /\ (\A d \in Callers \ {c} : result'[d] = result[d])
  OBVIOUS
<1>3. \A d \in Callers : Owns(d)' <=> Owns(d)
  BY <1>2 DEF Owns, CtxErr, Pending
<1>4. \A d \in Callers : (result[d].kind = "ok")' <=> result[d].kind = "ok"
  BY <1>2 DEF CtxErr, Pending
<1>5. Settled'
  BY DEF Settled
<1>6. Flags'
  BY <1>3, <1>4 DEF Flags, Callers
<1>7. Holders'
  BY <1>3 DEF Holders, Callers
<1>8. SingleOwner'
  BY <1>3 DEF SingleOwner
<1>9. DetachedSaysTransferred'
  BY <1>2, <1>3, <1>4 DEF DetachedSaysTransferred, Callers, CtxErr
<1>. QED
  BY <1>1, <1>5, <1>6, <1>7, <1>8, <1>9

(* Wait: the stream goes out only if neither flag says somebody has it.     *)
LEMMA WaitPreserves ==
    ASSUME IInv, NEW w \in Waiters, Wait(w)
    PROVE  IInv'
<1>. USE CallersAssumption DEF IInv, Wait, TypeOK
<1>0. w \in Callers /\ w \notin AudioWaiters
  BY DEF Callers
<1>1. WaitResult(future) \in Results
  BY DEF WaitResult, FutureErr, Returned, Detach, Results, Futures, Responses, Audio
<1>2. TypeOK'
  BY <1>0, <1>1 DEF AfterWait, Futures
<1>3. result'[w] = WaitResult(future)
      /\ (\A d \in Callers \ {w} : result'[d] = result[d])
  BY <1>0
<1>4. \A d \in Callers \ {w} : Owns(d)' <=> Owns(d)
  BY <1>3 DEF Owns
<1>5. ~Owns(w)
  BY DEF Owns, Pending
<1>6. Owns(w)' <=> /\ ~future.err /\ ~future.audioClaimed /\ ~future.responseDelivered
                   /\ future.response.audio # "none"
  <2>1. Owns(w)' <=> WaitResult(future).audio # "none"
    BY <1>3 DEF Owns
  <2>2. Detach(future.response).audio = "none"
    BY DEF Detach
  <2>3. future.err => WaitResult(future).audio = "none"
    BY DEF WaitResult, FutureErr
  <2>4. (/\ future.audioClaimed \/ future.responseDelivered
         /\ future.response.audio # "none")
          => WaitResult(future).audio = "none"
    BY <2>2, <2>3 DEF WaitResult, Returned, TurnResponseHasAudio
  <2>5. future.response.audio = "none" => WaitResult(future).audio = "none"
    BY <2>2, <2>3 DEF WaitResult, Returned
  <2>6. (/\ ~future.err /\ ~future.audioClaimed /\ ~future.responseDelivered
         /\ future.response.audio # "none")
          => WaitResult(future).audio # "none"
    BY DEF WaitResult, Returned
  <2>. HIDE DEF Wait, TypeOK, IInv
  <2>. QED
    BY <2>1, <2>3, <2>4, <2>5, <2>6
<1>7. /\ future'.responseDelivered =
            (future.responseDelivered \/ (~future.err /\ ~future.audioClaimed))
      /\ future'.resolved /\ future'.err = future.err
      /\ future'.response = future.response /\ future'.audioClaimed = future.audioClaimed
      /\ future'.audioResolved = future.audioResolved
      /\ future'.audioStart = future.audioStart
  BY DEF AfterWait, Futures
<1>8. Settled'
  BY <1>7 DEF Settled
<1>9. Flags'
  BY <1>0, <1>3, <1>4, <1>6, <1>7 DEF Flags, Callers, Settled, WaitResult, FutureErr
<1>10. Holders'
  <2>1. ASSUME future'.audioClaimed PROVE \E a \in AudioWaiters : Owns(a)'
    BY <1>0, <1>4, <1>7, <2>1 DEF Holders, Callers
  <2>2. ASSUME future'.responseDelivered, future'.response.audio # "none"
        PROVE  \E v \in Waiters : Owns(v)'
    <3>1. CASE future.responseDelivered
      <4>1. PICK v \in Waiters : Owns(v)
        BY <1>7, <2>2, <3>1 DEF Holders
      <4>. QED
        BY <4>1, <1>4, <1>5 DEF Callers
    <3>2. CASE ~future.responseDelivered
      BY <1>6, <1>7, <2>2, <3>2
    <3>. QED
      BY <3>1, <3>2
  <2>. QED
    BY <2>1, <2>2 DEF Holders
<1>11. SingleOwner'
  <2>1. ASSUME Owns(w)' PROVE \A d \in Callers : ~Owns(d)
    BY <1>6, <2>1 DEF Flags, Callers
  <2>. QED
    BY <2>1, <1>4 DEF SingleOwner
<1>12. DetachedSaysTransferred'
  <2>1. ASSUME result'[w].kind = "ok", ~Owns(w)', future'.response.audio # "none"
        PROVE  result'[w].transferred
    BY <2>1, <1>3, <1>7 DEF WaitResult, FutureErr, Returned, Detach, Owns
  <2>2. ASSUME NEW v \in Waiters \ {w}, result'[v].kind = "ok", ~Owns(v)',
               future'.response.audio # "none"
        PROVE  result'[v].transferred
    BY <2>2, <1>3, <1>4, <1>7 DEF DetachedSaysTransferred, Callers
  <2>. QED
    BY <2>1, <2>2 DEF DetachedSaysTransferred
<1>. QED
  BY <1>2, <1>8, <1>9, <1>10, <1>11, <1>12

(* WaitAudioStart: a claim is made only while neither flag is set.          *)
LEMMA WaitAudioStartPreserves ==
    ASSUME IInv, NEW a \in AudioWaiters, WaitAudioStart(a)
    PROVE  IInv'
<1>. USE CallersAssumption DEF IInv, WaitAudioStart, TypeOK
<1>0. a \in Callers /\ a \notin Waiters
  BY DEF Callers
<1>1. WaitAudioStartResult(future) \in Results
  BY DEF WaitAudioStartResult, FutureErr, Returned, Results, Futures, Audio
<1>2. TypeOK'
  BY <1>0, <1>1 DEF AfterWaitAudioStart, CanClaimAudio, AudioAvailable, Futures
<1>3. result'[a] = WaitAudioStartResult(future)
      /\ (\A d \in Callers \ {a} : result'[d] = result[d])
  BY <1>0
<1>4. \A d \in Callers \ {a} : Owns(d)' <=> Owns(d)
  BY <1>3 DEF Owns
<1>5. ~Owns(a)
  BY DEF Owns, Pending
<1>6. Owns(a)' <=> CanClaimAudio(future)
  BY <1>3 DEF Owns, WaitAudioStartResult, FutureErr, Returned, CanClaimAudio, AudioAvailable
<1>7. /\ future'.audioClaimed = (future.audioClaimed \/ CanClaimAudio(future))
      /\ future'.resolved = future.resolved /\ future'.err = future.err
      /\ future'.response = future.response
      /\ future'.responseDelivered = future.responseDelivered
      /\ future'.audioResolved = future.audioResolved
      /\ future'.audioStart = future.audioStart
  BY DEF AfterWaitAudioStart, CanClaimAudio, AudioAvailable, Futures
<1>8. Settled'
  BY <1>7 DEF Settled, CanClaimAudio, AudioAvailable
<1>9. Flags'
  BY <1>0, <1>3, <1>4, <1>6, <1>7 DEF Flags, Callers
<1>10. Holders'
  <2>1. ASSUME future'.audioClaimed PROVE \E b \in AudioWaiters : Owns(b)'
    <3>1. CASE CanClaimAudio(future)
      BY <1>6, <3>1
    <3>2. CASE future.audioClaimed
      <4>1. PICK b \in AudioWaiters : Owns(b)
        BY <3>2 DEF Holders
      <4>. QED
        BY <4>1, <1>4, <1>5 DEF Callers
    <3>. QED
      BY <1>7, <2>1, <3>1, <3>2
  <2>2. ASSUME future'.responseDelivered, future'.response.audio # "none"
        PROVE  \E w \in Waiters : Owns(w)'
    BY <1>0, <1>4, <1>7, <2>2 DEF Holders, Callers
  <2>. QED
    BY <2>1, <2>2 DEF Holders
<1>11. SingleOwner'
  <2>1. ASSUME Owns(a)' PROVE \A d \in Callers : ~Owns(d)
    BY <1>6, <2>1 DEF Flags, Callers, CanClaimAudio
  <2>. QED
    BY <2>1, <1>4 DEF SingleOwner
<1>12. DetachedSaysTransferred'
  BY <1>0, <1>3, <1>4, <1>7 DEF DetachedSaysTransferred, Callers
<1>. QED
  BY <1>2, <1>8, <1>9, <1>10, <1>11, <1>12

(* Every step preserves the invariant.                                      *)
LEMMA NextInv == IInv /\ [Next]_vars => IInv'
<1>. SUFFICES ASSUME IInv, [Next]_vars PROVE IInv'
  OBVIOUS
<1>1. CASE Publish
  BY <1>1, PublishPreserves
<1>2. CASE Settle
  BY <1>2, SettlePreserves
<1>3. ASSUME Cancel \/ UNCHANGED vars PROVE IInv'
  <2>1. future' = future /\ result' = result /\ cancelled' \in BOOLEAN
    BY <1>3 DEF Cancel, vars, IInv, TypeOK
  <2>. QED
    BY <2>1 DEF IInv, TypeOK, Settled, Flags, Holders, SingleOwner,
                DetachedSaysTransferred, Owns
<1>4. ASSUME NEW c \in Callers, ReturnCtxErr(c) PROVE IInv'
  BY <1>4, CtxErrPreserves
<1>5. ASSUME NEW w \in Waiters, Wait(w) PROVE IInv'
  BY <1>5, WaitPreserves
<1>6. ASSUME NEW a \in AudioWaiters, WaitAudioStart(a) PROVE IInv'
  BY <1>6, WaitAudioStartPreserves
<1>. QED
  BY <1>1, <1>2, <1>3, <1>4, <1>5, <1>6 DEF Next

-----------------------------------------------------------------------------
(* The theorems *)

(* The inductive invariant of the future.                                   *)
THEOREM FutureInvariant == Spec => []IInv
BY InitInv, NextInv, PTL DEF Spec

(* Type correctness of the future and of what its callers were given.       *)
THEOREM FutureTypeOK == Spec => []TypeOK
<1>1. IInv => TypeOK
  BY DEF IInv
<1>. QED
  BY <1>1, FutureInvariant, PTL

(* However many goroutines call Wait and WaitAudioStart, and in whatever    *)
(* order, at most one of the calls hands out the turn's audio.              *)
THEOREM FutureSingleOwner == Spec => []SingleOwner
<1>1. IInv => SingleOwner
  BY DEF IInv
<1>. QED
  BY <1>1, FutureInvariant, PTL

(* Audio is not lost: when every call has returned a response or a start    *)
(* and the turn has audio, one of them returned it.                         *)
THEOREM FutureDelivers == Spec => []AudioDelivered
<1>1. IInv => AudioDelivered
  <2>. SUFFICES ASSUME IInv, future.response.audio # "none", Waiters # {},
                       \A c \in Callers : result[c].kind = "ok"
                PROVE  \E c \in Callers : Owns(c)
    BY DEF AudioDelivered
  <2>1. future.responseDelivered \/ future.audioClaimed
    BY DEF IInv, Flags, Callers
  <2>. QED
    BY <2>1 DEF IInv, Holders, Callers
<1>. QED
  BY <1>1, FutureInvariant, PTL

(* A response without its stream says that the stream was transferred.      *)
THEOREM FutureSaysTransferred == Spec => []DetachedSaysTransferred
<1>1. IInv => DetachedSaysTransferred
  BY DEF IInv
<1>. QED
  BY <1>1, FutureInvariant, PTL

-----------------------------------------------------------------------------
(* The future implements the ownership contract *)

(* Every step of the future is a step of the contract.                      *)
LEMMA OwnershipStep == IInv /\ [Next]_vars => [Ownership!Next]_(Ownership!vars)
<1>. SUFFICES ASSUME IInv, [Next]_vars
              PROVE  Ownership!Next \/ UNCHANGED Ownership!vars
  OBVIOUS
<1>. DEFINE owners == {c \in Callers : Owns(c)}
<1>1. ASSUME result' = result, AudioAvailable(future) => AudioAvailable(future)'
      PROVE  Ownership!Next \/ UNCHANGED Ownership!vars
  <2>1. owners' = owners
    BY <1>1 DEF Owns
  <2>2. CASE AudioAvailable(future)' /\ ~AudioAvailable(future)
    BY <2>1, <2>2 DEF Ownership!Next, Ownership!Offer
  <2>3. CASE AudioAvailable(future)' <=> AudioAvailable(future)
    BY <2>1, <2>3 DEF Ownership!vars, AudioAvailable
  <2>. QED
    BY <1>1, <2>2, <2>3
<1>2. ASSUME NEW c \in Callers, future'.audioStart = future.audioStart,
             \A d \in Callers \ {c} : result'[d] = result[d],
             ~Owns(c),
             Owns(c)' => AudioAvailable(future) /\ \A d \in Callers : ~Owns(d)
      PROVE  Ownership!Next \/ UNCHANGED Ownership!vars
  <2>1. AudioAvailable(future)' = AudioAvailable(future)
    BY <1>2 DEF AudioAvailable
  <2>2. CASE Owns(c)'
    <3>1. owners = {} /\ owners' = {c}
      BY <1>2, <2>2 DEF Owns
    <3>2. Ownership!Take(c)
      BY <1>2, <2>1, <2>2, <3>1 DEF Ownership!Take
    <3>. QED
      BY <3>2 DEF Ownership!Next
  <2>3. CASE ~Owns(c)'
    <3>1. owners' = owners
      BY <1>2, <2>3 DEF Owns
    <3>. QED
      BY <2>1, <3>1 DEF Ownership!vars
  <2>. QED
    BY <2>2, <2>3
<1>3. CASE Publish
  <2>1. result' = result /\ (AudioAvailable(future) => AudioAvailable(future)')
    BY <1>3 DEF IInv, TypeOK, Futures, Publish, PublishAudioStart, AudioAvailable
  <2>. QED
    BY <1>1, <2>1
<1>4. CASE Settle
  <2>1. result' = result
    BY <1>4 DEF Settle
  <2>2. AudioAvailable(future) => AudioAvailable(future)'
    BY <1>4 DEF IInv, TypeOK, Futures, Settle, Resolve, AudioAvailable, Settled
  <2>. QED
    BY <1>1, <2>1, <2>2
<1>5. CASE Cancel \/ UNCHANGED vars
  BY <1>1, <1>5 DEF Cancel, vars
<1>6. ASSUME NEW c \in Callers, ReturnCtxErr(c)
      PROVE  Ownership!Next \/ UNCHANGED Ownership!vars
  <2>1. ~Owns(c) /\ ~Owns(c)'
    BY <1>6 DEF IInv, TypeOK, ReturnCtxErr, Owns, Pending, CtxErr
  <2>2. \A d \in Callers \ {c} : result'[d] = result[d]
    BY <1>6 DEF IInv, TypeOK, ReturnCtxErr
  <2>. QED
    BY <1>2, <1>6, <2>1, <2>2 DEF ReturnCtxErr
<1>7. ASSUME NEW w \in Waiters, Wait(w)
      PROVE  Ownership!Next \/ UNCHANGED Ownership!vars
  <2>1. w \in Callers /\ ~Owns(w)
    BY <1>7 DEF Callers, Wait, Owns, Pending
  <2>2. \A d \in Callers \ {w} : result'[d] = result[d]
    BY <1>7, <2>1 DEF IInv, TypeOK, Wait
  <2>3. future'.audioStart = future.audioStart
    BY <1>7 DEF IInv, TypeOK, Futures, Wait, AfterWait
  <2>4. Owns(w)' => AudioAvailable(future) /\ \A d \in Callers : ~Owns(d)
    <3>. SUFFICES ASSUME Owns(w)' PROVE AudioAvailable(future) /\ \A d \in Callers : ~Owns(d)
      OBVIOUS
    <3>1. /\ ~future.audioClaimed /\ ~future.responseDelivered
          /\ future.response.audio # "none"
      BY <1>7, <2>1 DEF IInv, TypeOK, Futures, Responses, Wait, Owns, WaitResult,
                        FutureErr, Returned, Detach, TurnResponseHasAudio
    <3>. QED
      BY <3>1 DEF IInv, Settled, Flags, AudioAvailable, Callers
  <2>. QED
    BY <1>2, <2>1, <2>2, <2>3, <2>4
<1>8. ASSUME NEW a \in AudioWaiters, WaitAudioStart(a)
      PROVE  Ownership!Next \/ UNCHANGED Ownership!vars
  <2>1. a \in Callers /\ ~Owns(a)
    BY <1>8 DEF Callers, WaitAudioStart, Owns, Pending
  <2>2. \A d \in Callers \ {a} : result'[d] = result[d]
    BY <1>8, <2>1 DEF IInv, TypeOK, WaitAudioStart
  <2>3. future'.audioStart = future.audioStart
    BY <1>8 DEF IInv, TypeOK, Futures, WaitAudioStart, AfterWaitAudioStart,
                CanClaimAudio, AudioAvailable
  <2>4. Owns(a)' => AudioAvailable(future) /\ \A d \in Callers : ~Owns(d)
    <3>. SUFFICES ASSUME Owns(a)' PROVE AudioAvailable(future) /\ \A d \in Callers : ~Owns(d)
      OBVIOUS
    <3>1. CanClaimAudio(future)
      BY <1>8, <2>1 DEF IInv, TypeOK, WaitAudioStart, Owns, WaitAudioStartResult,
                        FutureErr, Returned
    <3>. QED
      BY <3>1 DEF IInv, Flags, CanClaimAudio, Callers
  <2>. QED
    BY <1>2, <2>1, <2>2, <2>3, <2>4
<1>. QED
  BY <1>3, <1>4, <1>5, <1>6, <1>7, <1>8 DEF Next

(* The future implements the contract of contracts.go: the turn's audio is  *)
(* offered once and taken by one caller for good.                           *)
THEOREM FutureRefinesOwnership == Spec => OwnershipSpec
<1>1. Init => Ownership!Init
  <2>. SUFFICES ASSUME Init PROVE Ownership!Init
    OBVIOUS
  <2>1. AudioAvailable(future) = FALSE
    BY DEF Init, NewFuture, AudioAvailable
  <2>2. {c \in Callers : Owns(c)} = {}
    BY DEF Init, Owns, Pending
  <2>. QED
    BY <2>1, <2>2 DEF Ownership!Init
<1>. QED
  BY <1>1, OwnershipStep, FutureInvariant, PTL DEF Spec, OwnershipSpec, Ownership!Spec
=============================================================================
