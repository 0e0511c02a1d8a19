--------------------------- MODULE TurnPipelineProofs ---------------------------
(***************************************************************************)
(* One turn, for any number of deltas and any capacity of its channels.    *)
(*                                                                         *)
(* - The turn uses its future as the future's specification says           *)
(*   (PipelineUsesFuture), so the future's own theorems hold of it: the    *)
(*   stream of the turn has one owner (Handover), and the select loop      *)
(*   starts one playback for it (Conveying).                               *)
(* - The text stands in line: what was played, what is ready to play, what *)
(*   the worker holds, the clauses in the queue, the clause being queued   *)
(*   and what is pending, each part before those behind it (Staged).  As   *)
(*   long as nobody cuts the stream nothing leaves the line (Conserved),   *)
(*   and a playback under way is cut only by an error (Streaming): at the  *)
(*   end of the stream the line is empty but for what was played           *)
(*   (Completing).                                                         *)
(* - What was sent ends with the text of the deltas taken from deltaCh     *)
(*   (SentText), which are all but those still in it (Delivering).         *)
(*                                                                         *)
(* That a set of deltas has one order (Enumerated, IncreasingIsInOrder) is *)
(* shown on sets: a smallest set without one would be split by any of its  *)
(* deltas into two smaller sets that have one.                             *)
(***************************************************************************)
EXTENDS TurnPipeline, FiniteSetTheorems, SequenceTheorems, TLAPS

\* Text in order, and text before other text.
Increasing(s) == \A i, j \in 1 .. Len(s) : i < j => s[i] < s[j]
Precedes(A, B) == \A x \in A, y \in B : x < y

(* The members of a sequence.                                               *)
LEMMA SetOfSeq ==
    ASSUME NEW A, NEW s \in Seq(A), NEW x
    PROVE  x \in ToSet(s) <=> \E i \in 1 .. Len(s) : s[i] = x
BY DEF ToSet

(* What Append adds to the members.                                         *)
LEMMA SetOfAppend ==
    ASSUME NEW A, NEW s \in Seq(A), NEW a \in A
    PROVE  ToSet(Append(s, a)) = ToSet(s) \cup {a}
<1>. DEFINE t == Append(s, a)
<1>1. t \in Seq(A) /\ Len(t) = Len(s) + 1 /\ t[Len(s) + 1] = a
      /\ \A i \in 1 .. Len(s) : t[i] = s[i]
  OBVIOUS
<1>2. Len(s) \in Nat
  OBVIOUS
<1>. HIDE DEF t
<1>3. ASSUME NEW x PROVE x \in ToSet(t) <=> x \in ToSet(s) \cup {a}
  BY <1>1, <1>2, SetOfSeq
<1>. QED
  BY <1>3 DEF t

(* The members of a concatenation.                                          *)
LEMMA SetOfConcat ==
    ASSUME NEW A, NEW s \in Seq(A), NEW t \in Seq(A)
    PROVE  ToSet(s \o t) = ToSet(s) \cup ToSet(t)
<1>. DEFINE u == s \o t
<1>1. u \in Seq(A) /\ Len(u) = Len(s) + Len(t) /\ (\A i \in 1 .. Len(s) : u[i] = s[i])
      /\ \A i \in 1 .. Len(t) : u[Len(s) + i] = t[i]
  OBVIOUS
<1>2. Len(s) \in Nat /\ Len(t) \in Nat
  OBVIOUS
<1>. HIDE DEF u
<1>3. ASSUME NEW x, x \in ToSet(u) PROVE x \in ToSet(s) \cup ToSet(t)
  <2>1. PICK i \in 1 .. Len(u) : u[i] = x
    BY <1>1, <1>3, SetOfSeq
  <2>2. CASE i <= Len(s)
    BY <1>1, <1>2, <2>1, <2>2, SetOfSeq
  <2>3. CASE i > Len(s)
    <3>1. i - Len(s) \in 1 .. Len(t) /\ Len(s) + (i - Len(s)) = i
      BY <1>1, <1>2, <2>1, <2>3
    <3>2. t[i - Len(s)] = x
      BY <1>1, <2>1, <3>1
    <3>. QED
      BY <3>1, <3>2, SetOfSeq
  <2>. QED
    BY <1>2, <2>1, <2>2, <2>3
<1>4. ASSUME NEW x, x \in ToSet(s) PROVE x \in ToSet(u)
  BY <1>1, <1>2, <1>4, SetOfSeq
<1>5. ASSUME NEW x, x \in ToSet(t) PROVE x \in ToSet(u)
  <2>1. PICK i \in 1 .. Len(t) : t[i] = x
    BY <1>5, SetOfSeq
  <2>2. Len(s) + i \in 1 .. Len(u) /\ u[Len(s) + i] = x
    BY <1>1, <1>2, <2>1
  <2>. QED
    BY <1>1, <2>2, SetOfSeq
<1>. QED
  BY <1>3, <1>4, <1>5 DEF u

(* Head and Tail of a sequence that is not empty.                           *)
LEMMA SetOfTail ==
    ASSUME NEW A, NEW s \in Seq(A), s # <<>>
    PROVE  /\ Head(s) \in A /\ Tail(s) \in Seq(A) /\ Len(s) \in Nat /\ Len(s) >= 1
           /\ Head(s) = s[1] /\ Len(Tail(s)) = Len(s) - 1
           /\ \A i \in 1 .. Len(s) - 1 : Tail(s)[i] = s[i + 1]
OBVIOUS

(* No deltas, no text.                                                      *)
LEMMA InOrderEmpty == InOrder({}) = <<>>
<1>1. Cardinality({}) = 0
  BY FS_EmptySet
<1>2. 1 .. 0 = {}
  OBVIOUS
<1>. QED
  BY <1>1, <1>2 DEF InOrder

(* In an increasing sequence the k-th element has k - 1 members below it.   *)
LEMMA IncreasingCounts ==
    ASSUME NEW s \in Seq(Nat), Increasing(s), NEW k \in 1 .. Len(s) + 1,
           NEW T, T = {s[i] : i \in 1 .. k - 1}
    PROVE  Cardinality(T) = k - 1
<1>1. Len(s) \in Nat /\ k - 1 \in Nat
  OBVIOUS
<1>. DEFINE f == [i \in 1 .. k - 1 |-> s[i]]
<1>2. f \in [1 .. k - 1 -> T]
  OBVIOUS
<1>3. ASSUME NEW i \in 1 .. k - 1, NEW j \in 1 .. k - 1, f[i] = f[j] PROVE i = j
  <2>1. i \in 1 .. Len(s) /\ j \in 1 .. Len(s)
    BY <1>1
  <2>2. s[i] \in Nat /\ s[j] \in Nat /\ s[i] = s[j]
    BY <2>1, <1>3
  <2>. QED
    BY <2>1, <2>2 DEF Increasing
<1>4. \A t \in T : \E i \in 1 .. k - 1 : f[i] = t
  OBVIOUS
<1>. HIDE DEF f
<1>5. f \in Bijection(1 .. k - 1, T)
  BY <1>2, <1>3, <1>4 DEF Bijection, Injection, Surjection, IsInjective
<1>6. ExistsBijection(1 .. k - 1, T)
  BY <1>5 DEF ExistsBijection
<1>. QED
  BY <1>1, <1>6, FS_CountingElements

(* An increasing sequence is the order of its members: there is no other.   *)
LEMMA IncreasingIsInOrder ==
    ASSUME NEW s \in Seq(Nat), Increasing(s), NEW S, S = ToSet(s)
    PROVE  s = InOrder(S)
<1>0. Len(s) \in Nat /\ S = {s[i] : i \in 1 .. Len(s)} /\ (\A i \in 1 .. Len(s) : s[i] \in Nat)
  BY DEF ToSet
<1>1. Cardinality(S) = Len(s)
  <2>1. Len(s) + 1 \in 1 .. Len(s) + 1 /\ (Len(s) + 1) - 1 = Len(s)
    BY <1>0
  <2>. QED
    BY <1>0, <2>1, IncreasingCounts
<1>2. ASSUME NEW k \in 1 .. Len(s)
      PROVE  Cardinality({e \in S : e < s[k]}) = k - 1
  <2>. DEFINE L == {e \in S : e < s[k]}
              T == {s[i] : i \in 1 .. k - 1}
  <2>1. ASSUME NEW e \in L PROVE e \in T
    <3>1. PICK j \in 1 .. Len(s) : e = s[j]
      BY <1>0
    <3>n. s[j] \in Nat /\ s[k] \in Nat /\ s[j] < s[k]
      BY <1>0, <3>1
    <3>i. k < j => s[k] < s[j]
      BY <3>1 DEF Increasing
    <3>2. ~(k < j) /\ j # k
      BY <3>i, <3>n
    <3>3. j \in 1 .. k - 1
      BY <1>0, <3>1, <3>2
    <3>. QED
      BY <3>1, <3>3
  <2>2. ASSUME NEW e \in T PROVE e \in L
    <3>1. PICK i \in 1 .. k - 1 : e = s[i]
      OBVIOUS
    <3>2. i \in 1 .. Len(s) /\ i < k
      BY <1>0
    <3>. QED
      BY <1>0, <3>1, <3>2 DEF Increasing
  <2>3. L = T
    BY <2>1, <2>2
  <2>. HIDE DEF L
  <2>4. Cardinality(T) = k - 1
    <3>1. k \in 1 .. Len(s) + 1
      BY <1>0
    <3>2. T = {s[i] : i \in 1 .. k - 1}
      OBVIOUS
    <3>. HIDE DEF T
    <3>. QED
      BY <3>1, <3>2, IncreasingCounts
  <2>. QED
    BY <2>3, <2>4 DEF L
<1>3. ASSUME NEW k \in 1 .. Len(s)
      PROVE  (CHOOSE d \in S : Cardinality({e \in S : e < d}) = k - 1) = s[k]
  <2>1. s[k] \in S
    BY <1>0
  <2>2. ASSUME NEW d \in S, Cardinality({e \in S : e < d}) = k - 1
        PROVE  d = s[k]
    <3>1. PICK j \in 1 .. Len(s) : d = s[j]
      BY <1>0
    <3>2. j - 1 = k - 1
      BY <1>2, <2>2, <3>1
    <3>. QED
      BY <3>1, <3>2
  <2>. QED
    BY <1>2, <2>1, <2>2
<1>4. s = [k \in 1 .. Len(s) |-> s[k]]
  OBVIOUS
<1>5. InOrder(S) = [k \in 1 .. Len(s) |-> s[k]]
  BY <1>1, <1>3 DEF InOrder
<1>. QED
  BY <1>4, <1>5

(* The second part of a concatenation is a suffix of it.                    *)
LEMMA ConcatSuffix ==
    ASSUME NEW A, NEW s \in Seq(A), NEW t \in Seq(A)
    PROVE  IsSuffix(t, s \o t)
<1>. DEFINE u == s \o t
<1>1. u \in Seq(A) /\ Len(u) = Len(s) + Len(t)
      /\ \A i \in 1 .. Len(t) : u[Len(s) + i] = t[i]
  OBVIOUS
<1>2. Len(s) \in Nat /\ Len(t) \in Nat /\ Len(u) \in Nat
  BY <1>1
<1>. HIDE DEF u
<1>3. Reverse(t) \in Seq(A) /\ Len(Reverse(t)) = Len(t)
      /\ \A i \in 1 .. Len(t) : Reverse(t)[i] = t[(Len(t) - i) + 1]
  BY <1>2 DEF Reverse
<1>4. Reverse(u) \in Seq(A) /\ Len(Reverse(u)) = Len(u)
      /\ \A i \in 1 .. Len(u) : Reverse(u)[i] = u[(Len(u) - i) + 1]
  BY <1>1, <1>2 DEF Reverse
<1>5. ASSUME NEW i \in 1 .. Len(t) PROVE Reverse(t)[i] = Reverse(u)[i]
  <2>1. i \in 1 .. Len(u) /\ (Len(t) - i) + 1 \in 1 .. Len(t)
        /\ Len(s) + ((Len(t) - i) + 1) = (Len(u) - i) + 1
    BY <1>1, <1>2
  <2>. QED
    BY <1>1, <1>3, <1>4, <2>1
<1>6. SubSeq(Reverse(t), 1, Len(t)) = SubSeq(Reverse(u), 1, Len(t))
  <2>. DEFINE a == Reverse(t)  b == Reverse(u)
  <2>1. a \in Seq(A) /\ b \in Seq(A) /\ Len(a) = Len(t) /\ Len(b) = Len(u) /\ Len(t) <= Len(u)
        /\ \A i \in 1 .. Len(t) : a[i] = b[i]
    BY <1>1, <1>2, <1>3, <1>4, <1>5
  <2>. HIDE DEF a, b
  <2>2. SubSeq(a, 1, Len(t)) = SubSeq(b, 1, Len(t))
    BY <2>1, <1>2
  <2>. QED
    BY <2>2 DEF a, b
<1>. QED
  BY <1>1, <1>2, <1>3, <1>4, <1>6 DEF u, IsSuffix, IsPrefix

(* A set of deltas can be put in order.                                     *)
LEMMA Enumerated ==
    ASSUME NEW S \in SUBSET Nat, IsFiniteSet(S)
    PROVE  \E s \in Seq(S) : Increasing(s) /\ ToSet(s) = S
<1>. DEFINE Listed(A) == \E s \in Seq(A) : Increasing(s) /\ ToSet(s) = A
            Bad == {A \in SUBSET S : ~Listed(A)}
<1>1. ASSUME NEW A \in Bad, \A B \in SUBSET A : B # A => Listed(B)
      PROVE  FALSE
  <2>1. CASE A = {}
    <3>1. <<>> \in Seq(A) /\ Increasing(<<>>) /\ ToSet(<<>>) = A
      BY <2>1 DEF Increasing, ToSet
    <3>. QED
      BY <3>1
  <2>2. CASE A # {}
    <3>1. PICK x \in A : TRUE
      BY <2>2
    <3>. DEFINE L == {y \in A : y < x}
                H == {y \in A : y > x}
    <3>2. x \in Nat /\ A \subseteq Nat
      OBVIOUS
    <3>3. /\ L \in SUBSET A /\ L # A /\ H \in SUBSET A /\ H # A /\ A = L \cup {x} \cup H
          /\ \A y \in L : y \in Nat /\ y < x
          /\ \A y \in H : y \in Nat /\ y > x
      <4>1. x \notin L /\ x \notin H
        BY <3>2
      <4>2. ASSUME NEW y \in A PROVE y < x \/ y = x \/ y > x
        BY <3>2
      <4>3. A = L \cup {x} \cup H
        BY <3>1, <4>2
      <4>. QED
        BY <3>2, <4>1, <4>3
    <3>. HIDE DEF Listed, L, H
    <3>4. Listed(L) /\ Listed(H)
      BY <1>1, <3>3
    <3>5. PICK s \in Seq(L) : Increasing(s) /\ ToSet(s) = L
      BY <3>4 DEF Listed
    <3>6. PICK t \in Seq(H) : Increasing(t) /\ ToSet(t) = H
      BY <3>4 DEF Listed
    <3>. DEFINE v == s \o <<x>>
                u == v \o t
    <3>7. s \in Seq(A) /\ t \in Seq(A) /\ <<x>> \in Seq(A) /\ v \in Seq(A) /\ u \in Seq(A)
      BY <3>3, SeqMonotonic
    <3>8. ToSet(u) = A
      <4>1. ToSet(<<x>>) = {x}
        BY DEF ToSet
      <4>2. ToSet(v) = ToSet(s) \cup ToSet(<<x>>)
        BY <3>7, SetOfConcat
      <4>. HIDE DEF v
      <4>3. ToSet(u) = ToSet(v) \cup ToSet(t)
        BY <3>7, SetOfConcat
      <4>. QED
        BY <3>3, <3>5, <3>6, <4>1, <4>2, <4>3
    <3>9. Increasing(u)
      <4>1. /\ Len(s) \in Nat /\ Len(t) \in Nat /\ Len(u) = Len(s) + 1 + Len(t)
            /\ \A i \in 1 .. Len(s) : u[i] = s[i] /\ s[i] \in L
            /\ u[Len(s) + 1] = x
            /\ \A i \in 1 .. Len(t) : u[Len(s) + 1 + i] = t[i] /\ t[i] \in H
        BY <3>7
      <4>2. ASSUME NEW i \in 1 .. Len(u), i > Len(s) + 1
            PROVE  i - (Len(s) + 1) \in 1 .. Len(t) /\ u[i] = t[i - (Len(s) + 1)]
        <5>1. i - (Len(s) + 1) \in 1 .. Len(t) /\ Len(s) + 1 + (i - (Len(s) + 1)) = i
          BY <4>1, <4>2
        <5>. QED
          BY <4>1, <5>1
      <4>. HIDE DEF u
      <4>n. Len(s) \in Nat /\ Len(u) \in Nat /\ u[Len(s) + 1] = x
        BY <4>1
      <4>3. SUFFICES ASSUME NEW i \in 1 .. Len(u), NEW j \in 1 .. Len(u), i < j
                     PROVE  u[i] < u[j]
        BY DEF Increasing
      <4>4. CASE j <= Len(s)
        BY <3>5, <4>1, <4>3, <4>4 DEF Increasing
      <4>5. CASE j = Len(s) + 1
        <5>1. i \in 1 .. Len(s)
          BY <4>1, <4>3, <4>5
        <5>. QED
          BY <3>3, <4>1, <4>5, <5>1
      <4>6. CASE j > Len(s) + 1
        <5>1. u[j] \in H /\ j - (Len(s) + 1) \in 1 .. Len(t)
          BY <4>1, <4>2, <4>6
        <5>h. u[j] \in Nat /\ u[j] > x
          BY <3>3, <5>1
        <5>2. CASE i <= Len(s)
          <6>1. i \in 1 .. Len(s)
            BY <4>1, <5>2
          <6>2. u[i] \in L
            BY <4>1, <6>1
          <6>. QED
            <7>1. u[i] \in Nat /\ u[i] < x /\ u[j] \in Nat /\ u[j] > x
              BY <3>3, <5>1, <6>2
            <7>. QED
              BY <3>2, <7>1
        <5>3. CASE i = Len(s) + 1
          <6>1. u[i] = x
            BY <4>n, <5>3
          <6>. QED
            BY <3>2, <5>h, <6>1
        <5>4. CASE i > Len(s) + 1
          <6>1. i - (Len(s) + 1) \in 1 .. Len(t) /\ u[i] = t[i - (Len(s) + 1)]
                /\ u[j] = t[j - (Len(s) + 1)]
            BY <4>2, <4>6, <5>4
          <6>2. i - (Len(s) + 1) < j - (Len(s) + 1)
            BY <4>1, <4>3
          <6>. QED
            BY <3>6, <5>1, <6>1, <6>2 DEF Increasing
        <5>. QED
          BY <4>1, <5>2, <5>3, <5>4
      <4>. QED
        BY <4>n, <4>4, <4>5, <4>6
    <3>. HIDE DEF u
    <3>10. Listed(A)
      BY <3>7, <3>8, <3>9 DEF Listed
    <3>. QED
      BY <3>10
  <2>. QED
    BY <2>1, <2>2
<1>. HIDE DEF Listed
<1>2. Bad = {}
  <2>. SUFFICES ASSUME Bad # {} PROVE FALSE
    OBVIOUS
  <2>1. /\ Bad \subseteq FiniteSubsetsOf(S)
        /\ IsWellFoundedOn(StrictSubsetOrdering(S), FiniteSubsetsOf(S))
    BY FS_StrictSubsetOrderingWellFounded, FS_FiniteSubsetsOfFinite
  <2>2. PICK A \in Bad : \A B \in Bad : <<B, A>> \notin StrictSubsetOrdering(S)
    <3>. HIDE DEF Bad
    <3>. QED
      BY <2>1, WFMin
  <2>3. \A B \in SUBSET A : B # A => Listed(B)
    BY <2>2 DEF StrictSubsetOrdering
  <2>. QED
    BY <1>1, <2>3
<1>3. Listed(S)
  BY <1>2
<1>. QED
  BY <1>3 DEF Listed

(* The order of a set of deltas is one: a sequence of all of them.          *)
LEMMA InOrderLists ==
    ASSUME NEW S \in SUBSET Nat, IsFiniteSet(S)
    PROVE  InOrder(S) \in Seq(S) /\ Increasing(InOrder(S)) /\ ToSet(InOrder(S)) = S
<1>1. PICK s \in Seq(S) : Increasing(s) /\ ToSet(s) = S
  BY Enumerated
<1>2. s \in Seq(Nat)
  BY <1>1, SeqMonotonic
<1>3. s = InOrder(S)
  BY <1>1, <1>2, IncreasingIsInOrder
<1>. QED
  BY <1>1, <1>3

\* The future's own theorems, for the future of the turn.
FP == INSTANCE TurnResponseFutureProofs WITH
    Waiters <- {"wait"},
    AudioWaiters <- IF EarlyAudio THEN {"audio"} ELSE {},
    cancelled <- ctxDone

\* The gateway has met no error in this turn.
Good == gw.pc \in {"select", "ok", "interrupted"}

Got(c) == result[c].kind = "ok"

\* A stream of clauses belongs to a turn that speaks, any other to one that does not.
Fits(audio) == (audio = "early" => spoken # {}) /\ (audio = "final" => spoken = {})

\* The responder: where it is says what it holds.
Responding ==
    /\ exec.pc = "observe" => exec.next <= NumDeltas
    /\ exec.pc \notin {"enqueue", "flush"} => exec.clause = <<>>
    /\ exec.pc \in {"enqueue", "flush", "close"} => exec.pending = <<>>
    /\ exec.pc \in {"flush", "close"} => exec.next = NumDeltas + 1
    /\ exec.pc \in {"resolve", "done"} /\ ~exec.failed
         => exec.next = NumDeltas + 1 /\ exec.pending = <<>>
    /\ exec.failed => exec.pc \in {"abort", "resolve", "done"} /\ exec.audio = "none"
    /\ exec.pc = "abort" => exec.failed
    /\ exec.pc \notin {"resolve", "done"} => exec.audio = "none" /\ ~queueClosed
    /\ exec.pc = "resolve" /\ ~exec.failed /\ spoken # {} => exec.audio = "early"
    /\ start = "started" => spoken # {}

\* The future is resolved by the responder, and what is published before that is
\* the planner's stream.
Producing ==
    /\ future.resolved <=> exec.pc = "done"
    /\ future.resolved => (future.err <=> exec.failed)
    /\ ~future.resolved /\ future.audioStart # "none"
         => future.audioStart = "early" /\ start = "started"
    /\ Got("wait") => future.resolved /\ ~future.err
    /\ Fits(exec.audio) /\ Fits(future.audioStart) /\ Fits(future.response.audio)
    /\ \A c \in F!Callers : Fits(result[c].audio)
    /\ Fits(gw.audio) /\ Fits(playback.source)

\* What the select loop has seen, and the playback it has started for it.
Conveying ==
    /\ ~EarlyAudio => gw.gotAudio
    /\ gw.gotResponse /\ Good => Got("wait")
    /\ gw.gotAudio /\ EarlyAudio /\ Good => Got("audio")
    /\ gw.pc \in {"ok", "interrupted"} => gw.gotResponse /\ gw.gotAudio /\ gw.deltaNil
    /\ ~gw.gotAudio => gw.completion = "none"
    /\ gw.completion = "resolved" /\ Good => gw.gotResponse
    /\ gw.gotResponse /\ Good => gw.completion # "open"
    /\ gw.pc = "select" =>
         /\ gw.completion # "none" <=>
               EarlyAudio /\ gw.gotAudio /\ result["audio"].audio # "none"
         /\ gw.gotResponse /\ result["wait"].transferred => gw.transferred
         /\ gw.audio = IF gw.gotResponse /\ gw.completion = "none"
                       THEN result["wait"].audio ELSE "none"
    /\ gw.pc \in {"ok", "interrupted"} =>
         (gw.completion # "none" <=> \E c \in F!Callers : result[c].audio # "none")
    /\ playback.starts = IF gw.completion = "none" THEN 0 ELSE 1
    /\ gw.completion = "none" => playback.pc = "off" /\ playback.source = "none"
    /\ playback.pc \in {"await", "closed", "play"} => playback.source # "none"
    /\ playback.finished => playback.pc = "closed" /\ gw.completion = "resolved"

\* The stream of a playback under way is cut only by an error.
Streaming ==
    /\ gw.pc = "select" /\ playback.pc # "closed" => ~ctxDone
    /\ playback.pc \in {"play", "await"} /\ Good => ~ctxDone
    /\ streamClosed => playback.pc = "closed" \/ spoken = {} \/ exec.failed

\* The worker holds a clause while it puts it, and leaves when the queue is
\* closed and drained, or when it is told to.
Working ==
    /\ worker.pc # "put" => worker.clause = <<>>
    /\ resultsClosed <=> worker.pc = "done"
    /\ worker.pc = "done" => WorkerCtxDone \/ (queueClosed /\ queue = <<>>)

\* The text in the clauses of a channel.
InClauses(q) == UNION {ToSet(q[i]) : i \in 1 .. Len(q)}

\* The clauses of a channel are in the order of the text.
ClausesInOrder(q) ==
    /\ \A i \in 1 .. Len(q) : Increasing(q[i])
    /\ \A i, j \in 1 .. Len(q) : i < j => Precedes(ToSet(q[i]), ToSet(q[j]))

\* The text played (L), in the results (R), with the worker (W), in the queue (Q),
\* in the clause being queued (C) and pending (P) stands in line, each part ahead of
\* those behind it; it and the text skipped (K) are different deltas before n.
InLine(P, C, Q, W, R, L, K, n) ==
    /\ Precedes(C, P)
    /\ Precedes(Q, C \cup P)
    /\ Precedes(W, Q \cup C \cup P)
    /\ Precedes(R, W \cup Q \cup C \cup P)
    /\ Precedes(L, R \cup W \cup Q \cup C \cup P)
    /\ L \cup R \cup W \cup Q \cup C \cup P \cup K \subseteq {d \in spoken : d < n}
    /\ K \cap (L \cup R \cup W \cup Q \cup C \cup P) = {}

\* Each part is in order, and so is the line.
Staged ==
    /\ Increasing(exec.pending) /\ Increasing(exec.clause)
    /\ Increasing(worker.clause) /\ Increasing(played)
    /\ ClausesInOrder(queue) /\ ClausesInOrder(results)
    /\ InLine(ToSet(exec.pending), ToSet(exec.clause), InClauses(queue),
              ToSet(worker.clause), InClauses(results), ToSet(played), skipped, exec.next)

\* Nothing is lost as long as the stream is open.
Kept(P, C, Q, W, R, L, K, n) ==
    {d \in spoken : d < n} \subseteq L \cup R \cup W \cup Q \cup C \cup P \cup K
Conserved ==
    ~WorkerCtxDone =>
        Kept(ToSet(exec.pending), ToSet(exec.clause), InClauses(queue),
             ToSet(worker.clause), InClauses(results), ToSet(played), skipped, exec.next)

\* The end of the stream is the end of the text.
Completing ==
    playback.pc = "await" \/ playback.finished =>
        ~Good \/ exec.failed
        \/ (worker.pc = "done" /\ spoken \subseteq ToSet(played) \cup skipped)
        \/ spoken = {}

\* The deltas emitted so far; the last of them are in deltaCh.
Emitted == IF exec.pc = "observe" THEN exec.next ELSE exec.next - 1

\* What was sent ends with these deltas, in order.
Ends(s, S) ==
    \E k \in 0 .. Len(s) :
        LET t == SubSeq(s, k + 1, Len(s)) IN Increasing(t) /\ ToSet(t) = S

\* deltaCh holds the last deltas emitted, and the text of those before them has
\* been sent.
Delivering ==
    /\ Len(deltaCh) <= Emitted
    /\ \A i \in 1 .. Len(deltaCh) : deltaCh[i] = (Emitted - Len(deltaCh)) + i
    /\ deltaClosed => result["wait"] # F!Pending
    /\ gw.deltaNil => deltaClosed /\ deltaCh = <<>>
    /\ Good /\ ~gw.sentStart => Emitted = Len(deltaCh)
SentText == Good => Ends(sent, {d \in spoken : d <= Emitted - Len(deltaCh)})

IInv ==
    /\ TypeOK
    /\ FP!IInv
    /\ Responding /\ Producing /\ Conveying
    /\ Streaming /\ Working
    /\ Staged /\ Conserved /\ Completing
    /\ Delivering /\ SentText

-----------------------------------------------------------------------------
(* The turn and its future *)

(* The operators of the two instances of the future are the same.           *)
LEMMA SameFuture ==
    /\ F!Init <=> FP!Init
    /\ F!vars = FP!vars
    /\ F!Next <=> FP!Next
    /\ F!TypeOK <=> FP!TypeOK
<1>1. /\ F!Audio = FP!Audio /\ F!Responses = FP!Responses /\ F!Pending = FP!Pending
      /\ F!CtxErr = FP!CtxErr /\ F!FutureErr = FP!FutureErr /\ F!Results = FP!Results
      /\ F!NewFuture = FP!NewFuture /\ F!Futures = FP!Futures /\ F!Callers = FP!Callers
  BY DEF F!Audio, FP!Audio, F!Responses, FP!Responses, F!Pending, FP!Pending, F!CtxErr,
         FP!CtxErr, F!FutureErr, FP!FutureErr, F!Results, FP!Results, F!NewFuture,
         FP!NewFuture, F!Futures, FP!Futures, F!Callers, FP!Callers
<1>2. F!Publish <=> FP!Publish
  BY DEF F!Publish, FP!Publish, F!PublishAudioStart, FP!PublishAudioStart
<1>3. \A r, e : F!Resolve(future, r, e) = FP!Resolve(future, r, e)
  BY DEF F!Resolve, FP!Resolve
<1>4. F!Settle <=> FP!Settle
  BY <1>1, <1>3 DEF F!Settle, FP!Settle, F!AudioAvailable, FP!AudioAvailable
<1>5. F!Cancel <=> FP!Cancel
  BY DEF F!Cancel, FP!Cancel
<1>6. \A c : F!ReturnCtxErr(c) <=> FP!ReturnCtxErr(c)
  BY <1>1 DEF F!ReturnCtxErr, FP!ReturnCtxErr
<1>7. F!WaitResult(future) = FP!WaitResult(future) /\ F!AfterWait(future) = FP!AfterWait(future)
  BY <1>1 DEF F!WaitResult, FP!WaitResult, F!AfterWait, FP!AfterWait, F!Returned,
         FP!Returned, F!Detach, FP!Detach, F!TurnResponseHasAudio, FP!TurnResponseHasAudio
<1>8. \A w : F!Wait(w) <=> FP!Wait(w)
  BY <1>1, <1>7 DEF F!Wait, FP!Wait
<1>9. /\ F!WaitAudioStartResult(future) = FP!WaitAudioStartResult(future)
      /\ F!AfterWaitAudioStart(future) = FP!AfterWaitAudioStart(future)
  BY <1>1 DEF F!WaitAudioStartResult, FP!WaitAudioStartResult, F!AfterWaitAudioStart,
         FP!AfterWaitAudioStart, F!Returned, FP!Returned, F!CanClaimAudio,
         FP!CanClaimAudio, F!AudioAvailable, FP!AudioAvailable
<1>10. \A w : F!WaitAudioStart(w) <=> FP!WaitAudioStart(w)
  BY <1>1, <1>9 DEF F!WaitAudioStart, FP!WaitAudioStart
<1>11. F!Next <=> FP!Next
  BY <1>1, <1>2, <1>4, <1>5, <1>6, <1>8, <1>10 DEF F!Next, FP!Next
<1>. QED
  BY <1>1, <1>11 DEF F!Init, FP!Init, F!vars, FP!vars, F!TypeOK, FP!TypeOK

(* The calls of the future are of different kinds.                          *)
LEMMA Callers == {"wait"} \cap (IF EarlyAudio THEN {"audio"} ELSE {}) = {}
OBVIOUS

(* What the future's proof says of a step of the future.                    *)
LEMMA FutureKeeps == FP!IInv /\ [F!Next]_(F!vars) => FP!IInv'
<1>1. FP!IInv /\ [FP!Next]_(FP!vars) => FP!IInv'
  BY Callers, FP!NextInv
<1>2. [F!Next]_(F!vars) => [FP!Next]_(FP!vars)
  BY SameFuture DEF F!vars, FP!vars
<1>. QED
  BY <1>1, <1>2

(* A fresh future satisfies the future's invariant.                         *)
LEMMA FutureStarts == F!Init => FP!IInv
BY Callers, SameFuture, FP!InitInv

(* The invariant of the future gives its types.                             *)
LEMMA FutureTypes ==
    ASSUME FP!IInv
    PROVE  future \in F!Futures /\ result \in [F!Callers -> F!Results] /\ ctxDone \in BOOLEAN
BY SameFuture DEF FP!IInv, F!TypeOK

(* The callers are the waiter and, on a gateway that takes early audio, the *)
(* audio waiter.                                                            *)
LEMMA CallerNames ==
    /\ "wait" \in F!Callers
    /\ EarlyAudio => "audio" \in F!Callers
    /\ \A c \in F!Callers : c = "wait" \/ (EarlyAudio /\ c = "audio")
BY DEF F!Callers

(* A step that leaves the future and its callers alone, and may cancel the  *)
(* turn's context, is a step of the future's specification.                 *)
LEMMA CancelStep ==
    ASSUME UNCHANGED futureVars, ctxDone' = TRUE \/ ctxDone' = ctxDone
    PROVE  [F!Next]_(F!vars)
<1>1. CASE ctxDone' = TRUE
  BY <1>1 DEF F!Next, F!Cancel, futureVars
<1>2. CASE ctxDone' = ctxDone
  BY <1>2 DEF F!vars, futureVars
<1>. QED
  BY <1>1, <1>2

(* Every step of the turn is a step of its future or leaves it alone.       *)
LEMMA FutureStep ==
    ASSUME TypeOK, FP!IInv, Responding, Producing, [Next]_vars
    PROVE  [F!Next]_(F!vars)
<1>. USE BoundsAssumption
<1>1. CASE ExecStep
  <2>1. CASE ExecResolve
    <3>0. result' = result /\ ctxDone' = ctxDone
      BY <2>1 DEF ExecResolve
    <3>1. CASE exec.failed
      <4>1. exec.audio = "none"
        BY <3>1 DEF Responding
      <4>2. exec.failed = TRUE
        BY <3>1 DEF TypeOK
      <4>3. future' = F!Resolve(future, [audio |-> "none", transferred |-> FALSE], TRUE)
        BY <2>1, <4>1, <4>2 DEF ExecResolve
      <4>4. F!NewFuture.response = [audio |-> "none", transferred |-> FALSE]
        BY DEF F!NewFuture
      <4>. QED
        BY <3>0, <4>3, <4>4 DEF F!Next, F!Settle
    <3>2. CASE ~exec.failed
      <4>1. exec.failed = FALSE /\ exec.audio \in F!Audio
        BY <3>2 DEF TypeOK
      <4>2. F!AudioAvailable(future) => exec.audio = future.audioStart
        BY <2>1, <3>2 DEF ExecResolve, F!AudioAvailable, Responding, Producing
      <4>3. future' = F!Resolve(future, [audio |-> exec.audio, transferred |-> FALSE], FALSE)
        BY <2>1, <4>1 DEF ExecResolve
      <4>4. exec.audio \in IF F!AudioAvailable(future) THEN {future.audioStart} ELSE F!Audio
        BY <4>1, <4>2
      <4>. QED
        BY <3>0, <4>3, <4>4 DEF F!Next, F!Settle
    <3>. QED
      BY <3>1, <3>2
  <2>2. CASE ~ExecResolve
    BY <1>1, <2>2, CancelStep
       DEF ExecStep, ExecEmit, ExecPanic, ExecFail, ExecObserve, ExecEnqueue, ExecFinalize,
           ExecClose, ExecAbort, futureVars
  <2>. QED
    BY <2>1, <2>2
<1>2. CASE WorkerStep
  BY <1>2, CancelStep DEF WorkerStep, WorkerTake, WorkerPut, WorkerExit, futureVars
<1>3. CASE PublishStart
  <2>1. result' = result /\ ctxDone' = ctxDone
    BY <1>3 DEF PublishStart
  <2>2. future' = future \/ future' = F!PublishAudioStart(future, "early")
    BY <1>3 DEF PublishStart
  <2>. QED
    BY <2>1, <2>2 DEF F!Next, F!Publish, F!vars
<1>4. CASE WaiterStep
  <2>1. CASE WaiterCloses
    BY <2>1, CancelStep DEF WaiterCloses
  <2>2. CASE WaiterReturns
    BY <2>2, CallerNames DEF WaiterReturns, F!Next
  <2>. QED
    BY <1>4, <2>1, <2>2 DEF WaiterStep
<1>5. CASE AudioWaiterReturns
  BY <1>5, CallerNames DEF AudioWaiterReturns, F!Next
<1>6. CASE GatewayStep
  <2>1. UNCHANGED futureVars /\ (ctxDone' = ctxDone \/ ctxDone' = TRUE)
    <3>1. CASE GatewayReturns
      <4>1. ctxDone \in BOOLEAN /\ ctxDone' = (ctxDone \/ (gw.audio = "none" /\ ~gw.transferred))
        BY <3>1 DEF GatewayReturns, TypeOK
      <4>2. UNCHANGED futureVars
        BY <3>1 DEF GatewayReturns
      <4>3. ctxDone' = ctxDone \/ ctxDone' = TRUE
        BY Zenon, <4>1
      <4>. QED
        BY <4>2, <4>3
    <3>. QED
      BY <1>6, <3>1 DEF GatewayStep, GatewayDelta, GatewayDeltaClosed, GatewayAudio,
                        GatewayResponse, GatewayFails
  <2>. QED
    BY <2>1, CancelStep
<1>7. CASE GatewayInterrupts
  BY <1>7, CancelStep DEF GatewayInterrupts
<1>8. CASE PlaybackStep
  BY <1>8, CancelStep DEF PlaybackStep, PlayClause, PlayEOF, PlayComplete, PlayStops,
                          ClosePlayback
<1>9. CASE UNCHANGED vars
  BY <1>9, CancelStep DEF vars
<1>. QED
  BY <1>1, <1>2, <1>3, <1>4, <1>5, <1>6, <1>7, <1>8, <1>9 DEF Next

(* The same for the state after a step.                                     *)
LEMMA FutureTypesNext ==
    ASSUME FP!IInv'
    PROVE  future' \in F!Futures /\ result' \in [F!Callers -> F!Results] /\ ctxDone' \in BOOLEAN
<1>1. FP!Futures = F!Futures /\ FP!Results = F!Results /\ FP!Callers = F!Callers
  BY DEF F!Audio, FP!Audio, F!Responses, FP!Responses, F!Results, FP!Results,
         F!Futures, FP!Futures, F!Callers, FP!Callers
<1>2. FP!TypeOK'
  BY DEF FP!IInv
<1>3. FP!Callers' = FP!Callers
  BY DEF FP!Callers
<1>. QED
  BY <1>1, <1>2, <1>3 DEF FP!TypeOK, FP!Callers, FP!Futures, FP!Results, FP!Responses, FP!Audio

(* The response's text is its deltas in order.                              *)
LEMMA TextLists ==
    ASSUME spoken \subseteq Deltas
    PROVE  /\ ResponseText \in Seq(Deltas) /\ ResponseText \in Seq(Nat)
           /\ Increasing(ResponseText) /\ ToSet(ResponseText) = spoken
<1>1. spoken \in SUBSET Nat /\ \A d \in spoken : d <= NumDeltas
  BY BoundsAssumption DEF Deltas
<1>2. IsFiniteSet(spoken)
  BY <1>1, FS_BoundedSetOfNaturals, BoundsAssumption
<1>3. InOrder(spoken) \in Seq(spoken) /\ Increasing(InOrder(spoken))
      /\ ToSet(InOrder(spoken)) = spoken
  BY <1>1, <1>2, InOrderLists
<1>4. InOrder(spoken) \in Seq(Deltas) /\ InOrder(spoken) \in Seq(Nat)
  BY <1>1, <1>3, SeqMonotonic
<1>. QED
  BY <1>3, <1>4 DEF ResponseText

-----------------------------------------------------------------------------
(* What each goroutine leaves alone *)

(* The responder writes its own state, the planner's input, deltaCh and the future. *)
LEMMA ExecFrame ==
    ASSUME ExecStep
    PROVE  /\ spoken' = spoken /\ worker' = worker /\ resultsClosed' = resultsClosed
           /\ publisher' = publisher /\ ctxDone' = ctxDone /\ deltaClosed' = deltaClosed
           /\ result' = result /\ gw' = gw /\ sent' = sent /\ played' = played
           /\ skipped' = skipped /\ playback' = playback
BY DEF ExecStep, ExecEmit, ExecPanic, ExecFail, ExecObserve, ExecEnqueue, ExecFinalize,
       ExecClose, ExecAbort, ExecResolve, plannerVars, clientVars, futureVars

(* The worker writes the queue, the results and what it skips.              *)
LEMMA WorkerFrame ==
    ASSUME WorkerStep
    PROVE  /\ spoken' = spoken /\ exec' = exec /\ start' = start /\ queueClosed' = queueClosed
           /\ streamClosed' = streamClosed /\ publisher' = publisher /\ ctxDone' = ctxDone
           /\ deltaCh' = deltaCh /\ deltaClosed' = deltaClosed /\ future' = future
           /\ result' = result /\ gw' = gw /\ sent' = sent /\ played' = played
           /\ playback' = playback /\ panicked' = panicked
BY DEF WorkerStep, WorkerTake, WorkerPut, WorkerExit, clientVars, futureVars

\* The publisher and the two waiters.
FutureUser == PublishStart \/ WaiterStep \/ AudioWaiterReturns

(* They write the future, their own results and deltaClosed.                *)
LEMMA UserFrame ==
    ASSUME FutureUser
    PROVE  /\ spoken' = spoken /\ exec' = exec /\ start' = start /\ queue' = queue
           /\ queueClosed' = queueClosed /\ worker' = worker /\ results' = results
           /\ resultsClosed' = resultsClosed /\ streamClosed' = streamClosed
           /\ ctxDone' = ctxDone /\ deltaCh' = deltaCh /\ gw' = gw /\ sent' = sent
           /\ played' = played /\ skipped' = skipped /\ playback' = playback
           /\ panicked' = panicked
BY DEF FutureUser, PublishStart, WaiterStep, WaiterReturns, WaiterCloses, AudioWaiterReturns,
       F!Wait, F!ReturnCtxErr, F!WaitAudioStart, plannerVars, clientVars, futureVars

(* The select loop writes its own state, deltaCh, what is sent and the playback. *)
LEMMA GatewayFrame ==
    ASSUME GatewayStep \/ GatewayInterrupts
    PROVE  /\ spoken' = spoken /\ exec' = exec /\ start' = start /\ queue' = queue
           /\ queueClosed' = queueClosed /\ worker' = worker /\ results' = results
           /\ resultsClosed' = resultsClosed /\ streamClosed' = streamClosed
           /\ publisher' = publisher /\ deltaClosed' = deltaClosed /\ future' = future
           /\ result' = result /\ played' = played /\ skipped' = skipped
           /\ panicked' = panicked
BY DEF GatewayStep, GatewayInterrupts, GatewayDelta, GatewayDeltaClosed, GatewayAudio,
       GatewayResponse, GatewayReturns, plannerVars, clientVars, futureVars

(* The output goroutine takes results and closes the stream.                *)
LEMMA PlaybackFrame ==
    ASSUME PlaybackStep
    PROVE  /\ spoken' = spoken /\ exec' = exec /\ start' = start /\ queue' = queue
           /\ queueClosed' = queueClosed /\ worker' = worker
           /\ resultsClosed' = resultsClosed /\ publisher' = publisher /\ deltaCh' = deltaCh
           /\ deltaClosed' = deltaClosed /\ future' = future /\ result' = result
           /\ gw' = gw /\ sent' = sent /\ skipped' = skipped /\ panicked' = panicked
BY DEF PlaybackStep, PlayClause, PlayEOF, PlayComplete, PlayStops, plannerVars, clientVars,
       futureVars

(* A stuttering step changes nothing.                                       *)
LEMMA IdleFrame ==
    ASSUME UNCHANGED vars
    PROVE  /\ spoken' = spoken /\ exec' = exec /\ start' = start /\ queue' = queue
           /\ queueClosed' = queueClosed /\ worker' = worker /\ results' = results
           /\ resultsClosed' = resultsClosed /\ streamClosed' = streamClosed
           /\ publisher' = publisher /\ ctxDone' = ctxDone /\ deltaCh' = deltaCh
           /\ deltaClosed' = deltaClosed /\ future' = future /\ result' = result /\ gw' = gw
           /\ sent' = sent /\ played' = played /\ skipped' = skipped
           /\ playback' = playback /\ panicked' = panicked
BY DEF vars, plannerVars, clientVars, futureVars

(* A step is one of these goroutines'.                                      *)
LEMMA Steps ==
    ASSUME [Next]_vars
    PROVE  \/ ExecStep \/ WorkerStep \/ FutureUser \/ GatewayStep \/ GatewayInterrupts
           \/ PlaybackStep \/ UNCHANGED vars
BY DEF Next, FutureUser

-----------------------------------------------------------------------------
(* Types, by component *)

ExecTypes ==
    [pc : {"emit", "observe", "enqueue", "flush", "close", "abort", "resolve", "done"},
     next : 1 .. NumDeltas + 1, pending : Seq(Deltas), clause : Seq(Deltas),
     audio : F!Audio, failed : BOOLEAN]
GatewayTypes ==
    [pc : {"select", "ok", "failed", "interrupted", "terminated"},
     gotResponse : BOOLEAN, gotAudio : BOOLEAN, deltaNil : BOOLEAN,
     sentStart : BOOLEAN, transferred : BOOLEAN, audio : F!Audio,
     completion : {"none", "open", "resolved"}]
PlaybackTypes ==
    [pc : {"off", "play", "await", "closed"}, source : F!Audio,
     cancelled : BOOLEAN, starts : Nat, finished : BOOLEAN]

ExecOK    == exec \in ExecTypes
StartOK   == start \in {"unset", "started", "silent"}
QueueOK   == queue \in Seq(Seq(Deltas)) /\ Len(queue) <= QueueCap
WorkerOK  == worker \in [pc : {"take", "put", "done"}, clause : Seq(Deltas)]
ResultsOK == results \in Seq(Seq(Deltas)) /\ Len(results) <= ResultsCap
ClosedOK  == /\ queueClosed \in BOOLEAN /\ resultsClosed \in BOOLEAN
             /\ streamClosed \in BOOLEAN /\ deltaClosed \in BOOLEAN /\ panicked \in BOOLEAN
             /\ publisher \in {"wait", "done"}
DeltaOK   == deltaCh \in Seq(Deltas) /\ Len(deltaCh) <= DeltaCap
GatewayOK == gw \in GatewayTypes
SentOK    == sent \in Seq(Deltas \cup {ResponseStart})
PlayOK    == playback \in PlaybackTypes
TextOK    == spoken \subseteq Deltas /\ played \in Seq(Deltas) /\ skipped \subseteq Deltas
FutureOK  == future \in F!Futures /\ result \in [F!Callers -> F!Results] /\ ctxDone \in BOOLEAN

(* The type invariant, part by part.                                        *)
LEMMA TypeParts ==
    TypeOK <=> /\ ExecOK /\ StartOK /\ QueueOK /\ WorkerOK /\ ResultsOK /\ ClosedOK /\ DeltaOK
               /\ GatewayOK /\ SentOK /\ PlayOK /\ TextOK /\ FutureOK
BY DEF TypeOK, ExecOK, StartOK, QueueOK, WorkerOK, ResultsOK, ClosedOK, DeltaOK, GatewayOK,
       SentOK, PlayOK, TextOK, FutureOK, ExecTypes, GatewayTypes, PlaybackTypes

(* The types before the first delta.                                        *)
LEMMA InitTypes ==
    ASSUME Init
    PROVE  TypeOK
<1>. USE BoundsAssumption
<1>1. FP!IInv
  BY FutureStarts DEF F!Init, Init
<1>2. FutureOK
  BY <1>1, FutureTypes DEF FutureOK
<1>3. 1 \in 1 .. NumDeltas + 1 /\ <<>> \in Seq(Deltas) /\ "none" \in F!Audio
  BY DEF F!Audio
<1>4. ExecOK
  BY <1>3 DEF Init, ExecOK, ExecTypes
<1>5. GatewayOK /\ PlayOK
  BY <1>3 DEF Init, GatewayOK, GatewayTypes, PlayOK, PlaybackTypes
<1>6. StartOK /\ QueueOK /\ WorkerOK /\ ResultsOK /\ DeltaOK /\ SentOK /\ TextOK
  BY <1>3 DEF Init, StartOK, QueueOK, WorkerOK, ResultsOK, DeltaOK, SentOK, TextOK, ResultsCap
<1>7. ClosedOK
  BY DEF Init, ClosedOK
<1>. QED
  BY <1>2, <1>4, <1>5, <1>6, <1>7, TypeParts

(* The responder keeps the types of what it writes.                         *)
LEMMA ExecTypesKept ==
    ASSUME TypeOK, Responding, ExecStep
    PROVE  ExecOK' /\ StartOK' /\ QueueOK' /\ ResultsOK' /\ ClosedOK' /\ DeltaOK'
<1>. USE BoundsAssumption
<1>0. /\ NumDeltas \in Nat /\ Deltas = 1 .. NumDeltas
      /\ ExecOK /\ StartOK /\ QueueOK /\ ResultsOK /\ ClosedOK /\ DeltaOK
  BY TypeParts DEF Deltas
<1>f. /\ exec.pending \in Seq(Deltas) /\ exec.clause \in Seq(Deltas)
      /\ exec.next \in 1 .. NumDeltas + 1
  BY <1>0 DEF ExecOK, ExecTypes
<1>1. ASSUME NEW p \in {"emit", "observe", "enqueue", "flush", "close", "abort", "resolve", "done"},
             NEW n \in 1 .. NumDeltas + 1, NEW s \in Seq(Deltas), NEW t \in Seq(Deltas),
             NEW a \in F!Audio, NEW f \in BOOLEAN
      PROVE  [exec EXCEPT !.pc = p, !.next = n, !.pending = s, !.clause = t,
                          !.audio = a, !.failed = f] \in ExecTypes
  BY <1>0 DEF ExecOK, ExecTypes
<1>2. ExecOK'
  <2>1. CASE ExecObserve
    <3>1. exec.next \in Deltas /\ exec.next + 1 \in 1 .. NumDeltas + 1
      BY <1>0, <1>f, <2>1 DEF ExecObserve, Responding
    <3>. DEFINE text == IF exec.next \in spoken THEN Append(exec.pending, exec.next)
                                                ELSE exec.pending
    <3>2. text \in Seq(Deltas) /\ <<>> \in Seq(Deltas)
      BY <1>f, <3>1
    <3>3. \/ exec' = [exec EXCEPT !.pc = "emit", !.next = exec.next + 1, !.pending = text]
          \/ exec' = [exec EXCEPT !.pc = "enqueue", !.next = exec.next + 1, !.pending = <<>>,
                                  !.clause = text]
      BY <2>1 DEF ExecObserve
    <3>. HIDE DEF text
    <3>. QED
      BY <1>0, <3>1, <3>2, <3>3 DEF ExecOK, ExecTypes
  <2>2. CASE ExecClose
    <3>1. PICK audio \in FinalAudio : exec' = [exec EXCEPT !.pc = "resolve", !.audio = audio]
      BY <2>2 DEF ExecClose
    <3>2. audio \in F!Audio
      BY <3>1 DEF FinalAudio, F!Audio
    <3>. QED
      BY <1>0, <3>1, <3>2 DEF ExecOK, ExecTypes
  <2>3. CASE ExecFinalize
    <3>1. exec' = [exec EXCEPT !.pc = "close"]
          \/ exec' = [exec EXCEPT !.pc = "flush", !.clause = exec.pending, !.pending = <<>>]
      BY <2>3 DEF ExecFinalize
    <3>2. <<>> \in Seq(Deltas)
      OBVIOUS
    <3>. QED
      BY <1>0, <1>f, <3>1, <3>2 DEF ExecOK, ExecTypes
  <2>4. CASE ExecEnqueue
    <3>1. \E p \in {"emit", "close"} : exec' = [exec EXCEPT !.pc = p, !.clause = <<>>]
      BY <2>4 DEF ExecEnqueue
    <3>2. <<>> \in Seq(Deltas)
      OBVIOUS
    <3>. QED
      BY <1>0, <3>1, <3>2 DEF ExecOK, ExecTypes
  <2>5. CASE ExecEmit
    BY <1>0, <2>5 DEF ExecEmit, ExecOK, ExecTypes
  <2>6. CASE ExecPanic
    BY <1>0, <2>6 DEF ExecPanic, ExecOK, ExecTypes
  <2>7. CASE ExecFail
    BY <1>0, <2>7 DEF ExecFail, ExecOK, ExecTypes
  <2>8. CASE ExecAbort
    BY <1>0, <2>8 DEF ExecAbort, ExecOK, ExecTypes
  <2>9. CASE ExecResolve
    BY <1>0, <2>9 DEF ExecResolve, ExecOK, ExecTypes
  <2>. QED
    BY <2>1, <2>2, <2>3, <2>4, <2>5, <2>6, <2>7, <2>8, <2>9 DEF ExecStep
<1>3. StartOK'
  <2>1. start' = start \/ start' = ResolveStart("started") \/ start' = ResolveStart("silent")
    BY DEF ExecStep, ExecEmit, ExecPanic, ExecFail, ExecObserve, ExecEnqueue, ExecFinalize,
         ExecClose, ExecAbort, ExecResolve, plannerVars
  <2>. QED
    BY <1>0, <2>1 DEF StartOK, ResolveStart
<1>4. QueueOK'
  <2>1. queue' = queue \/ (Len(queue) < QueueCap /\ queue' = Append(queue, exec.clause))
    BY DEF HasRoom, ExecStep, ExecEmit, ExecPanic, ExecFail, ExecObserve, ExecEnqueue, ExecFinalize,
         ExecClose, ExecAbort, ExecResolve, plannerVars
  <2>2. ASSUME Len(queue) < QueueCap, queue' = Append(queue, exec.clause) PROVE QueueOK'
    <3>1. Append(queue, exec.clause) \in Seq(Seq(Deltas))
          /\ Len(Append(queue, exec.clause)) = Len(queue) + 1 /\ Len(queue) \in Nat
      BY <1>0, <1>f DEF QueueOK
    <3>. QED
      BY <2>2, <3>1 DEF QueueOK
  <2>. QED
    BY <1>0, <2>1, <2>2 DEF QueueOK
<1>5. ResultsOK'
  <2>1. results' = results \/ results' = <<>>
    BY DEF ExecStep, ExecEmit, ExecPanic, ExecFail, ExecObserve, ExecEnqueue, ExecFinalize,
         ExecClose, ExecAbort, ExecResolve, plannerVars
  <2>2. <<>> \in Seq(Seq(Deltas)) /\ Len(<<>>) <= 1
    OBVIOUS
  <2>. QED
    BY <1>0, <2>1, <2>2 DEF ResultsOK, ResultsCap
<1>6. ClosedOK'
  <2>1. /\ queueClosed' = queueClosed \/ queueClosed' = TRUE
        /\ streamClosed' = streamClosed \/ streamClosed' = TRUE
        /\ panicked' = panicked \/ panicked' = TRUE
    BY DEF ExecStep, ExecEmit, ExecPanic, ExecFail, ExecObserve, ExecEnqueue, ExecFinalize,
         ExecClose, ExecAbort, ExecResolve, plannerVars
  <2>2. publisher' = publisher /\ deltaClosed' = deltaClosed /\ resultsClosed' = resultsClosed
    BY ExecFrame
  <2>. QED
    BY <1>0, <2>1, <2>2 DEF ClosedOK
<1>7. DeltaOK'
  <2>1. deltaCh' = deltaCh \/ (/\ Len(deltaCh) < DeltaCap /\ exec.next <= NumDeltas
                               /\ deltaCh' = Append(deltaCh, exec.next))
    BY DEF ExecStep, ExecEmit, ExecPanic, ExecFail, ExecObserve, ExecEnqueue, ExecFinalize,
         ExecClose, ExecAbort, ExecResolve, plannerVars
  <2>2. exec.next <= NumDeltas => exec.next \in Deltas
    BY <1>0, <1>f
  <2>. QED
    BY <1>0, <2>1, <2>2 DEF DeltaOK
<1>. QED
  BY <1>2, <1>3, <1>4, <1>5, <1>6, <1>7

(* The worker keeps the types of what it writes.                            *)
LEMMA WorkerTypesKept ==
    ASSUME TypeOK, WorkerStep
    PROVE  QueueOK' /\ WorkerOK' /\ ResultsOK' /\ ClosedOK' /\ TextOK'
<1>. USE BoundsAssumption
<1>0. QueueOK /\ WorkerOK /\ ResultsOK /\ ClosedOK /\ TextOK
  BY TypeParts
<1>1. CASE WorkerTake
  <2>1. /\ Head(queue) \in Seq(Deltas) /\ Tail(queue) \in Seq(Seq(Deltas))
        /\ Len(Tail(queue)) <= QueueCap
    BY <1>0, <1>1 DEF WorkerTake, QueueOK
  <2>2. ToSet(Head(queue)) \subseteq Deltas
    BY <2>1, SetOfSeq
  <2>3. QueueOK'
    BY <1>1, <2>1 DEF WorkerTake, QueueOK
  <2>4. WorkerOK'
    BY <1>0, <1>1, <2>1 DEF WorkerTake, WorkerOK
  <2>5. ResultsOK' /\ ClosedOK' /\ TextOK'
    BY <1>0, <1>1, <2>2 DEF WorkerTake, ResultsOK, ClosedOK, TextOK, ResultsCap
  <2>. QED
    BY <2>3, <2>4, <2>5
<1>2. CASE WorkerPut
  <2>1. ResultsOK'
    BY <1>0, <1>2 DEF WorkerPut, ResultsOK, WorkerOK, ResultsCap
  <2>2. QueueOK' /\ WorkerOK' /\ ClosedOK' /\ TextOK'
    BY <1>0, <1>2 DEF WorkerPut, QueueOK, WorkerOK, ClosedOK, TextOK, clientVars
  <2>. QED
    BY <2>1, <2>2
<1>3. CASE WorkerExit
  BY <1>0, <1>3 DEF WorkerExit, QueueOK, WorkerOK, ClosedOK, TextOK, clientVars, ResultsOK,
                    ResultsCap
<1>. QED
  BY <1>1, <1>2, <1>3 DEF WorkerStep

(* The select loop keeps the types of what it writes.                       *)
LEMMA GatewayTypesKept ==
    ASSUME TypeOK, Conveying, GatewayStep \/ GatewayInterrupts
    PROVE  GatewayOK' /\ SentOK' /\ PlayOK' /\ DeltaOK'
<1>0. GatewayOK /\ SentOK /\ PlayOK /\ DeltaOK /\ FutureOK /\ TextOK
  BY TypeParts
<1>p. ASSUME NEW a \in F!Audio
      PROVE  [playback EXCEPT !.pc = "play", !.source = a, !.starts = @ + 1] \in PlaybackTypes
  <2>1. playback.starts + 1 \in Nat
    BY <1>0 DEF PlayOK, PlaybackTypes
  <2>. QED
    BY <1>0, <2>1 DEF PlayOK, PlaybackTypes
<1>s. StartEvent \in Seq(Deltas \cup {ResponseStart})
  <2>1. /\ <<>> \in Seq(Deltas \cup {ResponseStart})
        /\ <<ResponseStart>> \in Seq(Deltas \cup {ResponseStart})
    OBVIOUS
  <2>. QED
    BY <2>1 DEF StartEvent
<1>f. ASSUME NEW g \in GatewayTypes, GatewayFails(g)
      PROVE  gw' \in GatewayTypes /\ sent' = sent /\ playback' = playback
  BY <1>f DEF GatewayFails, GatewayTypes
<1>a. \A c \in F!Callers : result[c].audio \in F!Audio /\ result[c].transferred \in BOOLEAN
  BY <1>0 DEF FutureOK, F!Results
<1>1. CASE GatewayDelta
  <2>1. Head(deltaCh) \in Deltas /\ Tail(deltaCh) \in Seq(Deltas) /\ Len(Tail(deltaCh)) <= DeltaCap
    BY <1>0, <1>1, BoundsAssumption DEF GatewayDelta, DeltaOK
  <2>. DEFINE text == IF Head(deltaCh) \in spoken THEN <<Head(deltaCh)>> ELSE <<>>
              u == sent \o StartEvent
  <2>2. text \in Seq(Deltas \cup {ResponseStart})
    <3>1. /\ <<>> \in Seq(Deltas \cup {ResponseStart})
          /\ <<Head(deltaCh)>> \in Seq(Deltas \cup {ResponseStart})
      BY <2>1
    <3>. QED
      BY <3>1
  <2>3. u \in Seq(Deltas \cup {ResponseStart})
    BY <1>0, <1>s DEF SentOK
  <2>4. u \o text \in Seq(Deltas \cup {ResponseStart})
    <3>. HIDE DEF text, u
    <3>. QED
      BY <2>2, <2>3
  <2>5. \/ sent' = u \o text /\ gw' = [gw EXCEPT !.sentStart = TRUE] /\ playback' = playback
        \/ GatewayFails(gw)
    BY <1>1 DEF GatewayDelta
  <2>6. deltaCh' = Tail(deltaCh)
    BY <1>1 DEF GatewayDelta
  <2>. HIDE DEF text, u
  <2>7. GatewayOK' /\ SentOK' /\ PlayOK'
    BY <1>0, <1>f, <2>4, <2>5 DEF GatewayOK, SentOK, PlayOK, GatewayTypes
  <2>. QED
    BY <2>1, <2>6, <2>7 DEF DeltaOK
<1>2. CASE GatewayDeltaClosed
  BY <1>0, <1>2 DEF GatewayDeltaClosed, GatewayOK, GatewayTypes, SentOK, PlayOK, DeltaOK, clientVars
<1>3. CASE GatewayAudio
  <2>. DEFINE seen == [gw EXCEPT !.gotAudio = TRUE]
              a == result["audio"].audio
  <2>0. a \in F!Audio
    <3>1. EarlyAudio
      BY <1>3 DEF GatewayAudio, Conveying
    <3>. QED
      BY <1>a, <3>1, CallerNames
  <2>1. seen \in GatewayTypes
    BY <1>0 DEF GatewayOK, GatewayTypes
  <2>2. \/ GatewayFails(seen)
        \/ gw' = seen /\ sent' = sent /\ playback' = playback
        \/ /\ sent' = sent \o StartEvent
           /\ StartPlayback(a)
           /\ gw' = [seen EXCEPT !.sentStart = TRUE, !.audio = "none",
                            !.transferred = seen.transferred \/ gw.audio # "none",
                            !.completion = IF gw.gotResponse THEN "resolved" ELSE "open"]
    BY <1>3 DEF GatewayAudio
  <2>3. DeltaOK'
    BY <1>0, <1>3 DEF GatewayAudio, DeltaOK
  <2>. HIDE DEF a, seen
  <2>4. CASE GatewayFails(seen) \/ (gw' = seen /\ sent' = sent /\ playback' = playback)
    BY <1>0, <1>f, <2>1, <2>3, <2>4 DEF GatewayOK, SentOK, PlayOK
  <2>5. ASSUME sent' = sent \o StartEvent, StartPlayback(a),
               gw' = [seen EXCEPT !.sentStart = TRUE, !.audio = "none",
                            !.transferred = seen.transferred \/ gw.audio # "none",
                            !.completion = IF gw.gotResponse THEN "resolved" ELSE "open"]
        PROVE  GatewayOK' /\ SentOK' /\ PlayOK'
    <3>1. GatewayOK'
      <4>1. "none" \in F!Audio
        BY DEF F!Audio
      <4>2. PICK b \in BOOLEAN : b = (seen.transferred \/ gw.audio # "none")
        OBVIOUS
      <4>3. PICK c \in {"open", "resolved"} : c = IF gw.gotResponse THEN "resolved" ELSE "open"
        OBVIOUS
      <4>4. gw' = [seen EXCEPT !.sentStart = TRUE, !.audio = "none", !.transferred = b,
                               !.completion = c]
        BY <2>5, <4>2, <4>3
      <4>. QED
        BY <2>1, <4>1, <4>4 DEF GatewayOK, GatewayTypes
    <3>2. SentOK'
      BY <1>0, <1>s, <2>5 DEF SentOK
    <3>3. PlayOK'
      BY <1>p, <2>0, <2>5 DEF StartPlayback, PlayOK
    <3>. QED
      BY <3>1, <3>2, <3>3
  <2>. QED
    BY <2>2, <2>3, <2>4, <2>5
<1>4. CASE GatewayResponse
  <2>. DEFINE seen == [gw EXCEPT !.gotResponse = TRUE]
              r == result["wait"]
              fallback == IF gw.sentStart THEN <<>> ELSE <<ResponseStart>> \o ResponseText
  <2>0. r.audio \in F!Audio /\ r.transferred \in BOOLEAN
    BY <1>a, CallerNames
  <2>1. seen \in GatewayTypes
    BY <1>0 DEF GatewayOK, GatewayTypes
  <2>2. fallback \in Seq(Deltas \cup {ResponseStart})
    <3>1. ResponseText \in Seq(Deltas \cup {ResponseStart})
      BY <1>0, TextLists, SeqMonotonic DEF TextOK
    <3>2. <<ResponseStart>> \in Seq(Deltas \cup {ResponseStart})
      OBVIOUS
    <3>3. <<>> \in Seq(Deltas \cup {ResponseStart})
      OBVIOUS
    <3>4. <<ResponseStart>> \o ResponseText \in Seq(Deltas \cup {ResponseStart})
      BY <3>1, <3>2, ConcatProperties
    <3>. QED
      BY <3>3, <3>4
  <2>3. \/ GatewayFails(seen)
        \/ /\ sent' = sent \o fallback
           /\ playback' = playback
           /\ gw' = [seen EXCEPT
                    !.sentStart = TRUE,
                    !.audio = KeptAudio(r),
                    !.transferred = r.transferred \/ (gw.completion # "none" /\ r.audio # "none"),
                    !.completion = SettledCompletion(seen.completion)]
    BY <1>4 DEF GatewayResponse
  <2>4. DeltaOK'
    BY <1>0, <1>4 DEF GatewayResponse, DeltaOK
  <2>5. KeptAudio(r) \in F!Audio
    BY <2>0 DEF KeptAudio, F!Audio
  <2>6. SettledCompletion(seen.completion) \in {"none", "resolved"}
    BY DEF SettledCompletion
  <2>7. PICK b \in BOOLEAN : b = (r.transferred \/ (gw.completion # "none" /\ r.audio # "none"))
    BY <2>0
  <2>. HIDE DEF seen, r, fallback
  <2>8. CASE GatewayFails(seen)
    BY <1>0, <1>f, <2>1, <2>4, <2>8 DEF GatewayOK, SentOK, PlayOK
  <2>9. CASE ~GatewayFails(seen)
    <3>1. GatewayOK'
      BY <2>1, <2>3, <2>5, <2>6, <2>7, <2>9 DEF GatewayOK, GatewayTypes
    <3>2. SentOK'
      <4>1. sent \o fallback \in Seq(Deltas \cup {ResponseStart})
        BY <1>0, <2>2, ConcatProperties DEF SentOK
      <4>. QED
        BY <2>3, <2>9, <4>1 DEF SentOK
    <3>3. PlayOK'
      BY <1>0, <2>3, <2>9 DEF PlayOK
    <3>. QED
      BY <2>4, <3>1, <3>2, <3>3
  <2>. QED
    BY <2>8, <2>9
<1>5. CASE GatewayReturns
  <2>1. SentOK' /\ DeltaOK'
    BY <1>0, <1>5 DEF GatewayReturns, SentOK, DeltaOK, clientVars
  <2>2. gw.audio \in F!Audio
    BY <1>0 DEF GatewayOK, GatewayTypes
  <2>3. PlayOK'
    BY <1>0, <1>p, <1>5, <2>2 DEF GatewayReturns, StartPlayback, PlayOK
  <2>4. GatewayOK'
    BY <1>0, <1>5 DEF GatewayReturns, GatewayOK, GatewayTypes
  <2>. QED
    BY <2>1, <2>3, <2>4
<1>6. CASE GatewayInterrupts
  <2>1. SentOK' /\ DeltaOK'
    BY <1>0, <1>6 DEF GatewayInterrupts, SentOK, DeltaOK, clientVars
  <2>2. PlayOK'
    BY <1>0, <1>6 DEF GatewayInterrupts, PlayOK, PlaybackTypes
  <2>3. GatewayOK'
    BY <1>0, <1>6 DEF GatewayInterrupts, GatewayOK, GatewayTypes
  <2>. QED
    BY <2>1, <2>2, <2>3
<1>. QED
  BY <1>1, <1>2, <1>3, <1>4, <1>5, <1>6 DEF GatewayStep

(* The output goroutine keeps the types of what it writes.                  *)
LEMMA PlaybackTypesKept ==
    ASSUME TypeOK, PlaybackStep
    PROVE  PlayOK' /\ ResultsOK' /\ ClosedOK' /\ TextOK'
<1>0. PlayOK /\ ResultsOK /\ ClosedOK /\ TextOK
  BY TypeParts
<1>1. PlayOK'
  <2>1. \/ playback' = playback
        \/ playback' = [playback EXCEPT !.pc = "await"]
        \/ \E b \in BOOLEAN : playback' = [playback EXCEPT !.pc = "closed", !.finished = b]
    BY DEF PlaybackStep, PlayClause, PlayEOF, PlayComplete, PlayStops, ClosePlayback
  <2>. QED
    BY <1>0, <2>1 DEF PlayOK, PlaybackTypes
<1>2. ResultsOK'
  <2>1. \/ results' = results \/ results' = <<>>
        \/ results # <<>> /\ results' = Tail(results)
    BY DEF PlaybackStep, PlayClause, PlayEOF, PlayComplete, PlayStops, ClosePlayback,
           plannerVars, RestOfResults
  <2>2. <<>> \in Seq(Seq(Deltas)) /\ Len(<<>>) <= 1
    OBVIOUS
  <2>3. ASSUME results # <<>>
        PROVE  Tail(results) \in Seq(Seq(Deltas)) /\ Len(Tail(results)) <= 1
    BY <1>0, <2>3, SetOfTail DEF ResultsOK, ResultsCap
  <2>. QED
    BY <1>0, <2>1, <2>2, <2>3 DEF ResultsOK, ResultsCap
<1>3. ClosedOK'
  <2>1. streamClosed' = streamClosed \/ streamClosed' = TRUE
    BY DEF PlaybackStep, PlayClause, PlayEOF, PlayComplete, PlayStops, ClosePlayback,
           plannerVars
  <2>. QED
    BY <1>0, <2>1, PlaybackFrame DEF ClosedOK
<1>4. TextOK'
  <2>1. \/ played' = played \/ played' = ResponseText
        \/ results # <<>> /\ played' = played \o Head(results)
    BY DEF PlaybackStep, PlayClause, PlayEOF, PlayComplete, PlayStops, ClosePlayback,
           clientVars
  <2>2. results # <<>> => Head(results) \in Seq(Deltas)
    BY <1>0 DEF ResultsOK
  <2>3. played' \in Seq(Deltas)
    <3>1. results # <<>> => played \o Head(results) \in Seq(Deltas)
      BY <1>0, <2>2, ConcatProperties DEF TextOK
    <3>. QED
      BY <1>0, <2>1, <3>1, TextLists DEF TextOK
  <2>. QED
    BY <1>0, <2>3, PlaybackFrame DEF TextOK
<1>. QED
  BY <1>1, <1>2, <1>3, <1>4

(* A step of the turn keeps the types, given those of its future.           *)
LEMMA NextTypes ==
    ASSUME TypeOK, Responding, Conveying, FP!IInv', [Next]_vars
    PROVE  TypeOK'
<1>0. /\ ExecOK /\ StartOK /\ QueueOK /\ WorkerOK /\ ResultsOK /\ ClosedOK /\ DeltaOK
      /\ GatewayOK /\ SentOK /\ PlayOK /\ TextOK
  BY TypeParts
<1>f. FutureOK'
  BY FutureTypesNext DEF FutureOK, F!Futures, F!Callers, F!Results, F!Audio, F!Responses
<1>s. SUFFICES /\ ExecOK' /\ StartOK' /\ QueueOK' /\ WorkerOK' /\ ResultsOK' /\ ClosedOK'
               /\ DeltaOK' /\ GatewayOK' /\ SentOK' /\ PlayOK' /\ TextOK'
  <2>1. TypeOK' <=> /\ ExecOK' /\ StartOK' /\ QueueOK' /\ WorkerOK' /\ ResultsOK' /\ ClosedOK'
                    /\ DeltaOK' /\ GatewayOK' /\ SentOK' /\ PlayOK' /\ TextOK' /\ FutureOK'
    BY DEF TypeOK, ExecOK, StartOK, QueueOK, WorkerOK, ResultsOK, ClosedOK, DeltaOK, GatewayOK,
       SentOK, PlayOK, TextOK, FutureOK, ExecTypes, GatewayTypes, PlaybackTypes
  <2>. QED
    BY <1>f, <2>1
<1>1. CASE ExecStep
  BY <1>0, <1>1, ExecFrame, ExecTypesKept
     DEF WorkerOK, GatewayOK, SentOK, PlayOK, TextOK
<1>2. CASE WorkerStep
  BY <1>0, <1>2, WorkerFrame, WorkerTypesKept
     DEF ExecOK, StartOK, DeltaOK, GatewayOK, SentOK, PlayOK
<1>3. CASE FutureUser
  <2>1. publisher' \in {"wait", "done"} /\ deltaClosed' \in BOOLEAN
    BY <1>0, <1>3 DEF FutureUser, PublishStart, WaiterStep, WaiterReturns, WaiterCloses,
       AudioWaiterReturns, ClosedOK
  <2>. QED
    BY <1>0, <1>3, <2>1, UserFrame
       DEF ExecOK, StartOK, QueueOK, WorkerOK, ResultsOK, ClosedOK, DeltaOK, GatewayOK, SentOK,
           PlayOK, TextOK
<1>4. CASE GatewayStep \/ GatewayInterrupts
  BY <1>0, <1>4, GatewayFrame, GatewayTypesKept
     DEF ExecOK, StartOK, QueueOK, WorkerOK, ResultsOK, ClosedOK, TextOK
<1>5. CASE PlaybackStep
  BY <1>0, <1>5, PlaybackFrame, PlaybackTypesKept
     DEF ExecOK, StartOK, QueueOK, WorkerOK, DeltaOK, GatewayOK, SentOK
<1>6. CASE UNCHANGED vars
  BY <1>0, <1>6, IdleFrame
     DEF ExecOK, StartOK, QueueOK, WorkerOK, ResultsOK, ClosedOK, DeltaOK, GatewayOK, SentOK,
         PlayOK, TextOK
<1>. QED
  BY <1>1, <1>2, <1>3, <1>4, <1>5, <1>6, Steps

(* The responder's places, and the start it announces.                      *)
LEMMA NextResponding ==
    ASSUME TypeOK, Staged, Responding, [Next]_vars
    PROVE  Responding'
<1>. USE BoundsAssumption
<1>0. /\ ExecOK /\ NumDeltas \in Nat /\ exec.next \in 1 .. NumDeltas + 1
      /\ exec.failed \in BOOLEAN /\ queueClosed \in BOOLEAN
  BY TypeParts DEF ExecOK, ExecTypes, ClosedOK
<1>1. ASSUME UNCHANGED <<exec, start, queueClosed, spoken>> PROVE Responding'
  BY <1>1 DEF Responding
<1>2. CASE ExecStep
  <2>s. spoken' = spoken
    BY <1>2, ExecFrame
  <2>1. CASE ExecEmit
    <3>1. exec' = [exec EXCEPT !.pc = "observe"] /\ exec.pc = "emit" /\ exec.next <= NumDeltas
          /\ start' = start /\ queueClosed' = queueClosed
      BY <2>1 DEF ExecEmit, plannerVars
    <3>2. exec'.pc = "observe" /\ exec'.next = exec.next /\ exec'.pending = exec.pending
          /\ exec'.clause = exec.clause /\ exec'.failed = exec.failed /\ exec'.audio = exec.audio
      BY <1>0, <3>1 DEF ExecOK, ExecTypes
    <3>. QED
      BY <2>s, <3>1, <3>2 DEF Responding
  <2>2. CASE ExecPanic
    BY <1>1, <2>2, <2>s DEF ExecPanic, plannerVars
  <2>3. CASE ExecFail
    <3>1. exec' = [exec EXCEPT !.pc = "abort", !.failed = TRUE] /\ exec.pc = "emit"
          /\ start' = start /\ queueClosed' = queueClosed
      BY <2>3 DEF ExecFail, plannerVars
    <3>2. exec'.pc = "abort" /\ exec'.failed = TRUE /\ exec'.clause = exec.clause
          /\ exec'.audio = exec.audio
      BY <1>0, <3>1 DEF ExecOK, ExecTypes
    <3>. QED
      BY <2>s, <3>1, <3>2 DEF Responding
  <2>4. CASE ExecObserve
    <3>1. exec.pc = "observe" /\ queueClosed' = queueClosed
      BY <2>4 DEF ExecObserve
    <3>2. exec.failed = FALSE /\ exec.clause = <<>> /\ exec.audio = "none" /\ queueClosed = FALSE
      BY <1>0, <3>1 DEF Responding
    <3>3. \/ /\ exec'.pc = "emit" /\ exec'.clause = exec.clause /\ start' = start
          \/ /\ exec'.pc = "enqueue" /\ exec'.pending = <<>> /\ exec.next \in spoken
      BY <1>0, <2>4 DEF ExecObserve, ExecOK, ExecTypes
    <3>4. exec'.failed = exec.failed /\ exec'.audio = exec.audio
      BY <1>0, <2>4 DEF ExecObserve, ExecOK, ExecTypes
    <3>. QED
      BY <2>s, <3>1, <3>2, <3>3, <3>4 DEF Responding
  <2>5. CASE ExecEnqueue
    <3>1. exec.pc \in {"enqueue", "flush"} /\ queueClosed' = queueClosed /\ start' = start
      BY <2>5 DEF ExecEnqueue
    <3>2. exec.failed = FALSE /\ exec.audio = "none" /\ queueClosed = FALSE /\ exec.pending = <<>>
      BY <1>0, <3>1 DEF Responding
    <3>3. /\ exec'.pc = IF exec.pc = "enqueue" THEN "emit" ELSE "close"
          /\ exec'.clause = <<>> /\ exec'.pending = exec.pending /\ exec'.next = exec.next
          /\ exec'.failed = exec.failed /\ exec'.audio = exec.audio
      BY <1>0, <2>5 DEF ExecEnqueue, ExecOK, ExecTypes
    <3>. QED
      BY <2>s, <3>1, <3>2, <3>3 DEF Responding
  <2>6. CASE ExecFinalize
    <3>1. exec.pc = "emit" /\ queueClosed' = queueClosed /\ exec.next = NumDeltas + 1
      BY <2>6 DEF ExecFinalize
    <3>2. exec.failed = FALSE /\ exec.audio = "none" /\ queueClosed = FALSE /\ exec.clause = <<>>
      BY <1>0, <3>1 DEF Responding
    <3>3. /\ exec'.next = exec.next /\ exec'.failed = exec.failed /\ exec'.audio = exec.audio
          /\ exec'.pending = <<>>
      BY <1>0, <2>6 DEF ExecFinalize, ExecOK, ExecTypes
    <3>4. \/ exec'.pc = "close" /\ exec'.clause = exec.clause /\ start' = start
          \/ exec'.pc = "flush" /\ exec.pending # <<>>
      BY <1>0, <2>6 DEF ExecFinalize, ExecOK, ExecTypes
    <3>5. exec.pending # <<>> => spoken # {}
      <4>1. exec.pending \in Seq(Deltas)
        BY <1>0 DEF ExecOK, ExecTypes
      <4>2. exec.pending # <<>> => exec.pending[1] \in ToSet(exec.pending)
        BY <4>1 DEF ToSet
      <4>3. ToSet(exec.pending) \subseteq spoken
        BY DEF Staged, InLine
      <4>. QED
        BY <4>2, <4>3
    <3>. QED
      BY <2>s, <3>1, <3>2, <3>3, <3>4, <3>5 DEF Responding
  <2>7. CASE ExecClose
    <3>1. exec.pc = "close"
      BY <2>7 DEF ExecClose
    <3>2. exec.failed = FALSE /\ exec.clause = <<>> /\ exec.next = NumDeltas + 1
          /\ exec.pending = <<>>
      BY <1>0, <3>1 DEF Responding
    <3>3. /\ exec'.pc = "resolve" /\ exec'.failed = exec.failed /\ exec'.clause = exec.clause
          /\ exec'.pending = exec.pending /\ exec'.next = exec.next
          /\ exec'.audio \in FinalAudio
      BY <1>0, <2>7 DEF ExecClose, ExecOK, ExecTypes
    <3>4. start' = ResolveStart("silent")
      BY <2>7 DEF ExecClose
    <3>5. start' = "started" => start = "started"
      BY <3>4 DEF ResolveStart
    <3>. QED
      BY <2>s, <3>1, <3>2, <3>3, <3>5 DEF Responding, FinalAudio
  <2>8. CASE ExecAbort
    <3>1. exec.pc = "abort"
      BY <2>8 DEF ExecAbort
    <3>2. exec.failed = TRUE /\ exec.clause = <<>> /\ exec.audio = "none"
      BY <1>0, <3>1 DEF Responding
    <3>3. /\ exec'.pc = "resolve" /\ exec'.failed = exec.failed /\ exec'.clause = exec.clause
          /\ exec'.audio = exec.audio
      BY <1>0, <2>8 DEF ExecAbort, ExecOK, ExecTypes
    <3>4. start' = ResolveStart("silent")
      BY <2>8 DEF ExecAbort
    <3>5. start' = "started" => start = "started"
      BY <3>4 DEF ResolveStart
    <3>. QED
      BY <2>s, <3>2, <3>3, <3>5 DEF Responding
  <2>9. CASE ExecResolve
    <3>1. exec.pc = "resolve" /\ start' = start
      BY <2>9 DEF ExecResolve, plannerVars
    <3>3. /\ exec'.pc = "done" /\ exec'.failed = exec.failed /\ exec'.clause = exec.clause
          /\ exec'.audio = exec.audio /\ exec'.pending = exec.pending /\ exec'.next = exec.next
      BY <1>0, <2>9 DEF ExecResolve, ExecOK, ExecTypes
    <3>. QED
      BY <2>s, <3>1, <3>3 DEF Responding
  <2>. QED
    BY <1>2, <2>1, <2>2, <2>3, <2>4, <2>5, <2>6, <2>7, <2>8, <2>9 DEF ExecStep
<1>. QED
  BY <1>1, <1>2, Steps, WorkerFrame, UserFrame, GatewayFrame, PlaybackFrame, IdleFrame

-----------------------------------------------------------------------------
(* The future is fed by the responder and the publisher.                    *)

(* What the operations do to the fields of the future.                      *)
LEMMA FutureFields ==
    ASSUME future \in F!Futures
    PROVE  /\ LET f == F!PublishAudioStart(future, "early")
              IN  /\ f.resolved = future.resolved /\ f.err = future.err
                  /\ f.response = future.response
                  /\ f.audioStart = future.audioStart \/ f.audioStart = "early"
           /\ LET f == F!AfterWait(future)
              IN  /\ f.resolved = future.resolved /\ f.err = future.err
                  /\ f.response = future.response /\ f.audioStart = future.audioStart
           /\ LET f == F!AfterWaitAudioStart(future)
              IN  /\ f.resolved = future.resolved /\ f.err = future.err
                  /\ f.response = future.response /\ f.audioStart = future.audioStart
<1>1. LET f == F!PublishAudioStart(future, "early")
      IN  /\ f.resolved = future.resolved /\ f.err = future.err
          /\ f.response = future.response
          /\ f.audioStart = future.audioStart \/ f.audioStart = "early"
  BY DEF F!PublishAudioStart, F!Futures
<1>2. LET f == F!AfterWait(future)
      IN  /\ f.resolved = future.resolved /\ f.err = future.err
          /\ f.response = future.response /\ f.audioStart = future.audioStart
  BY DEF F!AfterWait, F!Futures
<1>3. LET f == F!AfterWaitAudioStart(future)
      IN  /\ f.resolved = future.resolved /\ f.err = future.err
          /\ f.response = future.response /\ f.audioStart = future.audioStart
  BY DEF F!AfterWaitAudioStart, F!CanClaimAudio, F!AudioAvailable, F!Futures
<1>. QED
  BY <1>1, <1>2, <1>3

(* What the calls of the two waiters return.                                *)
LEMMA Returns ==
    /\ F!CtxErr.kind = "ctx_err" /\ F!CtxErr.audio = "none"
    /\ F!Pending.kind = "pending" /\ F!Pending.audio = "none"
    /\ F!WaitResult(future).kind = "ok" => ~future.err
    /\ F!WaitResult(future).audio \in {"none", future.response.audio}
    /\ F!WaitAudioStartResult(future).audio \in {"none", future.audioStart}
<1>1. /\ F!CtxErr.kind = "ctx_err" /\ F!CtxErr.audio = "none"
      /\ F!Pending.kind = "pending" /\ F!Pending.audio = "none"
      /\ F!FutureErr.kind = "err" /\ F!FutureErr.audio = "none"
  BY DEF F!CtxErr, F!Pending, F!FutureErr
<1>2. \A r : F!Returned(r).audio = r.audio
  BY DEF F!Returned
<1>3. F!Detach(future.response).audio \in {"none", future.response.audio}
  BY DEF F!Detach
<1>4. F!WaitResult(future).kind = "ok" => ~future.err
  BY <1>1 DEF F!WaitResult
<1>5. F!WaitResult(future).audio \in {"none", future.response.audio}
  BY <1>1, <1>2, <1>3 DEF F!WaitResult
<1>6. F!WaitAudioStartResult(future).audio \in {"none", future.audioStart}
  BY <1>1 DEF F!WaitAudioStartResult, F!Returned
<1>. QED
  BY <1>1, <1>4, <1>5, <1>6

(* Only the responder resolves the future, and streams fit the turn.        *)
LEMMA NextProducing ==
    ASSUME TypeOK, FP!IInv, Responding, Producing, Conveying, [Next]_vars
    PROVE  Producing'
<1>0. /\ ExecOK /\ FutureOK /\ GatewayOK /\ PlayOK /\ exec.failed \in BOOLEAN
      /\ future.resolved \in BOOLEAN /\ future.err \in BOOLEAN
  BY TypeParts DEF ExecOK, ExecTypes, FutureOK, F!Futures
<1>c. F!Callers' = F!Callers
  BY DEF F!Callers
<1>1. CASE ExecStep
  <2>f. /\ spoken' = spoken /\ result' = result /\ gw' = gw /\ playback' = playback
    BY <1>1, ExecFrame
  <2>s. start = "started" => start' = "started"
    BY <1>1 DEF ExecStep, ExecEmit, ExecPanic, ExecFail, ExecObserve, ExecEnqueue,
                ExecFinalize, ExecClose, ExecAbort, ExecResolve, plannerVars, ResolveStart
  <2>1. CASE ExecResolve
    <3>1. /\ exec.pc = "resolve" /\ start' = start
          /\ future' = F!Resolve(future, [audio |-> exec.audio, transferred |-> FALSE], exec.failed)
      BY <2>1 DEF ExecResolve, plannerVars
    <3>2. exec'.pc = "done" /\ exec'.failed = exec.failed /\ exec'.audio = exec.audio
      BY <1>0, <2>1 DEF ExecResolve, ExecOK, ExecTypes
    <3>3. ~future.resolved
      BY <3>1 DEF Producing
    <3>4. /\ future'.resolved = TRUE /\ future'.err = exec.failed
          /\ future'.response.audio = exec.audio
          /\ future'.audioStart = future.audioStart \/ future'.audioStart = exec.audio
      <4>. DEFINE r == [audio |-> exec.audio, transferred |-> FALSE]
      <4>1. r.audio = exec.audio
        OBVIOUS
      <4>. HIDE DEF r
      <4>2. future' = F!Resolve(future, r, exec.failed)
        BY <3>1 DEF r
      <4>. QED
        BY <1>0, <3>3, <4>1, <4>2 DEF FutureOK, F!Resolve, F!Futures
    <3>5. Fits(exec.audio)' /\ Fits(future.audioStart)' /\ Fits(future.response.audio)'
      BY <2>f, <3>2, <3>4 DEF Producing, Fits
    <3>6. (\A c \in F!Callers : Fits(result[c].audio))' /\ Fits(gw.audio)' /\ Fits(playback.source)'
      BY <1>c, <2>f DEF Producing, Fits
    <3>. QED
      BY <2>f, <3>2, <3>3, <3>4, <3>5, <3>6 DEF Producing, Got
  <2>2. CASE ~ExecResolve
    <3>1. future' = future
      BY <1>1, <2>2 DEF ExecStep, ExecEmit, ExecPanic, ExecFail, ExecObserve, ExecEnqueue,
                ExecFinalize, ExecClose, ExecAbort, futureVars
    <3>2. /\ exec'.pc = "done" <=> exec.pc = "done"
          /\ exec.pc = "done" => exec' = exec
      BY <1>0, <1>1, <2>2 DEF ExecStep, ExecEmit, ExecPanic, ExecFail, ExecObserve, ExecEnqueue,
                ExecFinalize, ExecClose, ExecAbort, ExecOK, ExecTypes
    <3>3. exec'.audio = exec.audio \/ exec'.audio \in FinalAudio
      <4>1. CASE ExecClose
        BY <1>0, <4>1 DEF ExecClose, ExecOK, ExecTypes
      <4>2. CASE ExecObserve
        BY <1>0, <4>2 DEF ExecObserve, ExecOK, ExecTypes
      <4>3. CASE ExecEnqueue
        BY <1>0, <4>3 DEF ExecEnqueue, ExecOK, ExecTypes
      <4>4. CASE ExecFinalize
        BY <1>0, <4>4 DEF ExecFinalize, ExecOK, ExecTypes
      <4>5. CASE ExecEmit
        BY <1>0, <4>5 DEF ExecEmit, ExecOK, ExecTypes
      <4>6. CASE ExecPanic
        BY <4>6 DEF ExecPanic
      <4>7. CASE ExecFail
        BY <1>0, <4>7 DEF ExecFail, ExecOK, ExecTypes
      <4>8. CASE ExecAbort
        BY <1>0, <4>8 DEF ExecAbort, ExecOK, ExecTypes
      <4>. QED
        BY <1>1, <2>2, <4>1, <4>2, <4>3, <4>4, <4>5, <4>6, <4>7, <4>8 DEF ExecStep
    <3>4. Fits(exec.audio)'
      BY <2>f, <3>3 DEF Producing, Fits, FinalAudio
    <3>5. Fits(future.audioStart)' /\ Fits(future.response.audio)'
          /\ (\A c \in F!Callers : Fits(result[c].audio))'
          /\ Fits(gw.audio)' /\ Fits(playback.source)'
      BY <1>c, <2>f, <3>1 DEF Producing, Fits
    <3>. QED
      BY <2>f, <2>s, <3>1, <3>2, <3>4, <3>5 DEF Producing, Got
  <2>. QED
    BY <2>1, <2>2
<1>2. ASSUME UNCHANGED <<spoken, exec, start, future, result, gw, playback>> PROVE Producing'
  BY <1>2, <1>c DEF Producing, Fits, Got
<1>3. CASE FutureUser
  <2>f. /\ spoken' = spoken /\ exec' = exec /\ start' = start /\ gw' = gw /\ playback' = playback
    BY <1>3, UserFrame
  <2>1. CASE PublishStart
    <3>1. result' = result
      BY <2>1 DEF PublishStart
    <3>2. future' = future \/ (start = "started" /\ future' = F!PublishAudioStart(future, "early"))
      BY <2>1 DEF PublishStart
    <3>3. /\ future'.resolved = future.resolved /\ future'.err = future.err
          /\ future'.response = future.response
          /\ \/ future'.audioStart = future.audioStart
             \/ future'.audioStart = "early" /\ start = "started"
      BY <1>0, <3>2, FutureFields DEF FutureOK
    <3>4. Fits(future.audioStart)' /\ Fits(future.response.audio)'
      BY <2>f, <3>3 DEF Producing, Responding, Fits
    <3>5. Fits(exec.audio)'
          /\ (\A c \in F!Callers : Fits(result[c].audio))'
          /\ Fits(gw.audio)' /\ Fits(playback.source)'
      BY <1>c, <2>f, <3>1 DEF Producing, Fits
    <3>. QED
      BY <2>f, <3>1, <3>3, <3>4, <3>5 DEF Producing, Got
  <2>2. CASE WaiterCloses
    BY <1>2, <2>2, <2>f DEF WaiterCloses, futureVars
  <2>3. ASSUME NEW c \in F!Callers, NEW r,
               c = "wait" /\ r.kind = "ok" => future.resolved /\ ~future.err,
               r.audio \in {"none", future.audioStart, future.response.audio},
               result' = [result EXCEPT ![c] = r],
               future' \in {future, F!AfterWait(future), F!AfterWaitAudioStart(future)}
        PROVE  Producing'
    <3>1. /\ future'.resolved = future.resolved /\ future'.err = future.err
          /\ future'.response = future.response /\ future'.audioStart = future.audioStart
      BY <1>0, <2>3, FutureFields DEF FutureOK
    <3>2. result'[c] = r /\ \A d \in F!Callers : d # c => result'[d] = result[d]
      BY <1>0, <2>3 DEF FutureOK
    <3>3. (Got("wait") => future.resolved /\ ~future.err)'
      BY <2>3, <3>1, <3>2, CallerNames DEF Got, Producing
    <3>4. \A d \in F!Callers : Fits(result[d].audio)'
      BY <2>3, <2>f, <3>2 DEF Producing, Fits
    <3>5. Fits(exec.audio)' /\ Fits(gw.audio)' /\ Fits(playback.source)'
          /\ Fits(future.audioStart)' /\ Fits(future.response.audio)'
      BY <2>f, <3>1 DEF Producing, Fits
    <3>. QED
      BY <1>c, <2>f, <3>1, <3>3, <3>4, <3>5 DEF Producing
  <2>4. CASE WaiterReturns
    BY <2>3, <2>4, Returns, CallerNames DEF WaiterReturns, F!Wait, F!ReturnCtxErr
  <2>5. CASE AudioWaiterReturns
    BY <2>3, <2>5, Returns, CallerNames DEF AudioWaiterReturns, F!WaitAudioStart, F!ReturnCtxErr
  <2>. QED
    BY <1>3, <2>1, <2>2, <2>4, <2>5 DEF FutureUser, WaiterStep
<1>4. CASE GatewayStep \/ GatewayInterrupts
  <2>f. spoken' = spoken /\ exec' = exec /\ start' = start /\ future' = future /\ result' = result
    BY <1>4, GatewayFrame
  <2>1. \/ gw'.audio = gw.audio \/ gw'.audio = "none"
        \/ gw'.audio = result["wait"].audio
    BY <1>0, <1>4
       DEF GatewayStep, GatewayInterrupts, GatewayDelta, GatewayDeltaClosed, GatewayAudio,
           GatewayResponse, GatewayReturns, GatewayFails, KeptAudio, GatewayOK, GatewayTypes
  <2>2. \/ playback'.source = playback.source \/ playback'.source = gw.audio
        \/ (playback'.source = result["audio"].audio /\ EarlyAudio)
    BY <1>0, <1>4
       DEF GatewayStep, GatewayInterrupts, GatewayDelta, GatewayDeltaClosed, GatewayAudio,
           GatewayResponse, GatewayReturns, GatewayFails, StartPlayback, PlayOK, PlaybackTypes,
           Conveying
  <2>3. Fits(gw.audio)' /\ Fits(playback.source)'
    BY <2>f, <2>1, <2>2, CallerNames DEF Producing, Fits
  <2>4. Fits(exec.audio)' /\ Fits(future.audioStart)' /\ Fits(future.response.audio)'
        /\ \A c \in F!Callers : Fits(result[c].audio)'
    BY <2>f DEF Producing, Fits
  <2>. QED
    BY <1>c, <2>f, <2>3, <2>4 DEF Producing, Got
<1>5. CASE PlaybackStep
  <2>f. spoken' = spoken /\ exec' = exec /\ start' = start /\ future' = future /\ result' = result
        /\ gw' = gw
    BY <1>5, PlaybackFrame
  <2>1. playback'.source = playback.source
    BY <1>0, <1>5
       DEF PlaybackStep, PlayClause, PlayEOF, PlayComplete, PlayStops, ClosePlayback, PlayOK,
           PlaybackTypes
  <2>. QED
    BY <1>c, <2>f, <2>1 DEF Producing, Fits, Got
<1>. QED
  BY <1>1, <1>2, <1>3, <1>4, <1>5, Steps, WorkerFrame, IdleFrame

(* Who owns the turn's audio, once the waiter has its response.             *)
LEMMA Handover ==
    ASSUME FP!IInv, Producing, Got("wait")
    PROVE  /\ EarlyAudio /\ result["audio"].audio # "none"
                => result["wait"].audio = "none" /\ result["wait"].transferred
           /\ \A c \in F!Callers : result[c].audio # "none" => future.response.audio # "none"
           /\ future.response.audio # "none"
                => \E c \in F!Callers : result[c].audio # "none"
<1>0. /\ future.resolved /\ ~future.err
      /\ FP!Settled /\ FP!Flags /\ FP!Holders /\ FP!SingleOwner /\ FP!DetachedSaysTransferred
  BY DEF Producing, FP!IInv
<1>c. /\ FP!Callers = F!Callers /\ "wait" \in F!Callers
      /\ EarlyAudio => "audio" \in F!Callers
  BY CallerNames DEF FP!Callers, F!Callers
<1>1. ASSUME EarlyAudio, result["audio"].audio # "none"
      PROVE  future.response.audio # "none"
  BY <1>0, <1>1 DEF FP!Flags, FP!Settled, FP!Owns
<1>2. ASSUME EarlyAudio, result["audio"].audio # "none"
      PROVE  result["wait"].audio = "none" /\ result["wait"].transferred
  <2>1. result["wait"].audio = "none"
    BY <1>0, <1>c, <1>2 DEF FP!SingleOwner, FP!Owns
  <2>. QED
    BY <1>0, <1>1, <1>2, <2>1 DEF FP!DetachedSaysTransferred, FP!Owns, Got
<1>3. ASSUME NEW c \in F!Callers, result[c].audio # "none"
      PROVE  future.response.audio # "none"
  <2>1. CASE c = "wait"
    BY <1>0, <1>3, <2>1 DEF FP!Flags, FP!Owns
  <2>2. CASE EarlyAudio /\ c = "audio"
    BY <1>1, <1>3, <2>2
  <2>. QED
    BY <1>3, <2>1, <2>2, CallerNames
<1>4. ASSUME future.response.audio # "none"
      PROVE  \E c \in F!Callers : result[c].audio # "none"
  <2>1. future.responseDelivered \/ future.audioClaimed
    BY <1>0 DEF FP!Flags, Got
  <2>. QED
    BY <1>0, <1>4, <1>c, <2>1 DEF FP!Holders, FP!Owns, FP!Callers
<1>. QED
  BY <1>2, <1>3, <1>4

(* A caller that has returned returns nothing else.                         *)
LEMMA ReturnsOnce ==
    ASSUME TypeOK, FutureUser
    PROVE  \A c \in F!Callers : result[c] # F!Pending => result'[c] = result[c]
<1>0. FutureOK
  BY TypeParts
<1>1. \/ result' = result
      \/ \E c \in F!Callers : \E r : result[c] = F!Pending /\ result' = [result EXCEPT ![c] = r]
  BY CallerNames DEF FutureUser, PublishStart, WaiterStep, WaiterReturns, WaiterCloses,
                     AudioWaiterReturns, F!Wait, F!ReturnCtxErr, F!WaitAudioStart, futureVars
<1>. QED
  BY <1>0, <1>1 DEF FutureOK

(* The select loop starts one playback, for the stream it was given.        *)
LEMMA NextConveying ==
    ASSUME TypeOK, Conveying, [Next]_vars
    PROVE  Conveying'
<1>0. GatewayOK /\ PlayOK
  BY TypeParts
<1>c. F!Callers' = F!Callers /\ "wait" \in F!Callers
      /\ \A c \in F!Callers : c = "wait" \/ (EarlyAudio /\ c = "audio")
  BY CallerNames DEF F!Callers
<1>k. "audio" \in F!Callers <=> EarlyAudio
  BY DEF F!Callers
<1>1. ASSUME UNCHANGED <<gw, result, playback>> PROVE Conveying'
  BY <1>c, <1>1 DEF Conveying, Good, Got
<1>2. CASE FutureUser
  <2>1. gw' = gw /\ playback' = playback
    BY <1>2, UserFrame
  <2>2. \A c \in F!Callers : Got(c) => result'[c] = result[c]
    BY <1>2, ReturnsOnce, Returns DEF Got
  <2>3. gw.gotResponse /\ Good => Got("wait") /\ result'["wait"] = result["wait"]
    BY <1>c, <2>2 DEF Conveying
  <2>4. gw.gotAudio /\ EarlyAudio /\ Good => Got("audio") /\ result'["audio"] = result["audio"]
    BY <1>k, <2>2 DEF Conveying
  <2>5. gw.pc \in {"ok", "interrupted"} => \A c \in F!Callers : result'[c] = result[c]
    BY <1>c, <2>3, <2>4 DEF Conveying, Good
  <2>6. gw.pc = "select" =>
         /\ gw.completion # "none" <=>
               EarlyAudio /\ gw.gotAudio /\ result'["audio"].audio # "none"
         /\ gw.gotResponse /\ result'["wait"].transferred => gw.transferred
         /\ gw.audio = IF gw.gotResponse /\ gw.completion = "none"
                       THEN result'["wait"].audio ELSE "none"
    BY <2>3, <2>4 DEF Conveying, Good
  <2>7. /\ (gw.gotResponse /\ Good => Got("wait"))'
        /\ (gw.gotAudio /\ EarlyAudio /\ Good => Got("audio"))'
    BY <2>1, <2>3, <2>4 DEF Good, Got
  <2>8. Good' <=> Good
    BY <2>1 DEF Good
  <2>. QED
    BY <1>c, <2>1, <2>5, <2>6, <2>7, <2>8 DEF Conveying
<1>3. CASE PlaybackStep
  <2>1. gw' = gw /\ result' = result
    BY <1>3, PlaybackFrame
  <2>2. /\ playback'.starts = playback.starts /\ playback'.source = playback.source
        /\ \/ playback' = playback
           \/ /\ playback.pc = "play" /\ playback'.pc = "await"
              /\ playback'.finished = playback.finished
           \/ playback.pc \in {"play", "await"} /\ playback'.pc = "closed"
              /\ (playback'.finished => gw.completion = "resolved")
    BY <1>0, <1>3 DEF PlaybackStep, PlayClause, PlayEOF, PlayComplete, PlayStops, ClosePlayback,
                      PlayOK, PlaybackTypes
  <2>. QED
    BY <1>c, <2>1, <2>2 DEF Conveying, Good, Got
<1>4. CASE GatewayStep \/ GatewayInterrupts
  <2>1. result' = result
    BY <1>4, GatewayFrame
  <2>f. ASSUME NEW g \in GatewayTypes, gw.pc = "select", GatewayFails(g),
               g.completion = gw.completion, gw.gotAudio => g.gotAudio
        PROVE  Conveying'
    <3>1. /\ gw'.pc = "failed" /\ gw'.completion = gw.completion
          /\ gw'.gotAudio = g.gotAudio /\ playback' = playback
      BY <2>f DEF GatewayFails, GatewayTypes
    <3>. QED
      BY <1>c, <2>1, <2>f, <3>1 DEF Conveying, Good, Got
  <2>2. CASE GatewayDelta
    <3>1. CASE GatewayFails(gw)
      BY <1>0, <2>2, <2>f, <3>1 DEF GatewayDelta, GatewayOK
    <3>2. CASE ~GatewayFails(gw)
      <4>1. gw' = [gw EXCEPT !.sentStart = TRUE] /\ playback' = playback
        BY <2>2, <3>2 DEF GatewayDelta
      <4>2. /\ gw'.pc = gw.pc /\ gw'.gotResponse = gw.gotResponse /\ gw'.gotAudio = gw.gotAudio
            /\ gw'.deltaNil = gw.deltaNil /\ gw'.transferred = gw.transferred
            /\ gw'.audio = gw.audio /\ gw'.completion = gw.completion
        BY <1>0, <4>1 DEF GatewayOK, GatewayTypes
      <4>. QED
        BY <1>c, <2>1, <4>1, <4>2 DEF Conveying, Good, Got
    <3>. QED
      BY <3>1, <3>2
  <2>3. CASE GatewayDeltaClosed
    <3>1. gw' = [gw EXCEPT !.deltaNil = TRUE] /\ playback' = playback /\ gw.pc = "select"
      BY <2>3 DEF GatewayDeltaClosed
    <3>2. /\ gw'.pc = gw.pc /\ gw'.gotResponse = gw.gotResponse /\ gw'.gotAudio = gw.gotAudio
          /\ gw'.transferred = gw.transferred
          /\ gw'.audio = gw.audio /\ gw'.completion = gw.completion
      BY <1>0, <3>1 DEF GatewayOK, GatewayTypes
    <3>. QED
      BY <1>c, <2>1, <3>1, <3>2 DEF Conveying, Good, Got
  <2>4. CASE GatewayAudio
    <3>. DEFINE seen == [gw EXCEPT !.gotAudio = TRUE]
    <3>0. /\ gw.pc = "select" /\ ~gw.gotAudio
          /\ gw.completion = "none" /\ playback.pc = "off" /\ playback.starts = 0 /\ EarlyAudio
          /\ playback.finished = FALSE
      BY <1>0, <2>4 DEF GatewayAudio, Conveying, PlayOK, PlaybackTypes
    <3>1. /\ seen \in GatewayTypes /\ seen.completion = gw.completion /\ seen.gotAudio
          /\ seen.pc = gw.pc /\ seen.gotResponse = gw.gotResponse
          /\ seen.transferred = gw.transferred /\ seen.audio = gw.audio
      BY <1>0 DEF GatewayOK, GatewayTypes
    <3>2. CASE GatewayFails(seen)
      <4>. HIDE DEF seen
      <4>. QED
        BY <2>f, <3>0, <3>1, <3>2
    <3>3. CASE result["audio"].kind = "ok" /\ result["audio"].audio = "none" /\ gw' = seen
               /\ playback' = playback
      <4>. HIDE DEF seen
      <4>. QED
        BY <1>c, <2>1, <3>0, <3>1, <3>3 DEF Conveying, Good, Got
    <3>4. ASSUME result["audio"].kind = "ok", result["audio"].audio # "none",
                 StartPlayback(result["audio"].audio),
                 gw' = [seen EXCEPT !.sentStart = TRUE, !.audio = "none",
                            !.transferred = seen.transferred \/ gw.audio # "none",
                            !.completion = IF gw.gotResponse THEN "resolved" ELSE "open"]
          PROVE  Conveying'
      <4>1. /\ playback'.pc = "play" /\ playback'.source = result["audio"].audio
            /\ playback'.starts = 1 /\ playback'.finished = FALSE
        BY <1>0, <3>0, <3>4 DEF StartPlayback, PlayOK, PlaybackTypes
      <4>2. /\ gw'.pc = "select" /\ gw'.gotAudio /\ gw'.gotResponse = gw.gotResponse
            /\ gw'.audio = "none"
            /\ gw.transferred => gw'.transferred
            /\ gw'.completion = IF gw.gotResponse THEN "resolved" ELSE "open"
        <5>. HIDE DEF seen
        <5>. QED
          BY <3>0, <3>1, <3>4 DEF GatewayTypes
      <4>. QED
        BY <1>c, <2>1, <3>0, <3>4, <4>1, <4>2 DEF Conveying, Good, Got
    <3>. QED
      BY <2>4, <3>2, <3>3, <3>4 DEF GatewayAudio
  <2>5. CASE GatewayResponse
    <3>. DEFINE seen == [gw EXCEPT !.gotResponse = TRUE]
                r == result["wait"]
    <3>0. gw.pc = "select" /\ ~gw.gotResponse
      BY <2>5 DEF GatewayResponse
    <3>1. /\ seen \in GatewayTypes /\ seen.completion = gw.completion /\ seen.gotResponse
          /\ seen.pc = gw.pc /\ seen.gotAudio = gw.gotAudio /\ seen.deltaNil = gw.deltaNil
      BY <1>0 DEF GatewayOK, GatewayTypes
    <3>2. CASE GatewayFails(seen)
      <4>. HIDE DEF seen
      <4>. QED
        BY <2>f, <3>0, <3>1, <3>2
    <3>3. ASSUME r.kind = "ok", playback' = playback,
                 gw' = [seen EXCEPT
                    !.sentStart = TRUE,
                    !.audio = KeptAudio(r),
                    !.transferred = r.transferred \/ (gw.completion # "none" /\ r.audio # "none"),
                    !.completion = SettledCompletion(seen.completion)]
          PROVE  Conveying'
      <4>1. /\ gw'.pc = "select" /\ gw'.gotAudio = gw.gotAudio /\ gw'.gotResponse
            /\ gw'.deltaNil = gw.deltaNil
            /\ gw'.audio = KeptAudio(r)
            /\ r.transferred => gw'.transferred
            /\ gw'.completion = SettledCompletion(gw.completion)
        <5>. HIDE DEF seen, r
        <5>. QED
          BY <3>0, <3>1, <3>3 DEF GatewayTypes
      <4>. QED
        BY <1>c, <2>1, <3>0, <3>3, <4>1 DEF Conveying, Good, Got, KeptAudio, SettledCompletion
    <3>. QED
      BY <2>5, <3>2, <3>3 DEF GatewayResponse
  <2>6. CASE GatewayReturns
    <3>0. gw.pc = "select" /\ gw.gotResponse /\ gw.gotAudio /\ gw.deltaNil
      BY <2>6 DEF GatewayReturns, LoopDone
    <3>1. /\ gw'.pc = "ok" /\ gw'.gotResponse = gw.gotResponse /\ gw'.gotAudio = gw.gotAudio
          /\ gw'.deltaNil = gw.deltaNil
          /\ gw'.completion = IF gw.audio # "none" THEN "resolved" ELSE gw.completion
      BY <1>0, <2>6 DEF GatewayReturns, GatewayOK, GatewayTypes
    <3>2. CASE gw.audio # "none"
      <4>1. gw.completion = "none" /\ gw.audio = result["wait"].audio /\ playback.pc = "off"
            /\ playback.starts = 0 /\ playback.finished = FALSE
        BY <1>0, <3>0, <3>2 DEF Conveying, PlayOK, PlaybackTypes
      <4>2. /\ playback'.pc = "play" /\ playback'.source = gw.audio
            /\ playback'.starts = 1 /\ playback'.finished = FALSE
        <5>1. StartPlayback(gw.audio)
          BY <2>6, <3>2 DEF GatewayReturns
        <5>. QED
          BY <1>0, <4>1, <5>1 DEF StartPlayback, PlayOK, PlaybackTypes
      <4>. QED
        BY <1>c, <2>1, <3>0, <3>1, <3>2, <4>1, <4>2 DEF Conveying, Good, Got
    <3>3. CASE gw.audio = "none"
      <4>1. playback' = playback
        BY <2>6, <3>3 DEF GatewayReturns
      <4>2. gw.completion # "none" <=> \E c \in F!Callers : result[c].audio # "none"
        <5>1. gw.completion # "none" <=> EarlyAudio /\ result["audio"].audio # "none"
          BY <3>0 DEF Conveying
        <5>2. gw.completion = "none" => result["wait"].audio = "none"
          BY <3>0, <3>3 DEF Conveying
        <5>. QED
          BY <1>c, <1>k, <5>1, <5>2
      <4>. QED
        BY <1>c, <2>1, <3>0, <3>1, <3>3, <4>1, <4>2 DEF Conveying, Good, Got
    <3>. QED
      BY <3>2, <3>3
  <2>7. CASE GatewayInterrupts
    <3>1. /\ gw'.gotResponse = gw.gotResponse /\ gw'.gotAudio = gw.gotAudio
          /\ gw'.deltaNil = gw.deltaNil /\ gw'.completion = gw.completion
          /\ \/ gw.pc = "failed" /\ gw'.pc = "terminated"
             \/ gw.pc = "ok" /\ gw'.pc = "interrupted"
      BY <1>0, <2>7 DEF GatewayInterrupts, GatewayOK, GatewayTypes
    <3>2. /\ playback'.pc = playback.pc /\ playback'.source = playback.source
          /\ playback'.starts = playback.starts /\ playback'.finished = playback.finished
      BY <1>0, <2>7 DEF GatewayInterrupts, PlayOK, PlaybackTypes
    <3>. QED
      BY <1>c, <2>1, <3>1, <3>2 DEF Conveying, Good, Got
  <2>. QED
    BY <1>4, <2>2, <2>3, <2>4, <2>5, <2>6, <2>7 DEF GatewayStep
<1>. QED
  BY <1>1, <1>2, <1>3, <1>4, Steps, ExecFrame, WorkerFrame, IdleFrame

-----------------------------------------------------------------------------
(* The stream and the worker *)

(* A playback under way keeps its stream: the loop that returns cancels the *)
(* turn's context only when it has no stream to play and none was handed over. *)
LEMMA NextStreaming ==
    ASSUME TypeOK, FP!IInv, Responding, Producing, Conveying, Streaming, [Next]_vars
    PROVE  Streaming'
<1>0. GatewayOK /\ PlayOK /\ ExecOK /\ ctxDone \in BOOLEAN
  BY TypeParts DEF FutureOK
<1>1. ASSUME UNCHANGED <<gw, playback, ctxDone, streamClosed, spoken, exec>> PROVE Streaming'
  BY <1>1 DEF Streaming, Good
<1>2. CASE ExecStep
  <2>1. spoken' = spoken /\ gw' = gw /\ playback' = playback /\ ctxDone' = ctxDone
    BY <1>2, ExecFrame
  <2>2. exec.failed => exec'.failed
    BY <1>0, <1>2 DEF Responding, ExecStep, ExecEmit, ExecPanic, ExecFail, ExecObserve,
       ExecEnqueue, ExecFinalize, ExecClose, ExecAbort, ExecResolve, ExecOK, ExecTypes
  <2>3. \/ streamClosed' = streamClosed \/ spoken = {}
        \/ exec.failed
    BY <1>2 DEF Responding, ExecStep, ExecEmit, ExecPanic, ExecFail, ExecObserve,
       ExecEnqueue, ExecFinalize, ExecClose, ExecAbort, ExecResolve, plannerVars
  <2>. QED
    BY <2>1, <2>2, <2>3 DEF Streaming, Good
<1>3. CASE PlaybackStep
  <2>1. spoken' = spoken /\ gw' = gw /\ exec' = exec
    BY <1>3, PlaybackFrame
  <2>2. \/ /\ ctxDone' = ctxDone /\ streamClosed' = streamClosed
           /\ playback' = playback \/ (playback.pc = "play" /\ playback'.pc = "await")
        \/ playback'.pc = "closed"
    BY <1>0, <1>3 DEF PlaybackStep, PlayClause, PlayEOF, PlayComplete, PlayStops, ClosePlayback,
                      PlayOK, PlaybackTypes, plannerVars
  <2>. QED
    BY <2>1, <2>2 DEF Streaming, Good
<1>4. CASE GatewayStep \/ GatewayInterrupts
  <2>1. spoken' = spoken /\ exec' = exec /\ streamClosed' = streamClosed
    BY <1>4, GatewayFrame
  <2>2. CASE gw'.pc = "failed" /\ playback' = playback
    BY <2>1, <2>2 DEF Streaming, Good
  <2>3. CASE GatewayDelta \/ GatewayResponse \/ GatewayDeltaClosed
    <3>1. playback' = playback
      BY <2>3 DEF GatewayDelta, GatewayDeltaClosed, GatewayResponse, GatewayFails
    <3>2. \/ gw'.pc = "failed"
          \/ gw'.pc = gw.pc /\ ctxDone' = ctxDone
      BY <1>0, <2>3 DEF GatewayDelta, GatewayDeltaClosed, GatewayResponse, GatewayFails,
                        GatewayOK, GatewayTypes
    <3>. QED
      BY <2>1, <2>2, <3>1, <3>2 DEF Streaming, Good
  <2>4. CASE GatewayAudio
    <3>1. gw.pc = "select" /\ playback.pc = "off"
      BY <2>4 DEF GatewayAudio, Conveying
    <3>2. \/ gw'.pc = "failed" /\ playback' = playback
          \/ gw'.pc = gw.pc /\ ctxDone' = ctxDone
      BY <1>0, <2>4 DEF GatewayAudio, GatewayFails, GatewayOK, GatewayTypes
    <3>. QED
      BY <2>1, <2>2, <3>1, <3>2 DEF Streaming
  <2>5. CASE GatewayReturns
    <3>1. /\ gw.pc = "select" /\ gw.gotResponse /\ gw.gotAudio
          /\ ctxDone' = (ctxDone \/ (gw.audio = "none" /\ ~gw.transferred))
      BY <2>5 DEF GatewayReturns, LoopDone
    <3>2. gw'.pc = "ok"
      BY <1>0, <2>5 DEF GatewayReturns, GatewayOK, GatewayTypes
    <3>3. CASE gw.audio # "none"
      <4>1. playback.pc = "off"
        BY <3>1, <3>3 DEF Conveying
      <4>2. ctxDone' = FALSE
        BY <1>0, <3>1, <3>3, <4>1 DEF Streaming
      <4>. QED
        BY <2>1, <3>2, <4>1, <4>2 DEF Streaming
    <3>4. CASE gw.audio = "none"
      <4>1. playback' = playback
        BY <2>5, <3>4 DEF GatewayReturns
      <4>2. CASE gw.transferred
        <5>1. ctxDone' = ctxDone
          BY <1>0, <3>1, <4>2
        <5>. QED
          BY <2>1, <3>1, <3>2, <4>1, <5>1 DEF Streaming
      <4>3. CASE ~gw.transferred
        <5>1. Got("wait")
          BY <3>1 DEF Conveying, Good
        <5>2. gw.completion = "none"
          BY <3>1, <4>3, <5>1, Handover DEF Conveying
        <5>3. playback.pc = "off"
          BY <5>2 DEF Conveying
        <5>. QED
          BY <2>1, <3>1, <3>2, <4>1, <5>3 DEF Streaming
      <4>. QED
        BY <4>2, <4>3
    <3>. QED
      BY <3>3, <3>4
  <2>6. CASE GatewayInterrupts
    <3>1. ctxDone' = ctxDone
      BY <2>6 DEF GatewayInterrupts
    <3>2. \/ gw'.pc = "terminated"
          \/ gw.pc = "ok" /\ gw'.pc = "interrupted"
      BY <1>0, <2>6 DEF GatewayInterrupts, GatewayOK, GatewayTypes
    <3>3. playback'.pc = playback.pc
      BY <1>0, <2>6 DEF GatewayInterrupts, PlayOK, PlaybackTypes
    <3>. QED
      BY <2>1, <3>1, <3>2, <3>3 DEF Streaming, Good
  <2>. QED
    BY <1>4, <2>3, <2>4, <2>5, <2>6 DEF GatewayStep
<1>. QED
  BY <1>1, <1>2, <1>3, <1>4, Steps, WorkerFrame, UserFrame, IdleFrame

(* The worker leaves for one of two reasons, which stay true.               *)
LEMMA NextWorking ==
    ASSUME TypeOK, Responding, Working, [Next]_vars
    PROVE  Working'
<1>0. ctxDone \in BOOLEAN /\ streamClosed \in BOOLEAN
  BY TypeParts DEF FutureOK, ClosedOK
<1>1. ASSUME UNCHANGED <<worker, resultsClosed, queue, queueClosed>>,
             WorkerCtxDone => WorkerCtxDone'
      PROVE  Working'
  BY <1>1 DEF Working
<1>2. CASE ExecStep
  <2>1. worker' = worker /\ resultsClosed' = resultsClosed /\ ctxDone' = ctxDone
    BY <1>2, ExecFrame
  <2>2. streamClosed => streamClosed'
    BY <1>2 DEF ExecStep, ExecEmit, ExecPanic, ExecFail, ExecObserve,
       ExecEnqueue, ExecFinalize, ExecClose, ExecAbort, ExecResolve, plannerVars
  <2>3. queueClosed => queueClosed' /\ queue' = queue
    BY <1>2 DEF Responding, ExecStep, ExecEmit, ExecPanic, ExecFail, ExecObserve,
       ExecEnqueue, ExecFinalize, ExecClose, ExecAbort, ExecResolve, plannerVars
  <2>. QED
    BY <2>1, <2>2, <2>3 DEF Working, WorkerCtxDone
<1>3. CASE WorkerStep
  <2>1. queueClosed' = queueClosed /\ streamClosed' = streamClosed /\ ctxDone' = ctxDone
    BY <1>3, WorkerFrame
  <2>2. CASE WorkerTake
    BY <2>1, <2>2 DEF WorkerTake, Working
  <2>3. CASE WorkerPut
    BY <2>1, <2>3 DEF WorkerPut, Working
  <2>4. CASE WorkerExit
    BY <2>1, <2>4 DEF WorkerExit, Working, WorkerCtxDone
  <2>. QED
    BY <1>3, <2>2, <2>3, <2>4 DEF WorkerStep
<1>4. CASE GatewayStep \/ GatewayInterrupts
  <2>1. ctxDone => ctxDone'
    BY <1>4 DEF GatewayStep, GatewayInterrupts, GatewayDelta, GatewayDeltaClosed, GatewayAudio,
           GatewayResponse, GatewayReturns, GatewayFails
  <2>. QED
    BY <1>1, <1>4, <2>1, GatewayFrame DEF WorkerCtxDone
<1>5. CASE PlaybackStep
  <2>1. WorkerCtxDone => WorkerCtxDone'
    BY <1>5 DEF WorkerCtxDone, PlaybackStep, PlayClause, PlayEOF, PlayComplete, PlayStops,
                ClosePlayback, plannerVars
  <2>. QED
    BY <1>1, <1>5, <2>1, PlaybackFrame
<1>6. CASE FutureUser \/ UNCHANGED vars
  BY <1>1, <1>6, UserFrame, IdleFrame DEF WorkerCtxDone
<1>. QED
  BY <1>2, <1>3, <1>4, <1>5, <1>6, Steps

(* Sequences of text, and channels of clauses *)

(* The empty sequence.                                                      *)
LEMMA EmptyText == Increasing(<<>>) /\ ToSet(<<>>) = {}
BY DEF Increasing, ToSet

(* Text after earlier text is in order.                                     *)
LEMMA IncreasingConcat ==
    ASSUME NEW s \in Seq(Nat), NEW t \in Seq(Nat), Increasing(s), Increasing(t),
           Precedes(ToSet(s), ToSet(t))
    PROVE  Increasing(s \o t)
<1>. DEFINE u == s \o t
<1>1. /\ Len(u) = Len(s) + Len(t) /\ Len(s) \in Nat /\ Len(t) \in Nat
      /\ \A i \in 1 .. Len(s) : u[i] = s[i] /\ s[i] \in ToSet(s)
  BY DEF ToSet
<1>2. ASSUME NEW i \in 1 .. Len(u), i > Len(s)
      PROVE  i - Len(s) \in 1 .. Len(t) /\ u[i] = t[i - Len(s)] /\ t[i - Len(s)] \in ToSet(t)
  <2>1. i - Len(s) \in 1 .. Len(t)
    BY <1>1, <1>2
  <2>2. u[i] = t[i - Len(s)]
    BY <1>1, <1>2, <2>1
  <2>3. t[i - Len(s)] \in ToSet(t)
    BY <2>1 DEF ToSet
  <2>. QED
    BY <2>1, <2>2, <2>3
<1>. HIDE DEF u
<1>3. SUFFICES ASSUME NEW i \in 1 .. Len(u), NEW j \in 1 .. Len(u), i < j
               PROVE  u[i] < u[j]
  BY DEF Increasing, u
<1>4. CASE j <= Len(s)
  BY <1>1, <1>3, <1>4 DEF Increasing
<1>5. CASE i > Len(s)
  <2>1. j > Len(s)
    BY <1>1, <1>3, <1>5
  <2>2. i - Len(s) < j - Len(s)
    BY <1>1, <1>3
  <2>. QED
    BY <1>2, <1>5, <2>1, <2>2 DEF Increasing
<1>6. CASE i <= Len(s) /\ j > Len(s)
  <2>1. u[i] \in ToSet(s)
    BY <1>1, <1>6
  <2>2. u[j] \in ToSet(t)
    BY <1>2, <1>6
  <2>. QED
    BY <2>1, <2>2 DEF Precedes
<1>. QED
  BY <1>1, <1>4, <1>5, <1>6

(* A later delta goes to the end.                                           *)
LEMMA IncreasingAppend ==
    ASSUME NEW s \in Seq(Nat), NEW a \in Nat, Increasing(s), \A x \in ToSet(s) : x < a
    PROVE  Increasing(Append(s, a))
<1>1. <<a>> \in Seq(Nat) /\ Increasing(<<a>>) /\ ToSet(<<a>>) = {a}
  BY DEF Increasing, ToSet
<1>2. Precedes(ToSet(s), ToSet(<<a>>))
  BY <1>1 DEF Precedes
<1>3. Increasing(s \o <<a>>)
  BY <1>1, <1>2, IncreasingConcat
<1>. QED
  BY <1>3, AppendIsConcat

(* The empty channel.                                                       *)
LEMMA NoClauses == ClausesInOrder(<<>>) /\ InClauses(<<>>) = {}
BY DEF ClausesInOrder, InClauses

(* A later clause goes to the end of a channel.                             *)
LEMMA ClausesAppend ==
    ASSUME NEW q \in Seq(Seq(Nat)), NEW c \in Seq(Nat)
    PROVE  /\ InClauses(Append(q, c)) = InClauses(q) \cup ToSet(c)
           /\ /\ ClausesInOrder(q) /\ Increasing(c) /\ Precedes(InClauses(q), ToSet(c))
              => ClausesInOrder(Append(q, c))
<1>. DEFINE u == Append(q, c)
<1>1. /\ Len(u) = Len(q) + 1 /\ Len(q) \in Nat /\ u[Len(q) + 1] = c
      /\ \A i \in 1 .. Len(q) : u[i] = q[i]
  OBVIOUS
<1>. HIDE DEF u
<1>2. \A i \in 1 .. Len(u) : i \in 1 .. Len(q) \/ i = Len(q) + 1
  BY <1>1
<1>3. \A i \in 1 .. Len(q) : i \in 1 .. Len(u)
  BY <1>1
<1>4. Len(q) + 1 \in 1 .. Len(u)
  BY <1>1
<1>5. InClauses(u) = InClauses(q) \cup ToSet(c)
  <2>1. ASSUME NEW x \in InClauses(u) PROVE x \in InClauses(q) \cup ToSet(c)
    <3>1. PICK i \in 1 .. Len(u) : x \in ToSet(u[i])
      BY DEF InClauses
    <3>. QED
      BY <1>1, <1>2, <3>1 DEF InClauses
  <2>2. ASSUME NEW x \in InClauses(q) PROVE x \in InClauses(u)
    <3>1. PICK i \in 1 .. Len(q) : x \in ToSet(q[i])
      BY DEF InClauses
    <3>. QED
      BY <1>1, <1>3, <3>1 DEF InClauses
  <2>3. ASSUME NEW x \in ToSet(c) PROVE x \in InClauses(u)
    BY <1>1, <1>4, <2>3 DEF InClauses
  <2>. QED
    BY <2>1, <2>2, <2>3
<1>6. ASSUME ClausesInOrder(q), Increasing(c), Precedes(InClauses(q), ToSet(c))
      PROVE  ClausesInOrder(u)
  <2>1. ASSUME NEW i \in 1 .. Len(u) PROVE Increasing(u[i])
    BY <1>1, <1>2, <1>6 DEF ClausesInOrder
  <2>2. ASSUME NEW i \in 1 .. Len(u), NEW j \in 1 .. Len(u), i < j
        PROVE  Precedes(ToSet(u[i]), ToSet(u[j]))
    <3>1. i \in 1 .. Len(q)
      BY <1>1, <2>2
    <3>2. CASE j \in 1 .. Len(q)
      BY <1>1, <1>6, <2>2, <3>1, <3>2 DEF ClausesInOrder
    <3>3. CASE j = Len(q) + 1
      <4>1. \A x \in ToSet(u[i]) : x \in InClauses(q)
        BY <1>1, <3>1 DEF InClauses
      <4>. QED
        BY <1>1, <1>6, <3>3, <4>1 DEF Precedes
    <3>. QED
      BY <1>2, <3>2, <3>3
  <2>. QED
    BY <2>1, <2>2 DEF ClausesInOrder
<1>. QED
  BY <1>5, <1>6 DEF u

(* The first clause of a channel is the earliest.                           *)
LEMMA ClausesTail ==
    ASSUME NEW q \in Seq(Seq(Nat)), q # <<>>
    PROVE  /\ InClauses(q) = ToSet(Head(q)) \cup InClauses(Tail(q))
           /\ ClausesInOrder(q) =>
                /\ ClausesInOrder(Tail(q)) /\ Increasing(Head(q))
                /\ Precedes(ToSet(Head(q)), InClauses(Tail(q)))
<1>. DEFINE t == Tail(q)
            h == Head(q)
<1>1. /\ Len(t) = Len(q) - 1 /\ Len(q) \in Nat /\ Len(q) >= 1 /\ h = q[1]
      /\ \A i \in 1 .. Len(q) - 1 : t[i] = q[i + 1]
  BY SetOfTail
<1>. HIDE DEF t, h
<1>2. ASSUME NEW i \in 1 .. Len(t) PROVE i + 1 \in 1 .. Len(q) /\ t[i] = q[i + 1]
  BY <1>1
<1>3. 1 \in 1 .. Len(q)
  BY <1>1
<1>4. InClauses(q) = ToSet(h) \cup InClauses(t)
  <2>1. ASSUME NEW x \in InClauses(q) PROVE x \in ToSet(h) \cup InClauses(t)
    <3>1. PICK i \in 1 .. Len(q) : x \in ToSet(q[i])
      BY DEF InClauses
    <3>2. CASE i = 1
      BY <1>1, <3>1, <3>2
    <3>3. CASE i # 1
      <4>1. i - 1 \in 1 .. Len(t) /\ (i - 1) + 1 = i
        BY <1>1, <3>1, <3>3
      <4>2. t[i - 1] = q[i]
        BY <1>2, <4>1
      <4>. QED
        BY <3>1, <4>1, <4>2 DEF InClauses
    <3>. QED
      BY <3>2, <3>3
  <2>2. ASSUME NEW x \in ToSet(h) PROVE x \in InClauses(q)
    BY <1>1, <1>3, <2>2 DEF InClauses
  <2>3. ASSUME NEW x \in InClauses(t) PROVE x \in InClauses(q)
    <3>1. PICK i \in 1 .. Len(t) : x \in ToSet(t[i])
      BY DEF InClauses
    <3>. QED
      BY <1>2, <3>1 DEF InClauses
  <2>. QED
    BY <2>1, <2>2, <2>3
<1>5. ASSUME ClausesInOrder(q)
      PROVE  ClausesInOrder(t) /\ Increasing(h) /\ Precedes(ToSet(h), InClauses(t))
  <2>1. Increasing(h)
    BY <1>1, <1>3, <1>5 DEF ClausesInOrder
  <2>2. ASSUME NEW i \in 1 .. Len(t) PROVE Increasing(t[i])
    BY <1>2, <1>5 DEF ClausesInOrder
  <2>3. ASSUME NEW i \in 1 .. Len(t), NEW j \in 1 .. Len(t), i < j
        PROVE  Precedes(ToSet(t[i]), ToSet(t[j]))
    <3>1. i + 1 < j + 1
      BY <1>1, <2>3
    <3>. QED
      BY <1>2, <1>5, <3>1 DEF ClausesInOrder
  <2>4. ASSUME NEW x \in ToSet(h), NEW y \in InClauses(t) PROVE x < y
    <3>1. PICK i \in 1 .. Len(t) : y \in ToSet(t[i])
      BY DEF InClauses
    <3>2. 1 < i + 1
      BY <1>1, <3>1
    <3>3. Precedes(ToSet(h), ToSet(t[i]))
      BY <1>1, <1>2, <1>3, <1>5, <3>2 DEF ClausesInOrder
    <3>. QED
      BY <3>1, <3>3 DEF Precedes
  <2>. QED
    BY <2>1, <2>2, <2>3, <2>4 DEF ClausesInOrder, Precedes
<1>. QED
  BY <1>4, <1>5 DEF t, h

-----------------------------------------------------------------------------
(* The line: text may leave it, join it at its end, and move up *)

(* Text that is dropped leaves the rest in line.                            *)
LEMMA LineShrinks ==
    ASSUME NEW P, NEW C, NEW Q, NEW W, NEW R, NEW L, NEW K, NEW n,
           InLine(P, C, Q, W, R, L, K, n),
           NEW P1 \in SUBSET P, NEW C1 \in SUBSET C, NEW Q1 \in SUBSET Q,
           NEW W1 \in SUBSET W, NEW R1 \in SUBSET R
    PROVE  InLine(P1, C1, Q1, W1, R1, L, K, n)
BY DEF InLine, Precedes

(* ObserveDelta: the delta joins what is pending, as a clause or not.       *)
LEMMA LineGrows ==
    ASSUME spoken \subseteq Nat, NEW n \in Nat,
           NEW P, NEW Q, NEW W, NEW R, NEW L, NEW K,
           InLine(P, {}, Q, W, R, L, K, n),
           NEW T, T = P \cup ({n} \cap spoken)
    PROVE  /\ InLine(T, {}, Q, W, R, L, K, n + 1)
           /\ InLine({}, T, Q, W, R, L, K, n + 1)
           /\ Kept(P, {}, Q, W, R, L, K, n) =>
                Kept(T, {}, Q, W, R, L, K, n + 1) /\ Kept({}, T, Q, W, R, L, K, n + 1)
<1>1. \A x \in L \cup R \cup W \cup Q \cup P \cup K : x \in Nat /\ x < n /\ x \in spoken
  BY DEF InLine
<1>2. \A d \in spoken : d < n + 1 <=> d < n \/ d = n
  OBVIOUS
<1>3. InLine(T, {}, Q, W, R, L, K, n + 1)
  BY <1>1 DEF InLine, Precedes
<1>4. InLine({}, T, Q, W, R, L, K, n + 1)
  BY <1>1, <1>3 DEF InLine, Precedes
<1>5. ASSUME Kept(P, {}, Q, W, R, L, K, n)
      PROVE  Kept(T, {}, Q, W, R, L, K, n + 1) /\ Kept({}, T, Q, W, R, L, K, n + 1)
  BY <1>2, <1>5 DEF Kept
<1>. QED
  BY <1>3, <1>4, <1>5

(* Finalize: what is pending becomes the last clause.                       *)
LEMMA LineFlushes ==
    ASSUME NEW P, NEW Q, NEW W, NEW R, NEW L, NEW K, NEW n,
           InLine(P, {}, Q, W, R, L, K, n)
    PROVE  /\ InLine({}, P, Q, W, R, L, K, n)
           /\ Kept(P, {}, Q, W, R, L, K, n) => Kept({}, P, Q, W, R, L, K, n)
BY DEF InLine, Precedes, Kept

(* enqueueClause: the clause joins the queue.                               *)
LEMMA LineQueues ==
    ASSUME NEW C, NEW Q, NEW W, NEW R, NEW L, NEW K, NEW n,
           InLine({}, C, Q, W, R, L, K, n), NEW T, T = Q \cup C
    PROVE  /\ Precedes(Q, C)
           /\ InLine({}, {}, T, W, R, L, K, n)
           /\ Kept({}, C, Q, W, R, L, K, n) => Kept({}, {}, T, W, R, L, K, n)
BY DEF InLine, Precedes, Kept

(* The worker takes the first clause of the queue, or skips it.             *)
LEMMA LineTakes ==
    ASSUME NEW P, NEW C, NEW H, NEW T, NEW R, NEW L, NEW K, NEW n, NEW Q, Q = H \cup T,
           spoken \subseteq Nat, Precedes(H, T),
           InLine(P, C, Q, {}, R, L, K, n)
    PROVE  /\ InLine(P, C, T, H, R, L, K, n)
           /\ InLine(P, C, T, {}, R, L, K \cup H, n)
           /\ Kept(P, C, Q, {}, R, L, K, n) =>
                Kept(P, C, T, H, R, L, K, n) /\ Kept(P, C, T, {}, R, L, K \cup H, n)
<1>1. InLine(P, C, T, H, R, L, K, n)
  BY DEF InLine, Precedes
<1>2. H \cap (L \cup R \cup T \cup C \cup P) = {}
  <2>1. \A x \in H : x \in Nat
    BY DEF InLine
  <2>. QED
    BY <2>1 DEF InLine, Precedes
<1>3. InLine(P, C, T, {}, R, L, K \cup H, n)
  BY <1>1, <1>2 DEF InLine, Precedes
<1>4. Kept(P, C, Q, {}, R, L, K, n) =>
                Kept(P, C, T, H, R, L, K, n) /\ Kept(P, C, T, {}, R, L, K \cup H, n)
  BY DEF Kept
<1>. QED
  BY <1>1, <1>3, <1>4

(* The worker puts its clause into the results.                             *)
LEMMA LinePuts ==
    ASSUME NEW P, NEW C, NEW Q, NEW W, NEW R, NEW L, NEW K, NEW n,
           InLine(P, C, Q, W, R, L, K, n), NEW T, T = R \cup W
    PROVE  /\ Precedes(R, W)
           /\ InLine(P, C, Q, {}, T, L, K, n)
           /\ Kept(P, C, Q, W, R, L, K, n) => Kept(P, C, Q, {}, T, L, K, n)
BY DEF InLine, Precedes, Kept

(* The first of the results is played.                                      *)
LEMMA LinePlays ==
    ASSUME NEW P, NEW C, NEW Q, NEW W, NEW R, NEW H, NEW T, NEW L, NEW K, NEW n,
           InLine(P, C, Q, W, R, L, K, n), R = H \cup T, Precedes(H, T), NEW M, M = L \cup H
    PROVE  /\ Precedes(L, H)
           /\ InLine(P, C, Q, W, T, M, K, n)
           /\ Kept(P, C, Q, W, R, L, K, n) => Kept(P, C, Q, W, T, M, K, n)
BY DEF InLine, Precedes, Kept

(* The text is in line, and nothing of it is lost while the stream is open. *)
LEMMA NextStaged ==
    ASSUME TypeOK, Responding, Producing, Conveying, Working, Staged, Conserved, [Next]_vars
    PROVE  Staged' /\ Conserved'
<1>. DEFINE P == ToSet(exec.pending)
            C == ToSet(exec.clause)
            Q == InClauses(queue)
            W == ToSet(worker.clause)
            R == InClauses(results)
            L == ToSet(played)
            P1 == ToSet(exec'.pending)
            C1 == ToSet(exec'.clause)
            Q1 == InClauses(queue')
            W1 == ToSet(worker'.clause)
            R1 == InClauses(results')
            L1 == ToSet(played')
            PartsInOrder ==
                /\ Increasing(exec'.pending) /\ Increasing(exec'.clause)
                /\ Increasing(worker'.clause) /\ Increasing(played')
                /\ ClausesInOrder(queue') /\ ClausesInOrder(results')
<1>0. /\ ExecOK /\ WorkerOK /\ ctxDone \in BOOLEAN /\ streamClosed \in BOOLEAN
      /\ spoken \subseteq Nat /\ exec.next \in Nat /\ PlayOK
      /\ exec.pending \in Seq(Nat) /\ exec.clause \in Seq(Nat)
      /\ worker.clause \in Seq(Nat) /\ played \in Seq(Nat)
      /\ queue \in Seq(Seq(Nat)) /\ results \in Seq(Seq(Nat))
      /\ TextOK
  <2>1. ExecOK /\ WorkerOK /\ QueueOK /\ ResultsOK /\ TextOK /\ ClosedOK /\ FutureOK /\ PlayOK
    BY TypeParts
  <2>2. Deltas \subseteq Nat
    BY DEF Deltas
  <2>3. Seq(Deltas) \subseteq Seq(Nat)
    BY <2>2, SeqMonotonic
  <2>4. Seq(Seq(Deltas)) \subseteq Seq(Seq(Nat))
    BY <2>3, SeqMonotonic
  <2>5. queue \in Seq(Seq(Deltas)) /\ results \in Seq(Seq(Deltas))
    BY <2>1 DEF QueueOK, ResultsOK
  <2>6. queue \in Seq(Seq(Nat)) /\ results \in Seq(Seq(Nat))
    BY <2>4, <2>5
  <2>7. exec.pending \in Seq(Deltas) /\ exec.clause \in Seq(Deltas) /\ exec.next \in Nat
    BY <2>1, BoundsAssumption DEF ExecOK, ExecTypes
  <2>8. worker.clause \in Seq(Deltas) /\ played \in Seq(Deltas) /\ spoken \subseteq Nat
    BY <2>1, <2>2 DEF WorkerOK, TextOK
  <2>. QED
    BY <2>1, <2>3, <2>6, <2>7, <2>8 DEF ClosedOK, FutureOK
<1>1. /\ Increasing(exec.pending) /\ Increasing(exec.clause)
      /\ Increasing(worker.clause) /\ Increasing(played)
      /\ ClausesInOrder(queue) /\ ClausesInOrder(results)
      /\ InLine(P, C, Q, W, R, L, skipped, exec.next)
      /\ ~WorkerCtxDone => Kept(P, C, Q, W, R, L, skipped, exec.next)
  BY DEF Staged, Conserved
<1>m. ASSUME spoken' = spoken, PartsInOrder,
             InLine(P1, C1, Q1, W1, R1, L1, skipped', exec'.next),
             ~WorkerCtxDone' => Kept(P1, C1, Q1, W1, R1, L1, skipped', exec'.next)
      PROVE  Staged' /\ Conserved'
  <2>1. Staged'
    BY <1>m DEF Staged, InLine
  <2>2. Conserved'
    BY <1>m DEF Conserved, Kept
  <2>. QED
    BY <2>1, <2>2
<1>e. ToSet(<<>>) = {} /\ InClauses(<<>>) = {} /\ Increasing(<<>>) /\ ClausesInOrder(<<>>)
  BY EmptyText, NoClauses
<1>u. ASSUME spoken' = spoken, exec'.pending = exec.pending, exec'.clause = exec.clause,
             exec'.next = exec.next, queue' = queue, worker'.clause = worker.clause,
             \/ results' = results
             \/ results' = <<>> /\ WorkerCtxDone',
             played' = played, skipped' = skipped, WorkerCtxDone => WorkerCtxDone'
      PROVE  Staged' /\ Conserved'
  <2>1. P1 = P /\ C1 = C /\ Q1 = Q /\ W1 = W /\ L1 = L
    BY <1>u
  <2>2. CASE results' = results
    <3>1. R1 = R
      BY <2>2
    <3>2. PartsInOrder
      BY <1>1, <1>u, <2>2
    <3>. HIDE DEF P, C, Q, W, R, L, P1, C1, Q1, W1, R1, L1, PartsInOrder
    <3>. QED
      BY <1>1, <1>m, <1>u, <2>1, <3>1, <3>2
  <2>3. CASE results' = <<>> /\ WorkerCtxDone'
    <3>1. R1 = {}
      BY <1>e, <2>3
    <3>2. PartsInOrder
      BY <1>1, <1>e, <1>u, <2>3
    <3>. HIDE DEF P, C, Q, W, R, L, P1, C1, Q1, W1, R1, L1, PartsInOrder
    <3>3. InLine(P, C, Q, W, {}, L, skipped, exec.next)
      BY <1>1, LineShrinks
    <3>. QED
      BY <1>m, <1>u, <2>1, <2>3, <3>1, <3>2, <3>3
  <2>. QED
    BY <1>u, <2>2, <2>3
<1>2. CASE ExecStep
  <2>f. /\ spoken' = spoken /\ worker' = worker /\ played' = played /\ skipped' = skipped
        /\ ctxDone' = ctxDone /\ W1 = W /\ L1 = L
    BY <1>2, ExecFrame
  <2>1. CASE ExecEmit \/ ExecPanic \/ ExecFail \/ ExecResolve
    <3>1. queue' = queue /\ results' = results /\ streamClosed' = streamClosed
      BY <2>1 DEF ExecEmit, ExecPanic, ExecFail, ExecResolve, plannerVars
    <3>2. \/ exec' = exec
          \/ exec' = [exec EXCEPT !.pc = "observe"]
          \/ exec' = [exec EXCEPT !.pc = "abort", !.failed = TRUE]
          \/ exec' = [exec EXCEPT !.pc = "done"]
      BY <2>1 DEF ExecEmit, ExecPanic, ExecFail, ExecResolve
    <3>3. exec'.pending = exec.pending /\ exec'.clause = exec.clause /\ exec'.next = exec.next
      BY <1>0, <3>2 DEF ExecOK, ExecTypes
    <3>. QED
      BY <1>u, <2>f, <3>1, <3>3 DEF WorkerCtxDone
  <2>2. CASE ExecObserve
    <3>. DEFINE text == IF exec.next \in spoken THEN Append(exec.pending, exec.next)
                                                ELSE exec.pending
    <3>1. /\ exec.pc = "observe" /\ queue' = queue /\ results' = results
          /\ streamClosed' = streamClosed
      BY <2>2 DEF ExecObserve
    <3>2. exec.clause = <<>>
      BY <3>1 DEF Responding
    <3>3. C = {} /\ Q1 = Q /\ R1 = R
      BY <1>e, <3>1, <3>2
    <3>4. ToSet(text) = P \cup ({exec.next} \cap spoken) /\ Increasing(text)
      <4>1. CASE exec.next \in spoken
        <5>1. ToSet(text) = P \cup {exec.next}
          <6>1. text = Append(exec.pending, exec.next)
            BY <4>1
          <6>2. exec.pending \in Seq(Nat) /\ exec.next \in Nat
            BY <1>0
          <6>3. ToSet(Append(exec.pending, exec.next)) = ToSet(exec.pending) \cup {exec.next}
            BY <6>2, SetOfAppend
          <6>. QED
            BY <6>1, <6>3
        <5>2. \A x \in P : x < exec.next
          BY <1>1 DEF InLine
        <5>3. Increasing(text)
          BY <1>0, <1>1, <4>1, <5>2, IncreasingAppend
        <5>. QED
          BY <4>1, <5>1, <5>3
      <4>2. CASE exec.next \notin spoken
        BY <1>1, <4>2
      <4>. QED
        BY <4>1, <4>2
    <3>5. /\ exec'.next = exec.next + 1
          /\ \/ exec'.pending = text /\ exec'.clause = <<>>
             \/ exec'.pending = <<>> /\ exec'.clause = text
      BY <1>0, <2>2, <3>2 DEF ExecObserve, ExecOK, ExecTypes
    <3>6. PartsInOrder
      <4>. HIDE DEF text
      <4>. QED
        BY <1>1, <1>e, <2>f, <3>1, <3>4, <3>5
    <3>7. \/ P1 = ToSet(text) /\ C1 = {}
          \/ P1 = {} /\ C1 = ToSet(text)
      <4>. HIDE DEF text
      <4>. QED
        BY <1>e, <3>5
    <3>8. WorkerCtxDone' <=> WorkerCtxDone
      BY <2>f, <3>1 DEF WorkerCtxDone
    <3>. HIDE DEF P, C, Q, W, R, L, P1, C1, Q1, W1, R1, L1, PartsInOrder, text
    <3>9. InLine(P, {}, Q, W, R, L, skipped, exec.next)
      BY <1>1, <3>3
    <3>10. /\ InLine(ToSet(text), {}, Q, W, R, L, skipped, exec.next + 1)
           /\ InLine({}, ToSet(text), Q, W, R, L, skipped, exec.next + 1)
           /\ Kept(P, {}, Q, W, R, L, skipped, exec.next) =>
                /\ Kept(ToSet(text), {}, Q, W, R, L, skipped, exec.next + 1)
                /\ Kept({}, ToSet(text), Q, W, R, L, skipped, exec.next + 1)
      BY <1>0, <3>4, <3>9, LineGrows
    <3>. QED
      BY <1>1, <1>m, <2>f, <3>3, <3>5, <3>6, <3>7, <3>8, <3>10
  <2>3. CASE ExecEnqueue
    <3>1. /\ exec.pc \in {"enqueue", "flush"} /\ results' = results
          /\ streamClosed' = streamClosed
          /\ \/ WorkerCtxDone /\ queue' = queue
             \/ queue' = Append(queue, exec.clause)
      BY <2>3 DEF ExecEnqueue
    <3>2. exec.pending = <<>>
      BY <3>1 DEF Responding
    <3>3. exec'.clause = <<>> /\ exec'.pending = exec.pending /\ exec'.next = exec.next
      BY <1>0, <2>3 DEF ExecEnqueue, ExecOK, ExecTypes
    <3>4. P = {} /\ P1 = {} /\ C1 = {} /\ R1 = R
      BY <1>e, <3>1, <3>2, <3>3
    <3>5. WorkerCtxDone' <=> WorkerCtxDone
      BY <2>f, <3>1 DEF WorkerCtxDone
    <3>6. InLine({}, C, Q, W, R, L, skipped, exec.next)
      BY <1>1, <3>4
    <3>7. CASE WorkerCtxDone /\ queue' = queue
      <4>1. PartsInOrder /\ Q1 = Q
        BY <1>1, <1>e, <2>f, <3>1, <3>2, <3>3, <3>7
      <4>. HIDE DEF P, C, Q, W, R, L, P1, C1, Q1, W1, R1, L1, PartsInOrder
      <4>2. InLine({}, {}, Q, W, R, L, skipped, exec.next)
        BY <3>6, LineShrinks
      <4>. QED
        BY <1>m, <2>f, <3>3, <3>4, <3>5, <3>7, <4>1, <4>2
    <3>8. CASE queue' = Append(queue, exec.clause)
      <4>1. Q1 = Q \cup C
        BY <1>0, <3>8, ClausesAppend
      <4>2. /\ Precedes(Q, C)
            /\ InLine({}, {}, Q1, W, R, L, skipped, exec.next)
            /\ Kept({}, C, Q, W, R, L, skipped, exec.next)
                 => Kept({}, {}, Q1, W, R, L, skipped, exec.next)
        <5>. HIDE DEF P, C, Q, W, R, L, P1, C1, Q1, W1, R1, L1
        <5>. QED
          BY <3>6, <4>1, LineQueues
      <4>3. ClausesInOrder(queue')
        BY <1>0, <1>1, <3>8, <4>2, ClausesAppend
      <4>4. PartsInOrder
        BY <1>1, <1>e, <2>f, <3>1, <3>2, <3>3, <4>3
      <4>. HIDE DEF P, C, Q, W, R, L, P1, C1, Q1, W1, R1, L1, PartsInOrder
      <4>. QED
        BY <1>1, <1>m, <2>f, <3>3, <3>4, <3>5, <4>2, <4>4
    <3>. QED
      BY <3>1, <3>7, <3>8
  <2>4. CASE ExecFinalize
    <3>1. /\ exec.pc = "emit" /\ queue' = queue /\ results' = results
          /\ streamClosed' = streamClosed
      BY <2>4 DEF ExecFinalize
    <3>2. exec.clause = <<>>
      BY <3>1 DEF Responding
    <3>3. /\ exec'.next = exec.next /\ exec'.pending = <<>>
          /\ exec'.clause = exec.pending
      BY <1>0, <2>4, <3>2 DEF ExecFinalize, ExecOK, ExecTypes
    <3>4. C = {} /\ P1 = {} /\ C1 = P /\ Q1 = Q /\ R1 = R
      BY <1>e, <3>1, <3>2, <3>3
    <3>5. WorkerCtxDone' <=> WorkerCtxDone
      BY <2>f, <3>1 DEF WorkerCtxDone
    <3>6. PartsInOrder
      BY <1>1, <1>e, <2>f, <3>1, <3>3
    <3>. HIDE DEF P, C, Q, W, R, L, P1, C1, Q1, W1, R1, L1, PartsInOrder
    <3>7. InLine(P, {}, Q, W, R, L, skipped, exec.next)
      BY <1>1, <3>4
    <3>8. /\ InLine({}, P, Q, W, R, L, skipped, exec.next)
          /\ Kept(P, {}, Q, W, R, L, skipped, exec.next)
               => Kept({}, P, Q, W, R, L, skipped, exec.next)
      BY <3>7, LineFlushes
    <3>. QED
      BY <1>1, <1>m, <2>f, <3>3, <3>4, <3>5, <3>6, <3>8
  <2>5. CASE ExecClose \/ ExecAbort
    <3>1. /\ queue' = queue
          /\ \/ results' = results /\ streamClosed' = streamClosed
             \/ results' = <<>> /\ streamClosed' = TRUE
      BY <2>5 DEF ExecClose, ExecAbort
    <3>2. exec'.pending = exec.pending /\ exec'.clause = exec.clause /\ exec'.next = exec.next
      <4>1. CASE ExecClose
        BY <1>0, <4>1 DEF ExecClose, ExecOK, ExecTypes
      <4>2. CASE ExecAbort
        BY <1>0, <4>2 DEF ExecAbort, ExecOK, ExecTypes
      <4>. QED
        BY <2>5, <4>1, <4>2
    <3>. QED
      BY <1>u, <2>f, <3>1, <3>2 DEF WorkerCtxDone
  <2>. QED
    BY <1>2, <2>1, <2>2, <2>3, <2>4, <2>5 DEF ExecStep
<1>3. CASE WorkerStep
  <2>f. /\ spoken' = spoken /\ exec' = exec /\ played' = played
        /\ P1 = P /\ C1 = C /\ L1 = L /\ (WorkerCtxDone' <=> WorkerCtxDone)
    BY <1>3, WorkerFrame DEF WorkerCtxDone
  <2>1. CASE WorkerTake
    <3>1. /\ worker.pc = "take" /\ queue # <<>> /\ queue' = Tail(queue) /\ results' = results
          /\ \/ worker'.clause = Head(queue) /\ skipped' = skipped
             \/ worker' = worker /\ skipped' = skipped \cup ToSet(Head(queue))
      BY <2>1 DEF WorkerTake
    <3>2. worker.clause = <<>>
      BY <3>1 DEF Working
    <3>3. /\ Q = ToSet(Head(queue)) \cup Q1
          /\ ClausesInOrder(queue') /\ Increasing(Head(queue))
          /\ Precedes(ToSet(Head(queue)), Q1)
      BY <1>0, <1>1, <3>1, ClausesTail
    <3>4. W = {} /\ R1 = R
      BY <1>e, <3>1, <3>2
    <3>5. PartsInOrder
      BY <1>1, <1>e, <2>f, <3>1, <3>3
    <3>6. \/ W1 = ToSet(Head(queue)) /\ skipped' = skipped
          \/ W1 = {} /\ skipped' = skipped \cup ToSet(Head(queue))
      BY <3>1, <3>4
    <3>. DEFINE H == ToSet(Head(queue))
    <3>. HIDE DEF P, C, Q, W, R, L, P1, C1, Q1, W1, R1, L1, PartsInOrder, H
    <3>7. InLine(P, C, Q, {}, R, L, skipped, exec.next)
      BY <1>1, <3>4
    <3>8. Q = H \cup Q1 /\ Precedes(H, Q1)
      BY <3>3 DEF H
    <3>9. /\ InLine(P, C, Q1, H, R, L, skipped, exec.next)
          /\ InLine(P, C, Q1, {}, R, L, skipped \cup H, exec.next)
          /\ Kept(P, C, Q, {}, R, L, skipped, exec.next) =>
                /\ Kept(P, C, Q1, H, R, L, skipped, exec.next)
                /\ Kept(P, C, Q1, {}, R, L, skipped \cup H, exec.next)
      BY <1>0, <3>7, <3>8, LineTakes
    <3>10. \/ W1 = H /\ skipped' = skipped
           \/ W1 = {} /\ skipped' = skipped \cup H
      BY <3>6 DEF H
    <3>. QED
      BY <1>1, <1>m, <2>f, <3>4, <3>5, <3>9, <3>10
  <2>2. CASE WorkerPut
    <3>1. /\ results' = Append(results, worker.clause) /\ worker'.clause = <<>>
          /\ queue' = queue /\ skipped' = skipped
      BY <2>2 DEF WorkerPut, clientVars
    <3>2. R1 = R \cup W
      BY <1>0, <3>1, ClausesAppend
    <3>3. /\ Precedes(R, W)
          /\ InLine(P, C, Q, {}, R1, L, skipped, exec.next)
          /\ Kept(P, C, Q, W, R, L, skipped, exec.next)
               => Kept(P, C, Q, {}, R1, L, skipped, exec.next)
      <4>. HIDE DEF P, C, Q, W, R, L, P1, C1, Q1, W1, R1, L1
      <4>. QED
        BY <1>1, <3>2, LinePuts
    <3>4. ClausesInOrder(results')
      BY <1>0, <1>1, <3>1, <3>3, ClausesAppend
    <3>5. PartsInOrder /\ W1 = {} /\ Q1 = Q
      BY <1>1, <1>e, <2>f, <3>1, <3>4
    <3>. HIDE DEF P, C, Q, W, R, L, P1, C1, Q1, W1, R1, L1, PartsInOrder
    <3>. QED
      BY <1>1, <1>m, <2>f, <3>1, <3>3, <3>5
  <2>3. CASE WorkerExit
    <3>1. /\ worker'.clause = <<>> /\ queue' = queue /\ skipped' = skipped /\ results' = results
          /\ WorkerCtxDone \/ worker.pc = "take"
      BY <2>3 DEF WorkerExit, clientVars
    <3>2. WorkerCtxDone \/ worker.clause = <<>>
      BY <3>1 DEF Working
    <3>3. PartsInOrder /\ W1 = {} /\ Q1 = Q /\ R1 = R /\ (WorkerCtxDone \/ W = {})
      BY <1>1, <1>e, <2>f, <3>1, <3>2
    <3>. HIDE DEF P, C, Q, W, R, L, P1, C1, Q1, W1, R1, L1, PartsInOrder
    <3>4. InLine(P, C, Q, {}, R, L, skipped, exec.next)
      BY <1>1, LineShrinks
    <3>. QED
      BY <1>1, <1>m, <2>f, <3>1, <3>3, <3>4
  <2>. QED
    BY <1>3, <2>1, <2>2, <2>3 DEF WorkerStep
<1>4. CASE PlaybackStep
  <2>f. /\ spoken' = spoken /\ exec' = exec /\ queue' = queue /\ worker' = worker
        /\ skipped' = skipped /\ P1 = P /\ C1 = C /\ Q1 = Q /\ W1 = W
    BY <1>4, PlaybackFrame
  <2>1. CASE PlayClause
    <3>1. /\ results # <<>> /\ played' = played \o Head(results) /\ results' = Tail(results)
          /\ ctxDone' = ctxDone /\ streamClosed' = streamClosed
      BY <2>1 DEF PlayClause, RestOfResults
    <3>2. Head(results) \in Seq(Nat)
      BY <1>0, <3>1
    <3>3. /\ R = ToSet(Head(results)) \cup R1
          /\ ClausesInOrder(results') /\ Increasing(Head(results))
          /\ Precedes(ToSet(Head(results)), R1)
      BY <1>0, <1>1, <3>1, ClausesTail
    <3>4. L1 = L \cup ToSet(Head(results))
      BY <1>0, <3>1, <3>2, SetOfConcat
    <3>. DEFINE H == ToSet(Head(results))
    <3>5. /\ Precedes(L, H)
          /\ InLine(P, C, Q, W, R1, L1, skipped, exec.next)
          /\ Kept(P, C, Q, W, R, L, skipped, exec.next)
               => Kept(P, C, Q, W, R1, L1, skipped, exec.next)
      <4>1. R = H \cup R1 /\ Precedes(H, R1) /\ L1 = L \cup H
        BY <3>3, <3>4
      <4>. HIDE DEF P, C, Q, W, R, L, P1, C1, Q1, W1, R1, L1, H
      <4>. QED
        BY <1>1, <4>1, LinePlays
    <3>6. Increasing(played')
      BY <1>0, <1>1, <3>1, <3>2, <3>3, <3>5, IncreasingConcat
    <3>7. PartsInOrder
      BY <1>1, <2>f, <3>3, <3>6
    <3>8. WorkerCtxDone' <=> WorkerCtxDone
      BY <3>1 DEF WorkerCtxDone
    <3>. HIDE DEF P, C, Q, W, R, L, P1, C1, Q1, W1, R1, L1, PartsInOrder, H
    <3>. QED
      BY <1>1, <1>m, <2>f, <3>5, <3>7, <3>8
  <2>2. CASE PlayEOF
    <3>1. /\ results' = results /\ ctxDone' = ctxDone /\ streamClosed' = streamClosed
          /\ \/ played' = played
             \/ playback.source = "final" /\ played' = ResponseText
      BY <2>2 DEF PlayEOF, plannerVars
    <3>2. CASE played' = played
      BY <1>u, <2>f, <3>1, <3>2 DEF WorkerCtxDone
    <3>3. CASE playback.source = "final" /\ played' = ResponseText
      <4>1. spoken = {}
        BY <3>3 DEF Producing, Fits
      <4>2. L1 = {} /\ Increasing(played')
        BY <1>0, <3>3, <4>1, TextLists DEF TextOK
      <4>3. L = {}
        BY <1>1, <4>1 DEF InLine
      <4>4. R1 = R /\ PartsInOrder
        BY <1>1, <2>f, <3>1, <4>2
      <4>5. WorkerCtxDone' <=> WorkerCtxDone
        BY <3>1 DEF WorkerCtxDone
      <4>. HIDE DEF P, C, Q, W, R, L, P1, C1, Q1, W1, R1, L1, PartsInOrder
      <4>. QED
        BY <1>1, <1>m, <2>f, <4>2, <4>3, <4>4, <4>5
    <3>. QED
      BY <3>1, <3>2, <3>3
  <2>3. CASE PlayComplete \/ PlayStops
    <3>1. played' = played /\ results' = <<>> /\ WorkerCtxDone'
      BY <2>3 DEF PlayComplete, PlayStops, ClosePlayback, clientVars, WorkerCtxDone
    <3>. QED
      BY <1>u, <2>f, <3>1
  <2>. QED
    BY <1>4, <2>1, <2>2, <2>3 DEF PlaybackStep
<1>5. CASE GatewayStep \/ GatewayInterrupts
  <2>1. ctxDone => ctxDone'
    BY <1>5 DEF GatewayStep, GatewayInterrupts, GatewayDelta, GatewayDeltaClosed, GatewayAudio,
           GatewayResponse, GatewayReturns, GatewayFails
  <2>. QED
    BY <1>5, <1>u, <2>1, GatewayFrame DEF WorkerCtxDone
<1>6. CASE FutureUser \/ UNCHANGED vars
  BY <1>6, <1>u, UserFrame, IdleFrame DEF WorkerCtxDone
<1>. QED
  BY <1>2, <1>3, <1>4, <1>5, <1>6, Steps

(* The end of the stream of clauses comes when the worker has left, and it  *)
(* leaves a stream that nobody cut only when all the text went through it.  *)
LEMMA StreamEnds ==
    ASSUME TypeOK, Responding, Producing, Conveying, Streaming, Working, Conserved,
           playback.pc = "play", EndOfStream, Good, ~exec.failed, spoken # {}
    PROVE  worker.pc = "done" /\ spoken \subseteq ToSet(played) \cup skipped
<1>1. ~WorkerCtxDone
  BY DEF Streaming, WorkerCtxDone
<1>2. /\ worker.pc = "done" /\ queueClosed /\ queue = <<>> /\ results = <<>>
      /\ worker.clause = <<>>
  BY <1>1 DEF EndOfStream, Working
<1>3. exec.pc \in {"resolve", "done"}
  BY <1>2 DEF Responding
<1>4. exec.next = NumDeltas + 1 /\ exec.pending = <<>> /\ exec.clause = <<>>
  BY <1>3 DEF Responding
<1>5. \A d \in spoken : d < NumDeltas + 1
  BY TypeParts, BoundsAssumption DEF TextOK, Deltas
<1>. HIDE DEF EndOfStream
<1>6. Kept({}, {}, {}, {}, {}, ToSet(played), skipped, NumDeltas + 1)
  BY <1>1, <1>2, <1>4, EmptyText, NoClauses DEF Conserved
<1>. QED
  BY <1>2, <1>5, <1>6 DEF Kept

(* So a playback that waits for the turn's completion has played all.       *)
LEMMA NextCompleting ==
    ASSUME TypeOK, Responding, Producing, Conveying, Streaming, Working, Conserved, Completing,
           [Next]_vars
    PROVE  Completing'
<1>0. ExecOK /\ GatewayOK /\ PlayOK /\ playback.finished \in BOOLEAN
  BY TypeParts DEF PlayOK, PlaybackTypes
<1>k. ASSUME spoken' = spoken,
             playback'.pc = "await" \/ playback'.finished
                => playback.pc = "await" \/ playback.finished,
             ~Good => ~Good', exec.failed => exec'.failed,
             worker.pc = "done" =>
                worker'.pc = "done" /\ played' = played /\ skipped' = skipped
      PROVE  Completing'
  BY <1>k DEF Completing
<1>1. CASE ExecStep
  <2>1. exec.failed => exec'.failed
    BY <1>0, <1>1 DEF Responding, ExecStep, ExecEmit, ExecPanic, ExecFail, ExecObserve,
       ExecEnqueue, ExecFinalize, ExecClose, ExecAbort, ExecResolve, ExecOK, ExecTypes
  <2>. QED
    BY <1>1, <1>k, <2>1, ExecFrame DEF Good
<1>2. CASE WorkerStep
  <2>1. worker.pc # "done"
    BY <1>2 DEF WorkerStep, WorkerTake, WorkerPut, WorkerExit
  <2>. QED
    BY <1>2, <1>k, <2>1, WorkerFrame DEF Good
<1>3. CASE FutureUser \/ UNCHANGED vars
  BY <1>3, <1>k, UserFrame, IdleFrame DEF Good
<1>4. CASE GatewayStep \/ GatewayInterrupts
  <2>1. ~Good => ~Good'
    BY <1>0, <1>4 DEF Good, GatewayStep, GatewayInterrupts, GatewayDelta, GatewayDeltaClosed,
           GatewayAudio, GatewayResponse, GatewayReturns, GatewayOK, GatewayTypes
  <2>2. \/ playback' = playback
        \/ \E s : StartPlayback(s)
        \/ playback' = [playback EXCEPT !.cancelled = TRUE]
    BY <1>4 DEF GatewayStep, GatewayInterrupts, GatewayDelta, GatewayDeltaClosed,
           GatewayAudio, GatewayResponse, GatewayReturns, GatewayFails
  <2>3. playback'.pc = "await" \/ playback'.finished => playback.pc = "await" \/ playback.finished
    BY <1>0, <2>2 DEF StartPlayback, PlayOK, PlaybackTypes
  <2>. QED
    BY <1>4, <1>k, <2>1, <2>3, GatewayFrame
<1>5. CASE PlaybackStep
  <2>f. spoken' = spoken /\ exec' = exec /\ worker' = worker /\ skipped' = skipped /\ gw' = gw
    BY <1>5, PlaybackFrame
  <2>1. CASE PlayClause
    <3>1. playback' = playback /\ playback.pc = "play"
      BY <2>1 DEF PlayClause
    <3>. QED
      BY <3>1 DEF Completing, Conveying
  <2>2. CASE PlayEOF
    <3>1. /\ playback.pc = "play"
          /\ \/ EndOfStream /\ played' = played
             \/ playback.source = "final"
      BY <2>2 DEF PlayEOF
    <3>2. CASE playback.source = "final"
      <4>1. spoken = {}
        BY <3>2 DEF Producing, Fits
      <4>. QED
        BY <2>f, <4>1 DEF Completing
    <3>3. CASE EndOfStream /\ played' = played
      <4>1. ~Good \/ exec.failed \/ spoken = {}
            \/ (worker.pc = "done" /\ spoken \subseteq ToSet(played) \cup skipped)
        BY <3>1, <3>3, StreamEnds
      <4>. QED
        BY <2>f, <3>3, <4>1 DEF Completing, Good
    <3>. QED
      BY <3>1, <3>2, <3>3
  <2>3. CASE PlayComplete \/ PlayStops
    <3>1. /\ played' = played
          /\ playback'.pc = "await" \/ playback'.finished => playback.pc = "await"
      BY <1>0, <2>3 DEF PlayComplete, PlayStops, ClosePlayback, clientVars, PlayOK, PlaybackTypes
    <3>. QED
      BY <1>k, <2>f, <3>1 DEF Good
  <2>. QED
    BY <1>5, <2>1, <2>2, <2>3 DEF PlaybackStep
<1>. QED
  BY <1>1, <1>2, <1>3, <1>4, <1>5, Steps

(* A sequence that ends with some deltas in order is a prefix and these.    *)
LEMMA EndsSplit ==
    ASSUME NEW s \in Seq(Nat), NEW S, Ends(s, S)
    PROVE  \E u, t \in Seq(Nat) : s = u \o t /\ Increasing(t) /\ ToSet(t) = S
<1>1. PICK k \in 0 .. Len(s) : LET t == SubSeq(s, k + 1, Len(s))
                               IN  Increasing(t) /\ ToSet(t) = S
  BY DEF Ends
<1>. DEFINE u == SubSeq(s, 1, k)
            t == SubSeq(s, k + 1, Len(s))
<1>n. k \in Nat /\ Len(s) \in Nat /\ k <= Len(s)
  BY <1>1
<1>2. u \in Seq(Nat) /\ Len(u) = k /\ \A i \in 1 .. k : u[i] = s[i]
  BY <1>n
<1>3. /\ t \in Seq(Nat) /\ Len(t) = Len(s) - k
      /\ \A i \in 1 .. Len(s) - k : t[i] = s[k + i]
  BY <1>n
<1>4. s = u \o t
  <2>. HIDE DEF u, t
  <2>1. u \o t \in Seq(Nat) /\ Len(u \o t) = Len(s)
    <3>1. u \o t \in Seq(Nat) /\ Len(u \o t) = Len(u) + Len(t)
      BY <1>2, <1>3, ConcatProperties
    <3>. QED
      BY <1>n, <1>2, <1>3, <3>1
  <2>2. ASSUME NEW i \in 1 .. Len(s) PROVE (u \o t)[i] = s[i]
    <3>1. CASE i <= k
      BY <1>n, <1>2, <1>3, <3>1
    <3>2. CASE i > k
      <4>1. i - k \in 1 .. Len(s) - k /\ k + (i - k) = i
        BY <1>n, <3>2
      <4>2. (u \o t)[i] = t[i - k]
        <5>1. i \in 1 .. Len(u) + Len(t) /\ ~(i <= Len(u)) /\ i - k = i - Len(u)
          BY <1>n, <1>2, <1>3, <3>2
        <5>. QED
          BY <1>2, <1>3, <5>1, ConcatProperties
      <4>. QED
        BY <1>3, <4>1, <4>2
    <3>3. i <= k \/ i > k
      BY <1>n
    <3>. QED
      BY <3>1, <3>2, <3>3
  <2>. QED
    BY <2>1, <2>2, SeqEqual
<1>. QED
  BY <1>1, <1>2, <1>3, <1>4

(* The converse: what follows a prefix is an end.                           *)
LEMMA EndsConcat ==
    ASSUME NEW u \in Seq(Nat), NEW t \in Seq(Nat), Increasing(t)
    PROVE  Ends(u \o t, ToSet(t))
<1>. DEFINE s == u \o t
<1>1. /\ s \in Seq(Nat) /\ Len(s) = Len(u) + Len(t) /\ Len(u) \in Nat /\ Len(t) \in Nat
      /\ \A i \in 1 .. Len(t) : s[Len(u) + i] = t[i]
  OBVIOUS
<1>. HIDE DEF s
<1>2. SubSeq(s, Len(u) + 1, Len(s)) = t
  <2>1. /\ SubSeq(s, Len(u) + 1, Len(s)) \in Seq(Nat)
        /\ Len(SubSeq(s, Len(u) + 1, Len(s))) = Len(t)
        /\ \A i \in 1 .. Len(t) : SubSeq(s, Len(u) + 1, Len(s))[i] = s[Len(u) + i]
    <3>. DEFINE m == Len(u) + 1
                n == Len(s)
    <3>1. /\ m \in Nat /\ n \in Nat /\ n - m + 1 = Len(t)
          /\ IF m <= n THEN n - m + 1 = Len(t) ELSE Len(t) = 0
          /\ \A i \in m .. n : i \in 1 .. Len(s)
          /\ \A i \in 1 .. Len(t) : m + i - 1 = Len(u) + i
      BY <1>1
    <3>2. \A i \in m .. n : s[i] \in Nat
      BY <1>1, <3>1, ElementOfSeq
    <3>. HIDE DEF m, n
    <3>3. /\ SubSeq(s, m, n) \in Seq(Nat)
          /\ Len(SubSeq(s, m, n)) = IF m <= n THEN n - m + 1 ELSE 0
          /\ \A i \in 1 .. n - m + 1 : SubSeq(s, m, n)[i] = s[m + i - 1]
      BY <3>1, <3>2, SubSeqProperties
    <3>4. Len(SubSeq(s, m, n)) = Len(t)
      BY <3>1, <3>3
    <3>5. \A i \in 1 .. Len(t) : SubSeq(s, m, n)[i] = s[Len(u) + i]
      BY <3>1, <3>3
    <3>. QED
      BY <3>3, <3>4, <3>5 DEF m, n
  <2>. QED
    BY <1>1, <2>1, SeqEqual
<1>3. Len(u) \in 0 .. Len(s)
  BY <1>1
<1>. QED
  BY <1>2, <1>3 DEF Ends, s

(* Every sequence ends with no deltas.                                      *)
LEMMA EndsEmpty == ASSUME NEW s \in Seq(Nat) PROVE Ends(s, {})
<1>1. <<>> \in Seq(Nat) /\ s \o <<>> = s
  OBVIOUS
<1>. QED
  BY <1>1, EndsConcat, EmptyText

(* A later delta makes the end longer.                                      *)
LEMMA EndsAppend ==
    ASSUME NEW s \in Seq(Nat), NEW S, Ends(s, S), NEW a \in Nat, \A x \in S : x < a
    PROVE  Ends(s \o <<a>>, S \cup {a})
<1>1. PICK u \in Seq(Nat), t \in Seq(Nat) : s = u \o t /\ Increasing(t) /\ ToSet(t) = S
  BY EndsSplit
<1>2. <<a>> \in Seq(Nat) /\ t \o <<a>> \in Seq(Nat)
  BY <1>1
<1>3. s \o <<a>> = u \o (t \o <<a>>)
  BY <1>1, <1>2, ConcatAssociative
<1>4. t \o <<a>> = Append(t, a)
  BY <1>1, AppendIsConcat
<1>5. Increasing(t \o <<a>>) /\ ToSet(t \o <<a>>) = S \cup {a}
  BY <1>1, <1>4, IncreasingAppend, SetOfAppend
<1>. QED
  BY <1>1, <1>2, <1>3, <1>5, EndsConcat

-----------------------------------------------------------------------------
(* Deltas on their way to the client *)

(* The responder emits one delta at a time, to the end of deltaCh.          *)
LEMMA EmittedKept ==
    ASSUME TypeOK, Responding, ExecStep
    PROVE  /\ Emitted \in Nat /\ Emitted' \in Nat
           /\ \/ Emitted' = Emitted /\ deltaCh' = deltaCh
              \/ /\ Emitted' = Emitted + 1 /\ deltaCh' = Append(deltaCh, Emitted + 1)
                 /\ ~deltaClosed
<1>0. ExecOK /\ exec.next \in Nat /\ exec.next >= 1
  BY TypeParts, BoundsAssumption DEF ExecOK, ExecTypes
<1>1. Emitted \in Nat
  BY <1>0 DEF Emitted
<1>2. CASE ExecEmit
  <2>1. /\ exec.pc = "emit" /\ ~deltaClosed /\ deltaCh' = Append(deltaCh, exec.next)
        /\ exec' = [exec EXCEPT !.pc = "observe"]
    BY <1>2 DEF ExecEmit
  <2>2. exec'.pc = "observe" /\ exec'.next = exec.next
    BY <1>0, <2>1 DEF ExecOK, ExecTypes
  <2>3. Emitted = exec.next - 1 /\ Emitted' = exec.next
    BY <2>1, <2>2 DEF Emitted
  <2>4. Emitted + 1 = exec.next
    BY <1>0, <2>3
  <2>. QED
    BY <1>0, <1>1, <2>1, <2>3, <2>4
<1>3. CASE ExecObserve
  <2>1. exec.pc = "observe" /\ deltaCh' = deltaCh
    BY <1>3 DEF ExecObserve
  <2>2. exec'.pc \in {"emit", "enqueue"} /\ exec'.next = exec.next + 1
    BY <1>0, <1>3 DEF ExecObserve, ExecOK, ExecTypes
  <2>. QED
    BY <1>0, <1>1, <2>1, <2>2 DEF Emitted
<1>4. CASE ~ExecEmit /\ ~ExecObserve
  <2>1. deltaCh' = deltaCh
    BY <1>4 DEF ExecStep, ExecPanic, ExecFail, ExecEnqueue, ExecFinalize, ExecClose, ExecAbort,
                ExecResolve
  <2>2. /\ exec'.next = exec.next
        /\ exec'.pc = "observe" <=> exec.pc = "observe"
    <3>1. CASE ExecPanic
      BY <3>1 DEF ExecPanic
    <3>2. CASE ExecFail
      BY <1>0, <3>2 DEF ExecFail, ExecOK, ExecTypes
    <3>3. CASE ExecEnqueue
      BY <1>0, <3>3 DEF ExecEnqueue, ExecOK, ExecTypes
    <3>4. CASE ExecFinalize
      BY <1>0, <3>4 DEF ExecFinalize, ExecOK, ExecTypes
    <3>5. CASE ExecClose
      BY <1>0, <3>5 DEF ExecClose, ExecOK, ExecTypes
    <3>6. CASE ExecAbort
      BY <1>0, <3>6 DEF ExecAbort, ExecOK, ExecTypes
    <3>7. CASE ExecResolve
      BY <1>0, <3>7 DEF ExecResolve, ExecOK, ExecTypes
    <3>. QED
      BY <1>4, <3>1, <3>2, <3>3, <3>4, <3>5, <3>6, <3>7 DEF ExecStep
  <2>. QED
    BY <1>1, <2>1, <2>2 DEF Emitted
<1>. QED
  BY <1>2, <1>3, <1>4

(* What a step of the select loop does to the deltas and to what was sent.  *)
LEMMA GatewaySends ==
    ASSUME TypeOK, GatewayStep \/ GatewayInterrupts
    PROVE  /\ Good' => Good
           /\ \/ /\ deltaCh' = deltaCh
                 /\ gw'.deltaNil => gw.deltaNil \/ (deltaClosed /\ deltaCh = <<>>)
              \/ /\ deltaCh # <<>> /\ deltaCh' = Tail(deltaCh)
                 /\ gw'.deltaNil = gw.deltaNil /\ ~gw.deltaNil
                 /\ Good' => gw'.sentStart
           /\ gw.sentStart => gw'.sentStart
           /\ Good' =>
                \/ deltaCh' = deltaCh /\ (sent' = sent \/ ~gw.sentStart)
                \/ /\ sent' = sent \o StartEvent
                         \o (IF Head(deltaCh) \in spoken THEN <<Head(deltaCh)>> ELSE <<>>)
                   /\ deltaCh # <<>> /\ deltaCh' = Tail(deltaCh)
<1>0. GatewayOK /\ sent \in Seq(Nat)
  <2>1. Deltas \cup {ResponseStart} \subseteq Nat
    BY DEF Deltas, ResponseStart
  <2>. QED
    BY <2>1, TypeParts, SeqMonotonic DEF SentOK
<1>e. sent \o <<>> = sent
  BY <1>0
<1>f. ASSUME NEW seen \in GatewayTypes, GatewayFails(seen)
      PROVE  /\ ~Good' /\ sent' = sent
             /\ gw'.deltaNil = seen.deltaNil /\ gw'.sentStart = seen.sentStart
  BY <1>f DEF GatewayFails, GatewayTypes, Good
<1>1. CASE GatewayDelta
  <2>1. gw.pc = "select" /\ ~gw.deltaNil /\ deltaCh # <<>> /\ deltaCh' = Tail(deltaCh)
    BY <1>1 DEF GatewayDelta
  <2>2. CASE GatewayFails(gw)
    BY <1>0, <1>f, <2>1, <2>2 DEF GatewayOK
  <2>3. CASE ~GatewayFails(gw)
    <3>1. /\ gw' = [gw EXCEPT !.sentStart = TRUE]
          /\ sent' = sent \o StartEvent
                  \o (IF Head(deltaCh) \in spoken THEN <<Head(deltaCh)>> ELSE <<>>)
      BY <1>1, <2>3 DEF GatewayDelta
    <3>2. gw'.sentStart /\ gw'.deltaNil = gw.deltaNil /\ gw'.pc = gw.pc
      BY <1>0, <3>1 DEF GatewayOK, GatewayTypes
    <3>. QED
      BY <2>1, <3>1, <3>2 DEF Good
  <2>. QED
    BY <2>2, <2>3
<1>2. CASE GatewayDeltaClosed
  <2>1. /\ gw' = [gw EXCEPT !.deltaNil = TRUE] /\ gw.pc = "select" /\ sent' = sent
        /\ deltaCh' = deltaCh /\ deltaClosed /\ deltaCh = <<>>
    BY <1>2 DEF GatewayDeltaClosed, clientVars
  <2>2. gw'.sentStart = gw.sentStart /\ gw'.pc = gw.pc
    BY <1>0, <2>1 DEF GatewayOK, GatewayTypes
  <2>. QED
    BY <2>1, <2>2 DEF Good
<1>3. CASE GatewayAudio
  <2>. DEFINE seen == [gw EXCEPT !.gotAudio = TRUE]
  <2>1. /\ seen \in GatewayTypes /\ seen.deltaNil = gw.deltaNil /\ seen.sentStart = gw.sentStart
        /\ seen.pc = gw.pc
    BY <1>0 DEF GatewayOK, GatewayTypes
  <2>2. gw.pc = "select" /\ deltaCh' = deltaCh
    BY <1>3 DEF GatewayAudio
  <2>3. \/ GatewayFails(seen)
        \/ gw' = seen /\ sent' = sent
        \/ /\ gw' = [seen EXCEPT !.sentStart = TRUE, !.audio = "none",
                            !.transferred = seen.transferred \/ gw.audio # "none",
                            !.completion = IF gw.gotResponse THEN "resolved" ELSE "open"]
           /\ sent' = sent \o StartEvent
    BY <1>3 DEF GatewayAudio
  <2>. HIDE DEF seen
  <2>4. CASE GatewayFails(seen)
    BY <1>f, <2>1, <2>2, <2>4
  <2>5. CASE gw' = seen /\ sent' = sent
    BY <2>1, <2>2, <2>5 DEF Good
  <2>6. CASE /\ gw' = [seen EXCEPT !.sentStart = TRUE, !.audio = "none",
                            !.transferred = seen.transferred \/ gw.audio # "none",
                            !.completion = IF gw.gotResponse THEN "resolved" ELSE "open"]
             /\ sent' = sent \o StartEvent
    <3>1. gw'.sentStart /\ gw'.deltaNil = gw.deltaNil /\ gw'.pc = gw.pc
      BY <2>1, <2>6 DEF GatewayTypes
    <3>2. gw.sentStart => sent' = sent
      BY <1>e, <2>6 DEF StartEvent
    <3>. QED
      BY <2>2, <3>1, <3>2 DEF Good
  <2>. QED
    BY <2>3, <2>4, <2>5, <2>6
<1>4. CASE GatewayResponse
  <2>. DEFINE seen == [gw EXCEPT !.gotResponse = TRUE]
              r == result["wait"]
  <2>1. /\ seen \in GatewayTypes /\ seen.deltaNil = gw.deltaNil /\ seen.sentStart = gw.sentStart
        /\ seen.pc = gw.pc
    BY <1>0 DEF GatewayOK, GatewayTypes
  <2>2. gw.pc = "select" /\ deltaCh' = deltaCh
    BY <1>4 DEF GatewayResponse
  <2>3. \/ GatewayFails(seen)
        \/ /\ gw' = [seen EXCEPT
                    !.sentStart = TRUE,
                    !.audio = KeptAudio(r),
                    !.transferred = r.transferred \/ (gw.completion # "none" /\ r.audio # "none"),
                    !.completion = SettledCompletion(seen.completion)]
           /\ gw.sentStart => sent' = sent \o <<>>
    BY <1>4 DEF GatewayResponse
  <2>. HIDE DEF seen, r
  <2>4. CASE GatewayFails(seen)
    BY <1>f, <2>1, <2>2, <2>4
  <2>5. CASE ~GatewayFails(seen)
    <3>1. gw'.sentStart /\ gw'.deltaNil = gw.deltaNil /\ gw'.pc = gw.pc
      BY <2>1, <2>3, <2>5 DEF GatewayTypes
    <3>2. gw.sentStart => sent' = sent
      BY <1>e, <2>3, <2>5
    <3>. QED
      BY <2>2, <3>1, <3>2 DEF Good
  <2>. QED
    BY <2>4, <2>5
<1>5. CASE GatewayReturns \/ GatewayInterrupts
  <2>1. deltaCh' = deltaCh /\ sent' = sent
    BY <1>5 DEF GatewayReturns, GatewayInterrupts, clientVars
  <2>2. /\ gw'.deltaNil = gw.deltaNil /\ gw'.sentStart = gw.sentStart
        /\ Good' => Good
    BY <1>0, <1>5 DEF GatewayReturns, GatewayInterrupts, GatewayOK, GatewayTypes, Good
  <2>. QED
    BY <2>1, <2>2
<1>. QED
  BY <1>1, <1>2, <1>3, <1>4, <1>5 DEF GatewayStep

(* deltaCh holds the last deltas emitted; the loop stops reading it only when it *)
(* is closed and drained.                                                   *)
LEMMA NextDelivering ==
    ASSUME TypeOK, Responding, Delivering, [Next]_vars
    PROVE  Delivering'
<1>0. deltaCh \in Seq(Nat) /\ GatewayOK /\ Emitted \in Nat /\ "wait" \in F!Callers
  <2>1. Deltas \subseteq Nat
    BY DEF Deltas
  <2>2. exec.next \in Nat /\ exec.next >= 1
    BY TypeParts, BoundsAssumption DEF ExecOK, ExecTypes
  <2>3. Emitted \in Nat
    BY <2>2 DEF Emitted
  <2>. QED
    BY <2>1, <2>3, TypeParts, SeqMonotonic, CallerNames DEF DeltaOK
<1>p. F!Pending' = F!Pending
  BY DEF F!Pending
<1>1. ASSUME UNCHANGED <<exec, deltaCh, deltaClosed, gw, result>> PROVE Delivering'
  BY <1>1, <1>p DEF Delivering, Emitted, Good
<1>2. CASE ExecStep
  <2>f. deltaClosed' = deltaClosed /\ gw' = gw /\ result' = result
    BY <1>2, ExecFrame
  <2>1. \/ Emitted' = Emitted /\ deltaCh' = deltaCh
        \/ /\ Emitted' = Emitted + 1 /\ deltaCh' = Append(deltaCh, Emitted + 1)
           /\ ~deltaClosed
    BY <1>2, EmittedKept
  <2>2. CASE Emitted' = Emitted /\ deltaCh' = deltaCh
    BY <1>p, <2>2, <2>f DEF Delivering, Good
  <2>3. CASE /\ Emitted' = Emitted + 1 /\ deltaCh' = Append(deltaCh, Emitted + 1)
             /\ ~deltaClosed
    <3>. DEFINE n == Emitted
                n1 == Emitted'
    <3>1. /\ Len(deltaCh') = Len(deltaCh) + 1 /\ Len(deltaCh) \in Nat
          /\ deltaCh'[Len(deltaCh) + 1] = n + 1
          /\ \A i \in 1 .. Len(deltaCh) : deltaCh'[i] = deltaCh[i]
      BY <1>0, <2>3
    <3>2. n \in Nat /\ n1 = n + 1 /\ Len(deltaCh) <= n
      BY <1>0, <2>3 DEF Delivering
    <3>3. \A i \in 1 .. Len(deltaCh) : deltaCh[i] = (n - Len(deltaCh)) + i
      BY DEF Delivering
    <3>. HIDE DEF n, n1
    <3>4. Len(deltaCh') <= n1
      BY <3>1, <3>2
    <3>5. \A i \in 1 .. Len(deltaCh') : deltaCh'[i] = (n1 - Len(deltaCh')) + i
      BY <3>1, <3>2, <3>3
    <3>6. Good /\ ~gw.sentStart => n1 = Len(deltaCh')
      BY <3>1, <3>2 DEF Delivering, n
    <3>. QED
      BY <1>p, <2>3, <2>f, <3>4, <3>5, <3>6 DEF Delivering, Good, n1
  <2>. QED
    BY <2>1, <2>2, <2>3
<1>3. CASE FutureUser
  <2>1. exec' = exec /\ deltaCh' = deltaCh /\ gw' = gw
    BY <1>3, UserFrame
  <2>2. result["wait"] # F!Pending => result'["wait"] = result["wait"]
    BY <1>0, <1>3, ReturnsOnce
  <2>3. deltaClosed' = deltaClosed \/ (deltaClosed' = TRUE /\ result["wait"] # F!Pending)
    BY <1>3 DEF FutureUser, PublishStart, WaiterStep, WaiterReturns, WaiterCloses, WaiterDone,
                AudioWaiterReturns
  <2>. QED
    BY <1>p, <2>1, <2>2, <2>3 DEF Delivering, Emitted, Good
<1>4. CASE GatewayStep \/ GatewayInterrupts
  <2>f. exec' = exec /\ deltaClosed' = deltaClosed /\ result' = result /\ Emitted' = Emitted
    BY <1>4, GatewayFrame DEF Emitted
  <2>g. /\ Good' => Good
        /\ gw.sentStart => gw'.sentStart
    BY <1>4, GatewaySends
  <2>1. CASE /\ deltaCh' = deltaCh
             /\ gw'.deltaNil => gw.deltaNil \/ (deltaClosed /\ deltaCh = <<>>)
    BY <1>p, <2>1, <2>f, <2>g DEF Delivering
  <2>2. CASE /\ deltaCh # <<>> /\ deltaCh' = Tail(deltaCh)
             /\ gw'.deltaNil = gw.deltaNil /\ ~gw.deltaNil
             /\ Good' => gw'.sentStart
    <3>. DEFINE n == Emitted
    <3>1. /\ Len(deltaCh') = Len(deltaCh) - 1 /\ Len(deltaCh) \in Nat /\ Len(deltaCh) >= 1
          /\ \A i \in 1 .. Len(deltaCh) - 1 : deltaCh'[i] = deltaCh[i + 1]
      BY <1>0, <2>2, SetOfTail
    <3>2. n \in Nat /\ Len(deltaCh) <= n
      BY <1>0 DEF Delivering
    <3>3. \A i \in 1 .. Len(deltaCh) : deltaCh[i] = (n - Len(deltaCh)) + i
      BY DEF Delivering
    <3>. HIDE DEF n
    <3>4. Len(deltaCh') <= n
      BY <3>1, <3>2
    <3>5. \A i \in 1 .. Len(deltaCh') : deltaCh'[i] = (n - Len(deltaCh')) + i
      BY <3>1, <3>2, <3>3
    <3>. QED
      BY <1>p, <2>2, <2>f, <3>4, <3>5 DEF Delivering, n
  <2>. QED
    BY <1>4, <2>1, <2>2, GatewaySends
<1>. QED
  BY <1>1, <1>2, <1>3, <1>4, Steps, WorkerFrame, PlaybackFrame, IdleFrame

(* The text of every delta taken from deltaCh is sent at once, in order; what goes *)
(* out besides (response.start, the whole text as a fallback) goes before the first. *)
LEMMA NextSentText ==
    ASSUME TypeOK, Responding, Delivering, SentText, [Next]_vars, TypeOK'
    PROVE  SentText'
<1>. DEFINE k == Emitted - Len(deltaCh)
            k1 == Emitted' - Len(deltaCh')
            Taken(n) == {d \in spoken : d <= n}
<1>0. /\ deltaCh \in Seq(Nat) /\ GatewayOK /\ Emitted \in Nat /\ Len(deltaCh) \in Nat
      /\ k \in Nat /\ sent \in Seq(Nat) /\ sent' \in Seq(Nat) /\ spoken \subseteq Nat
      /\ \A d \in spoken : d >= 1
  <2>1. Deltas \subseteq Nat /\ Deltas \cup {ResponseStart} \subseteq Nat
        /\ \A d \in Deltas : d >= 1
    BY BoundsAssumption DEF Deltas, ResponseStart
  <2>2. exec.next \in Nat /\ exec.next >= 1
    BY TypeParts, BoundsAssumption DEF ExecOK, ExecTypes
  <2>3. Emitted \in Nat
    BY <2>2 DEF Emitted
  <2>4. deltaCh \in Seq(Nat) /\ sent \in Seq(Nat) /\ GatewayOK /\ spoken \subseteq Deltas
    BY <2>1, TypeParts, SeqMonotonic DEF DeltaOK, SentOK, TextOK
  <2>5. sent' \in Seq(Deltas \cup {ResponseStart})
    BY DEF TypeOK
  <2>6. sent' \in Seq(Nat)
    BY <2>1, <2>5, SeqMonotonic
  <2>7. Len(deltaCh) \in Nat /\ Len(deltaCh) <= Emitted
    BY <2>4 DEF Delivering
  <2>. QED
    BY <2>1, <2>3, <2>4, <2>6, <2>7
<1>s. spoken \subseteq Nat /\ \A d \in spoken : d >= 1
  BY <1>0
<1>m. ASSUME spoken' = spoken, Good' => Ends(sent', Taken(k1)) PROVE SentText'
  BY <1>m DEF SentText
<1>i. Good => Ends(sent, Taken(k))
  BY DEF SentText
<1>1. ASSUME spoken' = spoken, sent' = sent, gw' = gw, k1 = k PROVE SentText'
  <2>. HIDE DEF k, k1, Taken
  <2>. QED
    BY <1>1, <1>i, <1>m DEF Good
<1>2. CASE ExecStep
  <2>1. \/ Emitted' = Emitted /\ deltaCh' = deltaCh
        \/ Emitted' = Emitted + 1 /\ deltaCh' = Append(deltaCh, Emitted + 1)
    BY <1>2, EmittedKept
  <2>2. k1 = k
    <3>1. CASE Emitted' = Emitted /\ deltaCh' = deltaCh
      BY <3>1
    <3>2. CASE Emitted' = Emitted + 1 /\ deltaCh' = Append(deltaCh, Emitted + 1)
      <4>1. Len(deltaCh') = Len(deltaCh) + 1
        BY <1>0, <3>2
      <4>. QED
        BY <1>0, <3>2, <4>1
    <3>. QED
      BY <2>1, <3>1, <3>2
  <2>. HIDE DEF k, k1
  <2>. QED
    BY <1>1, <1>2, <2>2, ExecFrame
<1>3. CASE GatewayStep \/ GatewayInterrupts
  <2>f. spoken' = spoken /\ Emitted' = Emitted
    BY <1>3, GatewayFrame DEF Emitted
  <2>1. SUFFICES ASSUME Good' PROVE Ends(sent', Taken(k1))
    BY <1>m, <2>f
  <2>2. Good /\ Ends(sent, Taken(k))
    BY <1>3, <1>i, <2>1, GatewaySends
  <2>z. ~gw.sentStart => Taken(k) = {}
    <3>1. ~gw.sentStart => k = 0
      BY <1>0, <2>2 DEF Delivering
    <3>2. Taken(0) = {}
      <4>1. ASSUME NEW d \in spoken PROVE ~(d <= 0)
        BY <1>s
      <4>. QED
        BY <4>1
    <3>. HIDE DEF k, Taken
    <3>. QED
      BY <3>1, <3>2
  <2>3. CASE deltaCh' = deltaCh /\ (sent' = sent \/ ~gw.sentStart)
    <3>1. k1 = k
      BY <2>3, <2>f
    <3>. HIDE DEF k, k1, Taken
    <3>. QED
      BY <1>0, <2>2, <2>3, <2>z, <3>1, EndsEmpty
  <2>4. CASE /\ sent' = sent \o StartEvent
                     \o (IF Head(deltaCh) \in spoken THEN <<Head(deltaCh)>> ELSE <<>>)
             /\ deltaCh # <<>> /\ deltaCh' = Tail(deltaCh)
    <3>. DEFINE s == sent \o StartEvent
                h == Head(deltaCh)
    <3>1. /\ Len(deltaCh') = Len(deltaCh) - 1 /\ Len(deltaCh) >= 1 /\ h = deltaCh[1]
      BY <1>0, <2>4, SetOfTail
    <3>2. k1 = k + 1
      BY <1>0, <2>f, <3>1
    <3>3. h = k + 1
      BY <1>0, <3>1 DEF Delivering
    <3>4. s \in Seq(Nat)
      BY <1>0 DEF StartEvent, ResponseStart
    <3>5. Ends(s, Taken(k))
      <4>1. CASE gw.sentStart
        <5>1. s = sent
          BY <1>0, <4>1 DEF StartEvent
        <5>. QED
          BY <2>2, <5>1
      <4>2. CASE ~gw.sentStart
        <5>1. Taken(k) = {}
          BY <2>z, <4>2
        <5>. HIDE DEF s, Taken
        <5>. QED
          BY <3>4, <5>1, EndsEmpty
      <4>. QED
        BY <4>1, <4>2
    <3>6. CASE h \in spoken
      <4>1. Taken(k + 1) = Taken(k) \cup {h}
        <5>1. k \in Nat /\ h = k + 1
          BY <1>0, <3>3
        <5>. HIDE DEF k, h
        <5>2. ASSUME NEW d \in spoken PROVE d <= k + 1 <=> d <= k \/ d = h
          BY <1>s, <5>1
        <5>. QED
          BY <3>6, <5>1, <5>2
      <4>2. sent' = s \o <<h>>
        BY <2>4, <3>6
      <4>3. h \in Nat /\ \A x \in Taken(k) : x < h
        <5>. HIDE DEF k
        <5>. QED
          BY <1>0, <3>3
      <4>. HIDE DEF s, Taken, k, k1, h
      <4>4. Ends(s \o <<h>>, Taken(k) \cup {h})
        BY <3>4, <3>5, <4>3, EndsAppend
      <4>. QED
        BY <3>2, <4>1, <4>2, <4>4
    <3>7. CASE h \notin spoken
      <4>1. Taken(k + 1) = Taken(k)
        <5>1. k \in Nat /\ h = k + 1
          BY <1>0, <3>3
        <5>. HIDE DEF k, h
        <5>2. ASSUME NEW d \in spoken PROVE d <= k + 1 <=> d <= k \/ d = h
          BY <1>s, <5>1
        <5>. QED
          BY <3>7, <5>1, <5>2
      <4>2. sent' = s \o <<>>
        BY <2>4, <3>7
      <4>3. sent' = s
        <5>. HIDE DEF s
        <5>. QED
          BY <3>4, <4>2
      <4>. HIDE DEF s, Taken, k, k1, h
      <4>. QED
        BY <3>2, <3>5, <4>1, <4>3
    <3>. QED
      BY <3>6, <3>7
  <2>. QED
    BY <1>3, <2>1, <2>3, <2>4, GatewaySends
<1>4. CASE WorkerStep \/ FutureUser \/ PlaybackStep \/ UNCHANGED vars
  <2>1. /\ spoken' = spoken /\ sent' = sent /\ gw' = gw /\ exec' = exec
        /\ deltaCh' = deltaCh
    BY <1>4, WorkerFrame, UserFrame, PlaybackFrame, IdleFrame
  <2>2. k1 = k
    BY <2>1 DEF Emitted
  <2>. HIDE DEF k, k1
  <2>. QED
    BY <1>1, <2>1, <2>2
<1>. QED
  BY <1>2, <1>3, <1>4, Steps

-----------------------------------------------------------------------------
(* The invariant *)

(* It holds before the first delta.                                         *)
LEMMA InitInv == Init => IInv
<1>. SUFFICES ASSUME Init PROVE IInv
  OBVIOUS
<1>. USE BoundsAssumption
<1>0. /\ TypeOK /\ FP!IInv
  BY InitTypes, FutureStarts DEF F!Init, Init
<1>1. /\ exec.pc = "emit" /\ exec.next = 1 /\ exec.pending = <<>> /\ exec.clause = <<>>
      /\ exec.audio = "none" /\ exec.failed = FALSE /\ start = "unset" /\ queueClosed = FALSE
      /\ queue = <<>> /\ results = <<>> /\ worker.pc = "take" /\ worker.clause = <<>>
      /\ resultsClosed = FALSE /\ streamClosed = FALSE /\ ctxDone = FALSE
      /\ deltaCh = <<>> /\ deltaClosed = FALSE /\ sent = <<>> /\ played = <<>> /\ skipped = {}
  BY DEF Init
<1>2. /\ gw.pc = "select" /\ gw.gotResponse = FALSE /\ gw.gotAudio = ~EarlyAudio
      /\ gw.deltaNil = FALSE /\ gw.sentStart = FALSE /\ gw.transferred = FALSE
      /\ gw.audio = "none" /\ gw.completion = "none"
      /\ playback.pc = "off" /\ playback.source = "none" /\ playback.starts = 0
      /\ playback.finished = FALSE
  BY DEF Init
<1>3. /\ future.resolved = FALSE /\ future.audioStart = "none"
      /\ future.response.audio = "none"
  BY DEF Init, F!NewFuture
<1>4. \A c \in F!Callers : result[c].kind = "pending" /\ result[c].audio = "none"
  BY DEF Init, F!Pending
<1>5. "wait" \in F!Callers
  BY CallerNames
<1>6. Responding /\ Streaming /\ Working
  BY <1>1, <1>2 DEF Responding, Streaming, Working, Good, WorkerCtxDone
<1>7. Producing
  BY <1>1, <1>2, <1>3, <1>4, <1>5 DEF Producing, Got, Fits
<1>8. Conveying
  BY <1>2, <1>4, <1>5 DEF Conveying, Good, Got
<1>9. Completing
  BY <1>2 DEF Completing
<1>10. Staged /\ Conserved
  <2>1. spoken \subseteq Nat /\ \A d \in spoken : d >= 1
    BY <1>0, TypeParts DEF TextOK, Deltas
  <2>2. {d \in spoken : d < 1} = {}
    <3>1. ASSUME NEW d \in spoken PROVE ~(d < 1)
      BY <2>1
    <3>. QED
      BY <3>1
  <2>3. InLine({}, {}, {}, {}, {}, {}, {}, 1) /\ Kept({}, {}, {}, {}, {}, {}, {}, 1)
    BY <2>2 DEF InLine, Kept, Precedes
  <2>. QED
    BY <1>1, <2>3, EmptyText, NoClauses DEF Staged, Conserved
<1>11. Emitted = 0 /\ Len(deltaCh) = 0
  BY <1>1 DEF Emitted
<1>12. Delivering
  BY <1>1, <1>2, <1>11 DEF Delivering
<1>13. SentText
  <2>1. spoken \subseteq Nat /\ \A d \in spoken : d >= 1
    BY <1>0, TypeParts DEF TextOK, Deltas
  <2>2. {d \in spoken : d <= 0} = {}
    <3>1. ASSUME NEW d \in spoken PROVE ~(d <= 0)
      BY <2>1
    <3>. QED
      BY <3>1
  <2>3. sent \in Seq(Nat)
    BY <1>1
  <2>4. Ends(sent, {})
    BY <2>3, EndsEmpty
  <2>. QED
    BY <1>11, <2>2, <2>4 DEF SentText
<1>. QED
  BY <1>0, <1>6, <1>7, <1>8, <1>9, <1>10, <1>12, <1>13 DEF IInv

(* Every step keeps it: the future first, then the types, then the rest.    *)
LEMMA NextInv == IInv /\ [Next]_vars => IInv'
<1>. SUFFICES ASSUME IInv, [Next]_vars PROVE IInv'
  OBVIOUS
<1>0. /\ TypeOK /\ FP!IInv /\ Responding /\ Producing /\ Conveying /\ Streaming /\ Working
      /\ Staged /\ Conserved /\ Completing /\ Delivering /\ SentText
  BY DEF IInv
<1>1. FP!IInv'
  BY <1>0, FutureStep, FutureKeeps
<1>2. TypeOK'
  BY <1>0, <1>1, NextTypes
<1>3. Responding' /\ Producing' /\ Conveying'
  BY <1>0, NextResponding, NextProducing, NextConveying
<1>4. Streaming' /\ Working'
  BY <1>0, NextStreaming, NextWorking
<1>5. Staged' /\ Conserved' /\ Completing'
  BY <1>0, NextStaged, NextCompleting
<1>6. Delivering' /\ SentText'
  BY <1>0, <1>2, NextDelivering, NextSentText
<1>. QED
  BY <1>1, <1>2, <1>3, <1>4, <1>5, <1>6 DEF IInv

(* The inductive invariant holds for any number of deltas and any capacity of the *)
(* channels, with early audio or without, with faults or without.           *)
THEOREM PipelineInvariant == Spec => []IInv
<1>1. Init => IInv
  BY InitInv
<1>2. IInv /\ [Next]_vars => IInv'
  BY NextInv
<1>. QED
  BY <1>1, <1>2, PTL DEF Spec

-----------------------------------------------------------------------------
(* What it says of the turn *)

(* The state of the turn has its types.                                     *)
THEOREM PipelineTypeOK == Spec => []TypeOK
<1>1. IInv => TypeOK
  BY DEF IInv
<1>. QED
  BY <1>1, PipelineInvariant, PTL

(* The responder, the publisher and the waiters use the future as its own   *)
(* specification says: the turn implements it (FutureSpec).                 *)
THEOREM PipelineUsesFuture == Spec => FutureSpec
<1>1. Init => F!Init
  BY DEF Init, F!Init
<1>2. IInv /\ [Next]_vars => [F!Next]_(F!vars)
  BY FutureStep DEF IInv
<1>. QED
  BY <1>1, <1>2, PipelineInvariant, PTL DEF Spec, FutureSpec, F!Spec

(* The turn's audio is played once: never twice, and when the gateway returns *)
(* normally a turn that has audio has started it (AudioPlayedOnce).         *)
THEOREM PipelinePlaysOnce == Spec => []AudioPlayedOnce
<1>1. ASSUME IInv PROVE AudioPlayedOnce
  <2>1. playback.starts = IF gw.completion = "none" THEN 0 ELSE 1
    BY <1>1 DEF IInv, Conveying
  <2>2. ASSUME Answered PROVE playback.starts = 1 <=> future.response.audio # "none"
    <3>1. /\ gw.gotResponse /\ Good
          /\ gw.completion # "none" <=> \E c \in F!Callers : result[c].audio # "none"
      BY <1>1, <2>2 DEF IInv, Conveying, Answered, Good
    <3>2. Got("wait")
      BY <1>1, <3>1 DEF IInv, Conveying
    <3>3. future.response.audio # "none" <=> \E c \in F!Callers : result[c].audio # "none"
      BY <1>1, <3>2, Handover DEF IInv
    <3>. QED
      BY <2>1, <3>1, <3>3
  <2>. QED
    BY <2>1, <2>2 DEF AudioPlayedOnce
<1>. QED
  BY <1>1, PipelineInvariant, PTL

(* Clauses are played in the order of the text, each at most once, whatever the *)
(* queue, the worker and the cancellation do (PlayedInOrder).               *)
THEOREM PipelinePlaysInOrder == Spec => []PlayedInOrder
<1>1. IInv => PlayedInOrder
  BY DEF IInv, Staged, Increasing, PlayedInOrder
<1>. QED
  BY <1>1, PipelineInvariant, PTL

(* A playback that reports the turn complete has played the whole text but for the *)
(* clauses whose synthesis failed (FinishedMeansAllPlayed).                 *)
THEOREM PipelinePlaysAll == Spec => []FinishedMeansAllPlayed
<1>1. ASSUME IInv PROVE FinishedMeansAllPlayed
  <2>. SUFFICES ASSUME playback.finished, gw.pc \notin {"failed", "terminated"}
                PROVE  played = InOrder(spoken \ skipped)
    BY DEF FinishedMeansAllPlayed
  <2>0. /\ GatewayOK /\ TextOK /\ exec.failed \in BOOLEAN
    BY <1>1, TypeParts DEF IInv, ExecOK, ExecTypes
  <2>1. Good
    BY <2>0 DEF Good, GatewayOK, GatewayTypes
  <2>2. gw.gotResponse
    BY <1>1, <2>1 DEF IInv, Conveying
  <2>3. ~exec.failed
    BY <1>1, <2>1, <2>2 DEF IInv, Conveying, Producing
  <2>4. spoken \subseteq ToSet(played) \cup skipped
    BY <1>1, <2>1, <2>3 DEF IInv, Completing
  <2>5. ToSet(played) \subseteq spoken /\ skipped \cap ToSet(played) = {}
    BY <1>1 DEF IInv, Staged, InLine
  <2>6. ToSet(played) = spoken \ skipped
    BY <2>4, <2>5
  <2>7. played \in Seq(Nat) /\ Increasing(played)
    <3>1. Deltas \subseteq Nat
      BY DEF Deltas
    <3>. QED
      BY <1>1, <2>0, <3>1, SeqMonotonic DEF TextOK, IInv, Staged
  <2>. QED
    BY <2>6, <2>7, IncreasingIsInOrder
<1>. QED
  BY <1>1, PipelineInvariant, PTL

(* When the gateway returns normally the client has been sent the whole text, in *)
(* order, as its last deltas (TextDelivered).                               *)
THEOREM PipelineDeliversText == Spec => []TextDelivered
<1>1. ASSUME IInv PROVE TextDelivered
  <2>. SUFFICES ASSUME Answered PROVE IsSuffix(ResponseText, sent)
    BY DEF TextDelivered
  <2>1. gw.pc = "ok" /\ Good
    BY DEF Answered, Good
  <2>2. gw.gotResponse /\ gw.deltaNil /\ Got("wait")
    BY <1>1, <2>1 DEF IInv, Conveying
  <2>3. exec.pc = "done" /\ ~exec.failed
    BY <1>1, <2>2 DEF IInv, Producing
  <2>4. exec.next = NumDeltas + 1
    BY <1>1, <2>3 DEF IInv, Responding
  <2>5. deltaCh = <<>>
    BY <1>1, <2>2 DEF IInv, Delivering
  <2>6. Emitted - Len(deltaCh) = NumDeltas
    BY <2>3, <2>4, <2>5, BoundsAssumption DEF Emitted
  <2>7. spoken \subseteq Deltas /\ spoken \subseteq Nat /\ \A d \in spoken : d <= NumDeltas
    BY <1>1, TypeParts, BoundsAssumption DEF IInv, TextOK, Deltas
  <2>8. {d \in spoken : d <= Emitted - Len(deltaCh)} = spoken
    BY <2>6, <2>7
  <2>9. Ends(sent, spoken)
    BY <1>1, <2>1, <2>8 DEF IInv, SentText
  <2>10. sent \in Seq(Nat)
    <3>1. Deltas \cup {ResponseStart} \subseteq Nat
      BY DEF Deltas, ResponseStart
    <3>. QED
      BY <1>1, <3>1, TypeParts, SeqMonotonic DEF IInv, SentOK
  <2>11. PICK u \in Seq(Nat), t \in Seq(Nat) :
            sent = u \o t /\ Increasing(t) /\ ToSet(t) = spoken
    BY <2>9, <2>10, EndsSplit
  <2>12. t = ResponseText
    BY <2>11, IncreasingIsInOrder DEF ResponseText
  <2>. QED
    BY <2>11, <2>12, ConcatSuffix
<1>. QED
  BY <1>1, PipelineInvariant, PTL
=================================================================================
