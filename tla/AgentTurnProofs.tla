-------------------------- MODULE AgentTurnProofs --------------------------
(***************************************************************************)
(* Proofs about AgentTurn, for every number of sessions, turns, tools and  *)
(* steps.                                                                  *)
(*                                                                         *)
(* The memory of a turn is written by the orchestrator, the executor and   *)
(* the output goroutine.  The argument has three parts.  Which turn: the   *)
(* orchestrator's turn is the read loop's or none (SameTurn), identifiers  *)
(* are above all that were used (Fresh), so a save is always of the latest *)
(* turn of its session, and replacing a record where it stands or adding   *)
(* it at the end keeps a scope's turns distinct and in order (KeptDistinct,*)
(* KeptOrdered).  What text: outputText is what the sink got, and then     *)
(* what the orchestrator was told (SameText).  What a prewarm can miss: a  *)
(* session that has records of an earlier turn has had a playback, whose   *)
(* outcome is metadata of the next turn (OwnRecords).                      *)
(*                                                                         *)
(* A step either saves nothing (QuietStep) or saves the turn its session   *)
(* is in (SavingStep); each action is brought under one of the two.        *)
(***************************************************************************)
EXTENDS AgentTurn, FiniteSetTheorems, SequenceTheorems, TLAPS

\* The turn is under way.
Busy == Executing \cup {"prepare", "deliver"}

Distinct(records) ==
    \A i, j \in DOMAIN records : i # j => records[i].turn # records[j].turn

Ordered(records) ==
    \A i, j \in DOMAIN records : i < j => records[i].turn < records[j].turn

\* The orchestrator's turn and the read loop's are the same, unless the playback is over.
SameTurn(s) ==
    /\ turn[s].pc \in Busy => turn[s].id # 0
    /\ orch[s].turn \in {0, turn[s].id}
    /\ orch[s].playing => orch[s].turn # 0
    /\ turn[s].pc \in Busy /\ ~ turn[s].early => orch[s].turn = turn[s].id /\ ~ orch[s].playing
    /\ turn[s].pc \in Busy /\ turn[s].early /\ ~ orch[s].playing => previous[s]

\* What was said is what the executor has collected, and then what the orchestrator has.
SameText(s) ==
    /\ turn[s].pc \in Busy => turn[s].out = turn[s].said
    /\ turn[s].pc \in {"deliver", "idle"} /\ orch[s].turn # 0 => orch[s].response = turn[s].said

\* The records of a session are of its turns; without a playback before it, of one.
OwnRecords(s) ==
    /\ \A i \in DOMAIN store[s] : store[s][i].turn \in 1 .. turn[s].id
    /\ Ordered(store[s])
    /\ turn[s].pc \in Busy /\ ~ turn[s].metadata =>
         \A i \in DOMAIN store[s] : store[s][i].turn = turn[s].id
    /\ turn[s].pc = "idle" /\ ~ previous[s] /\ ~ orch[s].playing => DOMAIN store[s] = {}
    /\ turn[s].hit => turn[s].pc \in Executing /\ ~ turn[s].metadata

\* Turn identifiers are not shared, and the device's records are of turns that were begun.
Identified ==
    /\ \A s, u \in Sessions : s # u /\ turn[s].id = turn[u].id => turn[s].id = 0
    /\ \A i \in DOMAIN store[Device] :
         \/ store[Device][i].turn = Earlier
         \/ \E u \in Sessions : store[Device][i].turn \in 1 .. turn[u].id
    /\ Distinct(store[Device])

\* The tool loop: its budget, and the calls that have been answered.
Counted(s) ==
    /\ turn[s].pc = "tools" => /\ turn[s].step < MaxSteps
                               /\ Len(turn[s].answers) < Len(turn[s].asked)
    /\ turn[s].pc \in Executing \ {"tools", "save"} =>
         Len(turn[s].answers) = Len(turn[s].asked)

IInv ==
    /\ TypeOK
    /\ \A s \in Sessions : SameTurn(s) /\ SameText(s) /\ OwnRecords(s) /\ Counted(s)
    /\ Identified
    /\ SaidIsSaved

\* The calls that have been answered were answered by the tools they named.
Named(s) ==
    \A i \in DOMAIN turn[s].answers :
        /\ turn[s].answers[i].id = i
        /\ turn[s].answers[i].tool = Catalog[turn[s].asked[i]].name

-----------------------------------------------------------------------------
(* The records of a scope *)

(* The places of a sequence of records.                                     *)
LEMMA Places ==
    ASSUME NEW records \in Seq(MemoryRecords)
    PROVE  /\ Len(records) \in Nat /\ DOMAIN records = 1 .. Len(records)
           /\ \A i \in DOMAIN records : /\ records[i] \in MemoryRecords
                                        /\ records[i].turn \in Int
<1>1. Len(records) \in Nat /\ DOMAIN records = 1 .. Len(records)
  BY LenProperties
<1>2. \A i \in DOMAIN records : records[i] \in MemoryRecords
  BY <1>1, ElementOfSeq
<1>3. TurnIDs \cup {Earlier} \subseteq Int
  BY DEF TurnIDs, Earlier
<1>. QED
  BY <1>1, <1>2, <1>3 DEF MemoryRecords

(* Upsert of a turn that has a record replaces it,                          *)
LEMMA Replaced ==
    ASSUME NEW records \in Seq(MemoryRecords), NEW r \in MemoryRecords,
           \E i \in DOMAIN records : records[i].turn = r.turn
    PROVE  /\ Upsert(records, r) \in Seq(MemoryRecords)
           /\ DOMAIN Upsert(records, r) = DOMAIN records
           /\ \A i \in DOMAIN records :
                Upsert(records, r)[i] = IF records[i].turn = r.turn THEN r ELSE records[i]
<1>1. Len(records) \in Nat /\ DOMAIN records = 1 .. Len(records)
      /\ \A i \in DOMAIN records : records[i] \in MemoryRecords
  BY Places
<1>2. Upsert(records, r) = [i \in 1 .. Len(records) |->
                              IF records[i].turn = r.turn THEN r ELSE records[i]]
  BY <1>1 DEF Upsert
<1>3. [i \in 1 .. Len(records) |-> IF records[i].turn = r.turn THEN r ELSE records[i]]
        \in Seq(MemoryRecords)
  BY <1>1
<1>. QED
  BY <1>1, <1>2, <1>3

(* and of another one adds it at the end.                                   *)
LEMMA Added ==
    ASSUME NEW records \in Seq(MemoryRecords), NEW r \in MemoryRecords,
           ~ \E i \in DOMAIN records : records[i].turn = r.turn
    PROVE  /\ Upsert(records, r) \in Seq(MemoryRecords)
           /\ DOMAIN Upsert(records, r) = 1 .. Len(records) + 1
           /\ \A i \in DOMAIN records : Upsert(records, r)[i] = records[i]
           /\ Upsert(records, r)[Len(records) + 1] = r
<1>1. Upsert(records, r) = Append(records, r)
  BY DEF Upsert
<1>. QED
  BY <1>1, Places, AppendProperties, LenProperties

(* The end of a sequence of records.                                        *)
LEMMA SuffixRecords ==
    ASSUME NEW records \in Seq(MemoryRecords), NEW m \in 1 .. Len(records) + 1
    PROVE  /\ SubSeq(records, m, Len(records)) \in Seq(MemoryRecords)
           /\ Len(SubSeq(records, m, Len(records))) = Len(records) - m + 1
           /\ \A i \in 1 .. Len(records) - m + 1 :
                SubSeq(records, m, Len(records))[i] = records[m + i - 1]
<1>1. Len(records) \in Nat /\ \A i \in 1 .. Len(records) : records[i] \in MemoryRecords
  BY LenProperties, ElementOfSeq
<1>2. m \in Int /\ Len(records) \in Int /\ \A i \in m .. Len(records) : records[i] \in MemoryRecords
  BY <1>1
<1>3. /\ SubSeq(records, m, Len(records)) \in Seq(MemoryRecords)
      /\ Len(SubSeq(records, m, Len(records)))
            = IF m <= Len(records) THEN Len(records) - m + 1 ELSE 0
      /\ \A i \in 1 .. Len(records) - m + 1 :
                SubSeq(records, m, Len(records))[i] = records[m + i - 1]
  BY <1>2, SubSeqProperties
<1>4. (IF m <= Len(records) THEN Len(records) - m + 1 ELSE 0) = Len(records) - m + 1
  BY <1>1
<1>. QED
  BY <1>3, <1>4

(* LastOf: a sequence that is long enough loses its beginning.              *)
LEMMA LastRecords ==
    ASSUME NEW records \in Seq(MemoryRecords), NEW n \in Nat \ {0}
    PROVE  /\ LastOf(records, n) \in Seq(MemoryRecords)
           /\ Len(LastOf(records, n)) = IF Len(records) > n THEN n ELSE Len(records)
           /\ \A i \in 1 .. Len(LastOf(records, n)) :
                /\ i + Len(records) - Len(LastOf(records, n)) \in 1 .. Len(records)
                /\ LastOf(records, n)[i]
                     = records[i + Len(records) - Len(LastOf(records, n))]
<1>0. Len(records) \in Nat
  BY LenProperties
<1>1. CASE Len(records) > n
  <2>1. /\ LastOf(records, n) = SubSeq(records, Len(records) - n + 1, Len(records))
        /\ Len(records) - n + 1 \in 1 .. Len(records) + 1
    BY <1>0, <1>1 DEF LastOf
  <2>2. /\ LastOf(records, n) \in Seq(MemoryRecords)
        /\ Len(LastOf(records, n)) = n
        /\ \A i \in 1 .. n : LastOf(records, n)[i] = records[Len(records) - n + i]
    BY <1>0, <2>1, SuffixRecords
  <2>. QED
    BY <1>0, <1>1, <2>2
<1>2. CASE ~ (Len(records) > n)
  <2>1. LastOf(records, n) = SubSeq(records, 1, Len(records)) /\ 1 \in 1 .. Len(records) + 1
    BY <1>0, <1>2 DEF LastOf
  <2>2. LastOf(records, n) = records
    BY <2>1, SubSeqFull
  <2>. QED
    BY <1>0, <1>2, <2>2
<1>. QED
  BY <1>1, <1>2

\* What SaveTurn makes of a scope.
Kept(records, r) == LastOf(Upsert(records, r), maxTurns)

(* Dropping the oldest records keeps what is left as it was.                *)
LEMMA LastKeeps ==
    ASSUME NEW records \in Seq(MemoryRecords)
    PROVE  /\ LastOf(records, maxTurns) \in Seq(MemoryRecords)
           /\ Len(LastOf(records, maxTurns)) <= maxTurns
           /\ \A i \in DOMAIN LastOf(records, maxTurns) :
                \E j \in DOMAIN records : LastOf(records, maxTurns)[i] = records[j]
           /\ Distinct(records) => Distinct(LastOf(records, maxTurns))
           /\ Ordered(records) => Ordered(LastOf(records, maxTurns))
<1>. DEFINE L == LastOf(records, maxTurns)
            n == Len(records) - Len(L)
<1>0. maxTurns \in Nat \ {0}
  BY AgentAssumption
<1>1. L \in Seq(MemoryRecords) /\ Len(L) <= maxTurns
  BY <1>0, Places, LastRecords
<1>2. /\ n \in Int
      /\ \A i \in DOMAIN L : i \in Int /\ i + n \in DOMAIN records /\ L[i] = records[i + n]
  <2>1. /\ Len(records) \in Nat /\ DOMAIN records = 1 .. Len(records)
        /\ Len(L) \in Nat /\ DOMAIN L = 1 .. Len(L)
    BY <1>1, Places
  <2>2. \A i \in 1 .. Len(L) : /\ i + Len(records) - Len(L) \in 1 .. Len(records)
                               /\ L[i] = records[i + Len(records) - Len(L)]
    BY <1>0, LastRecords
  <2>. HIDE DEF L
  <2>3. \A i \in 1 .. Len(L) : i + Len(records) - Len(L) = i + n
    BY <2>1
  <2>. QED
    BY <2>1, <2>2, <2>3
<1>. HIDE DEF L, n
<1>3. \A i \in DOMAIN L : \E j \in DOMAIN records : L[i] = records[j]
  BY <1>2
<1>4. Distinct(records) => Distinct(L)
  BY <1>2 DEF Distinct
<1>5. Ordered(records) => Ordered(L)
  BY <1>2 DEF Ordered
<1>. QED
  BY <1>1, <1>3, <1>4, <1>5 DEF L

(* A saved scope is a sequence of at most maxTurns records: the new one,    *)
(* and old ones of other turns.                                             *)
LEMMA KeptRecords ==
    ASSUME NEW records \in Seq(MemoryRecords), NEW r \in MemoryRecords
    PROVE  /\ Kept(records, r) \in Seq(MemoryRecords) /\ Len(Kept(records, r)) <= maxTurns
           /\ \A i \in DOMAIN Kept(records, r) :
                \/ Kept(records, r)[i] = r
                \/ \E j \in DOMAIN records : /\ Kept(records, r)[i] = records[j]
                                             /\ records[j].turn # r.turn
<1>. DEFINE u == Upsert(records, r)
<1>1. /\ u \in Seq(MemoryRecords)
      /\ \A i \in DOMAIN u :
           \/ u[i] = r
           \/ \E j \in DOMAIN records : u[i] = records[j] /\ records[j].turn # r.turn
  <2>1. CASE \E i \in DOMAIN records : records[i].turn = r.turn
    BY <2>1, Replaced
  <2>2. CASE ~ \E i \in DOMAIN records : records[i].turn = r.turn
    <3>1. \A i \in 1 .. Len(records) + 1 : i \in DOMAIN records \/ i = Len(records) + 1
      BY Places
    <3>. QED
      BY <2>2, <3>1, Added
  <2>. QED
    BY <2>1, <2>2
<1>. HIDE DEF u
<1>2. Kept(records, r) = LastOf(u, maxTurns)
  BY DEF Kept, u
<1>. QED
  BY <1>1, <1>2, LastKeeps

(* Saving a turn keeps the turns of a scope distinct,                       *)
LEMMA KeptDistinct ==
    ASSUME NEW records \in Seq(MemoryRecords), NEW r \in MemoryRecords, Distinct(records)
    PROVE  Distinct(Kept(records, r))
<1>. DEFINE u == Upsert(records, r)
<1>1. u \in Seq(MemoryRecords) /\ Distinct(u)
  <2>1. CASE \E i \in DOMAIN records : records[i].turn = r.turn
    BY <2>1, Replaced DEF Distinct
  <2>2. CASE ~ \E i \in DOMAIN records : records[i].turn = r.turn
    <3>1. \A i \in 1 .. Len(records) + 1 : i \in DOMAIN records \/ i = Len(records) + 1
      BY Places
    <3>. QED
      BY <2>2, <3>1, Added DEF Distinct
  <2>. QED
    BY <2>1, <2>2
<1>. QED
  BY <1>1, LastKeeps DEF Kept

(* and in their order, when the turn that is saved is the latest.           *)
LEMMA KeptOrdered ==
    ASSUME NEW records \in Seq(MemoryRecords), NEW r \in MemoryRecords, Ordered(records),
           \A i \in DOMAIN records : records[i].turn <= r.turn
    PROVE  Ordered(Kept(records, r))
<1>. DEFINE u == Upsert(records, r)
<1>0. r.turn \in Int
  BY DEF MemoryRecords, TurnIDs, Earlier
<1>1. u \in Seq(MemoryRecords) /\ Ordered(u)
  <2>1. CASE \E i \in DOMAIN records : records[i].turn = r.turn
    <3>1. DOMAIN u = DOMAIN records /\ \A i \in DOMAIN records : u[i].turn = records[i].turn
      BY <2>1, Replaced
    <3>. QED
      BY <2>1, <3>1, Replaced DEF Ordered
  <2>2. CASE ~ \E i \in DOMAIN records : records[i].turn = r.turn
    <3>1. \A i \in 1 .. Len(records) + 1 : i \in DOMAIN records \/ i = Len(records) + 1
      BY Places
    <3>2. /\ \A i \in DOMAIN records : records[i].turn < r.turn /\ i < Len(records) + 1
          /\ \A i \in DOMAIN records : i \in Int
      BY <1>0, <2>2, Places
    <3>3. DOMAIN u = 1 .. Len(records) + 1 /\ \A i \in DOMAIN records : u[i] = records[i]
          /\ u[Len(records) + 1] = r
      BY <2>2, Added
    <3>4. ASSUME NEW i \in DOMAIN u, NEW j \in DOMAIN u, i < j PROVE u[i].turn < u[j].turn
      <4>1. i \in DOMAIN records
        BY <3>1, <3>3, <3>4, Places
      <4>2. CASE j \in DOMAIN records
        BY <3>3, <3>4, <4>1, <4>2 DEF Ordered
      <4>3. CASE j = Len(records) + 1
        BY <3>2, <3>3, <4>1, <4>3
      <4>. QED
        BY <3>1, <3>3, <4>2, <4>3
    <3>. QED
      BY <2>2, <3>4, Added DEF Ordered
  <2>. QED
    BY <2>1, <2>2
<1>. QED
  BY <1>1, LastKeeps DEF Kept

-----------------------------------------------------------------------------
(* What a step may do to the memory and to one session *)

(* An interval has as many elements as its upper end says.                  *)
LEMMA IntervalSize ==
    ASSUME NEW n \in Nat
    PROVE  IsFiniteSet(1 .. n) /\ Cardinality(1 .. n) = n
<1>1. IsFiniteSet(1 .. n) /\ Cardinality(1 .. n) = IF 1 > n THEN 0 ELSE n - 1 + 1
  BY FS_Interval
<1>2. (IF 1 > n THEN 0 ELSE n - 1 + 1) = n
  OBVIOUS
<1>. QED
  BY <1>1, <1>2

(* A new turn identifier is above every one in use.                         *)
LEMMA Fresh ==
    ASSUME TypeOK
    PROVE  /\ Count \in 0 .. MaxTurns
           /\ \A s \in Sessions : turn[s].id <= Count
<1>. DEFINE Used == {i \in TurnIDs : \E s \in Sessions :
                       \/ turn[s].id >= i
                       \/ \E r \in DOMAIN store[s] : store[s][r].turn >= i}
<1>1. IsFiniteSet(TurnIDs) /\ Cardinality(TurnIDs) = MaxTurns
  BY IntervalSize, AgentAssumption DEF TurnIDs
<1>2. /\ IsFiniteSet(Used) /\ Cardinality(Used) \in Nat /\ Cardinality(Used) <= MaxTurns
  BY <1>1, FS_Subset, FS_CardinalityType
<1>3. ASSUME NEW s \in Sessions PROVE turn[s].id <= Cardinality(Used)
  <2>1. turn[s].id \in 0 .. MaxTurns
    BY AgentAssumption DEF TypeOK, Turns, TurnIDs
  <2>2. 1 .. turn[s].id \subseteq Used
    BY <2>1, AgentAssumption DEF TurnIDs
  <2>3. Cardinality(1 .. turn[s].id) = turn[s].id
    BY <2>1, IntervalSize, AgentAssumption
  <2>. HIDE DEF Used
  <2>4. Cardinality(1 .. turn[s].id) <= Cardinality(Used)
    BY <1>2, <2>2, FS_Subset
  <2>. QED
    BY <2>3, <2>4
<1>4. MaxTurns \in Nat
  BY AgentAssumption
<1>. QED
  BY <1>2, <1>3, <1>4 DEF Count

(* SaveTurn touches the session's scope and the device's.                   *)
LEMMA Saves ==
    ASSUME TypeOK, NEW s \in Sessions, NEW r \in MemoryRecords, SaveTurn(s, r)
    PROVE  /\ \A k \in Scopes : store[k] \in Seq(MemoryRecords)
           /\ s \in Scopes /\ Device \in Scopes /\ s # Device
           /\ store'[s] = Kept(store[s], r) /\ store'[Device] = Kept(store[Device], r)
           /\ \A u \in Sessions \ {s} : store'[u] = store[u] /\ u # Device
           /\ store' \in [Scopes -> Seq(MemoryRecords)]
           /\ \A k \in Scopes : Len(store'[k]) <= maxTurns
<1>1. s \in Scopes /\ Device \in Scopes /\ s # Device
      /\ \A k \in Scopes : store[k] \in Seq(MemoryRecords) /\ Len(store[k]) <= maxTurns
  BY AgentAssumption DEF TypeOK, Scopes
<1>2. \A k \in Scopes : store'[k] = IF k \in {s, Device} THEN Kept(store[k], r) ELSE store[k]
  BY DEF SaveTurn, Kept
<1>3. \A k \in Scopes : store'[k] \in Seq(MemoryRecords) /\ Len(store'[k]) <= maxTurns
  BY <1>1, <1>2, KeptRecords
<1>4. store' = [k \in Scopes |-> store'[k]]
  BY DEF SaveTurn
<1>5. \A u \in Sessions \ {s} : u \in Scopes /\ u \notin {s, Device}
  BY AgentAssumption DEF Scopes
<1>. QED
  BY <1>1, <1>2, <1>3, <1>4, <1>5

\* The conjuncts about a session that do not mention the memory.
Tidy(s) ==
    /\ SameTurn(s) /\ SameText(s)
    /\ Counted(s)
    /\ turn[s].hit => turn[s].pc \in Executing /\ ~ turn[s].metadata

(* A step of one session that saves nothing and stays in its turn.          *)
LEMMA QuietStep ==
    ASSUME IInv, TypeOK', NEW s \in Sessions, UNCHANGED store,
           \A u \in Sessions \ {s} :
             turn'[u] = turn[u] /\ orch'[u] = orch[u] /\ previous'[u] = previous[u],
           turn'[s].id = turn[s].id, Tidy(s)',
           turn'[s].pc \in {"deliver", "idle"} =>
             turn[s].pc \in {"deliver", "idle"} /\ turn'[s].said = turn[s].said,
           turn'[s].pc \in Busy /\ ~ turn'[s].metadata =>
             turn[s].pc \in Busy /\ ~ turn[s].metadata,
           turn'[s].pc = "idle" /\ ~ previous'[s] /\ ~ orch'[s].playing =>
             turn[s].pc = "idle" /\ ~ previous[s] /\ ~ orch[s].playing
    PROVE  IInv'
<1>1. ASSUME NEW u \in Sessions \ {s}
      PROVE  SameTurn(u)' /\ SameText(u)' /\ OwnRecords(u)' /\ Counted(u)'
  BY DEF IInv, SameTurn, SameText, OwnRecords, Ordered, Counted
<1>2. SameTurn(s)' /\ SameText(s)' /\ Counted(s)'
  BY DEF Tidy
<1>3. OwnRecords(s)'
  BY DEF IInv, OwnRecords, Tidy, Ordered
<1>4. \A u \in Sessions : turn'[u].id = turn[u].id
  OBVIOUS
<1>5. Identified'
  BY <1>4 DEF IInv, Identified, Distinct
<1>6. SaidIsSaved'
  <2>. SUFFICES ASSUME NEW u \in Sessions, turn'[u].pc \in {"deliver", "idle"},
                       NEW k \in {u, Device}, NEW i \in DOMAIN store[k],
                       store[k][i].turn = turn'[u].id
                PROVE  store[k][i].response = turn'[u].said
    BY DEF SaidIsSaved
  <2>1. turn[u].pc \in {"deliver", "idle"} /\ turn'[u].said = turn[u].said
    OBVIOUS
  <2>. QED
    BY <1>4, <2>1 DEF IInv, SaidIsSaved
<1>. QED
  BY <1>1, <1>2, <1>3, <1>5, <1>6 DEF IInv

(* A step of one session that saves the turn it is in then.                 *)
LEMMA SavingStep ==
    ASSUME IInv, TypeOK', NEW s \in Sessions, NEW r \in MemoryRecords, SaveTurn(s, r),
           \A u \in Sessions \ {s} :
             turn'[u] = turn[u] /\ orch'[u] = orch[u] /\ previous'[u] = previous[u],
           turn'[s].id \in {turn[s].id, Count + 1}, r.turn = turn'[s].id, Tidy(s)',
           turn'[s].pc \in {"deliver", "idle"} => r.response = turn'[s].said,
           turn'[s].pc \in Busy /\ ~ turn'[s].metadata =>
             \/ turn[s].pc \in Busy /\ ~ turn[s].metadata /\ turn'[s].id = turn[s].id
             \/ DOMAIN store[s] = {},
           turn'[s].pc = "idle" => previous'[s] \/ orch'[s].playing
    PROVE  IInv'
<1>0. /\ \A k \in Scopes : store[k] \in Seq(MemoryRecords)
      /\ s \in Scopes /\ Device \in Scopes /\ s # Device
      /\ store'[s] = Kept(store[s], r) /\ store'[Device] = Kept(store[Device], r)
      /\ \A u \in Sessions \ {s} : store'[u] = store[u] /\ u # Device
  BY Saves DEF IInv
<1>1. /\ Count \in Nat /\ \A u \in Sessions : turn[u].id \in Nat /\ turn[u].id <= Count
      /\ r.turn \in Int /\ r.turn # 0 /\ turn'[s].id \in Nat /\ turn'[s].id >= turn[s].id
  <2>1. r.turn \in TurnIDs \cup {Earlier} /\ turn'[s].id \in TurnIDs \cup {0}
        /\ \A u \in Sessions : turn[u].id \in TurnIDs \cup {0}
    BY DEF IInv, MemoryRecords, TypeOK, Turns
  <2>2. Count \in Nat /\ \A u \in Sessions : turn[u].id <= Count
    BY Fresh, AgentAssumption DEF IInv
  <2>. QED
    BY <2>1, <2>2 DEF TurnIDs, Earlier
<1>2. \A u \in Sessions \ {s} : turn'[u].id = turn[u].id /\ turn[u].id # r.turn
  BY <1>1 DEF IInv, Identified
<1>3. ASSUME NEW u \in Sessions \ {s}
      PROVE  SameTurn(u)' /\ SameText(u)' /\ OwnRecords(u)' /\ Counted(u)'
  BY <1>0 DEF IInv, SameTurn, SameText, OwnRecords, Ordered, Counted
<1>4. SameTurn(s)' /\ SameText(s)' /\ Counted(s)'
  BY DEF Tidy
<1>5. ASSUME NEW k \in {s, Device}, NEW i \in DOMAIN store'[k]
      PROVE  \/ store'[k][i] = r
             \/ \E j \in DOMAIN store[k] : /\ store'[k][i] = store[k][j]
                                           /\ store[k][j].turn # r.turn
  <2>1. ASSUME NEW records \in Seq(MemoryRecords), NEW l \in DOMAIN Kept(records, r)
        PROVE  \/ Kept(records, r)[l] = r
               \/ \E j \in DOMAIN records : /\ Kept(records, r)[l] = records[j]
                                            /\ records[j].turn # r.turn
    BY <2>1, KeptRecords
  <2>2. store'[k] = Kept(store[k], r) /\ store[k] \in Seq(MemoryRecords)
    BY <1>0
  <2>. QED
    BY <1>5, <2>1, <2>2
<1>6. OwnRecords(s)'
  <2>1. \A i \in DOMAIN store[s] : store[s][i].turn \in 1 .. turn[s].id
    BY DEF IInv, OwnRecords
  <2>2. \A i \in DOMAIN store'[s] : store'[s][i].turn \in 1 .. turn'[s].id
    BY <1>1, <1>5, <2>1
  <2>3. Ordered(store'[s])
    <3>1. Ordered(store[s]) /\ \A i \in DOMAIN store[s] : store[s][i].turn <= r.turn
      BY <1>1, <2>1 DEF IInv, OwnRecords
    <3>. QED
      BY <1>0, <3>1, KeptOrdered
  <2>4. ASSUME turn'[s].pc \in Busy, ~ turn'[s].metadata, NEW i \in DOMAIN store'[s]
        PROVE  store'[s][i].turn = turn'[s].id
    BY <1>5, <2>4 DEF IInv, OwnRecords
  <2>. QED
    BY <2>2, <2>3, <2>4 DEF OwnRecords, Tidy
<1>7. Identified'
  <2>1. \A u, v \in Sessions : u # v /\ turn'[u].id = turn'[v].id => turn'[u].id = 0
    BY <1>2 DEF IInv, Identified
  <2>2. Distinct(store'[Device])
    BY <1>0, KeptDistinct DEF IInv, Identified
  <2>3. ASSUME NEW i \in DOMAIN store'[Device], store'[Device][i].turn # Earlier
        PROVE  \E u \in Sessions : store'[Device][i].turn \in 1 .. turn'[u].id
    <3>1. CASE store'[Device][i] = r
      BY <1>1, <2>3, <3>1 DEF MemoryRecords, TurnIDs
    <3>2. ASSUME NEW j \in DOMAIN store[Device], store'[Device][i] = store[Device][j]
          PROVE  \E u \in Sessions : store'[Device][i].turn \in 1 .. turn'[u].id
      <4>1. PICK u \in Sessions : store[Device][j].turn \in 1 .. turn[u].id
        BY <2>3, <3>2 DEF IInv, Identified
      <4>2. turn'[u].id \in Nat /\ turn'[u].id >= turn[u].id
        BY <1>1, <1>2
      <4>. QED
        BY <1>1, <3>2, <4>1, <4>2
    <3>. QED
      BY <1>5, <3>1, <3>2
  <2>. QED
    BY <2>1, <2>2, <2>3 DEF Identified
<1>8. SaidIsSaved'
  <2>. SUFFICES ASSUME NEW u \in Sessions, turn'[u].pc \in {"deliver", "idle"},
                       NEW k \in {u, Device}, NEW i \in DOMAIN store'[k],
                       store'[k][i].turn = turn'[u].id
                PROVE  store'[k][i].response = turn'[u].said
    BY DEF SaidIsSaved
  <2>1. CASE u = s
    BY <1>5, <2>1
  <2>2. CASE u # s /\ k = u
    BY <1>0, <2>2 DEF IInv, SaidIsSaved
  <2>3. CASE u # s /\ k = Device
    BY <1>2, <1>5, <2>3 DEF IInv, SaidIsSaved
  <2>. QED
    BY <2>1, <2>2, <2>3
<1>. QED
  BY <1>3, <1>4, <1>6, <1>7, <1>8 DEF IInv

-----------------------------------------------------------------------------
(* Types *)

(* The context that is loaded is one.                                       *)
LEMMA LoadedContext ==
    ASSUME TypeOK, NEW s \in Sessions
    PROVE  LoadTurnContext(s) \in Contexts /\ NoContext \in Contexts
<1>0. recentTurnSpan \in Nat \ {0}
  BY AgentAssumption DEF recentTurnSpan
<1>. DEFINE Message == [turn : TurnIDs \cup {Earlier}, assistant : {"none", "part", "all"}]
<1>1. ASSUME NEW records \in Seq(MemoryRecords) PROVE recentMessages(records) \in Seq(Message)
  <2>1. Len(records) \in Nat /\ DOMAIN records = 1 .. Len(records)
        /\ \A i \in DOMAIN records : records[i] \in MemoryRecords
    BY <1>1, Places
  <2>2. \A i \in 1 .. Len(records) :
          [turn |-> records[i].turn, assistant |-> memoryAssistantText(records[i])] \in Message
    BY <2>1 DEF MemoryRecords, memoryAssistantText
  <2>. HIDE DEF Message
  <2>3. [i \in 1 .. Len(records) |->
           [turn |-> records[i].turn, assistant |-> memoryAssistantText(records[i])]]
          \in Seq(Message)
    BY <2>1, <2>2
  <2>. QED
    BY <2>1, <2>3 DEF recentMessages
<1>2. ASSUME NEW k \in Scopes
      PROVE  recentMessages(LastOf(store[k], recentTurnSpan)) \in Seq(Message)
  <2>1. LastOf(store[k], recentTurnSpan) \in Seq(MemoryRecords)
    BY <1>0, <1>2, LastRecords DEF TypeOK
  <2>. HIDE DEF Message
  <2>. QED
    BY <1>1, <2>1
<1>3. s \in Scopes /\ Device \in Scopes /\ <<>> \in Seq(Message)
  BY EmptySeq DEF Scopes
<1>. QED
  BY <1>2, <1>3 DEF LoadTurnContext, NoContext, Contexts

(* The empty values are of their types.                                     *)
LEMMA EmptyValues ==
    /\ NoContext \in Contexts /\ NoCandidate \in Candidates /\ NoWarm \in Warms
    /\ NoOrch \in Orchs /\ NoTurn \in Turns
<1>1. Device \in Scopes /\ \A S : <<>> \in Seq(S)
  BY EmptySeq DEF Scopes
<1>2. NoContext \in Contexts
  BY <1>1 DEF NoContext, Contexts
<1>3. NoCandidate \in Candidates /\ NoWarm \in Warms
  BY <1>2 DEF NoCandidate, Candidates, NoWarm, Warms
<1>4. NoOrch \in Orchs
  BY DEF NoOrch, Orchs
<1>5. NoTurn \in Turns
  BY <1>1, <1>2, AgentAssumption DEF NoTurn, Turns, TurnPCs
<1>. QED
  BY <1>2, <1>3, <1>4, <1>5

(* The calls of an answer are a list of tools.                              *)
LEMMA CallsTyped ==
    ASSUME NEW calls \in CallLists
    PROVE  calls \in Seq(DOMAIN Catalog)
<1>1. PICK n \in 0 .. MaxCalls : calls \in [1 .. n -> DOMAIN Catalog]
  BY DEF CallLists
<1>2. n \in Nat
  BY AgentAssumption
<1>3. [i \in 1 .. n |-> calls[i]] \in Seq(DOMAIN Catalog)
  BY <1>1, <1>2
<1>4. calls = [i \in 1 .. n |-> calls[i]]
  BY <1>1
<1>. QED
  BY <1>3, <1>4

(* A set of places has a first one,                                         *)
LEMMA Least ==
    ASSUME NEW n \in Nat, NEW T \in SUBSET (1 .. n), NEW x \in T
    PROVE  \E k \in T : \A j \in T : k <= j
<1>. DEFINE R == OpToRel(<, Nat)
<1>1. IsWellFoundedOn(R, Nat)
  BY NatLessThanWellFounded
<1>2. T \subseteq Nat
  OBVIOUS
<1>3. \A a, b \in Nat : <<a, b>> \in R <=> a < b
  BY DEF OpToRel
<1>. HIDE DEF R
<1>4. PICK u \in T : \A v \in T : ~ (<<v, u>> \in R)
  BY <1>1, <1>2, WFMin
<1>5. \A v \in T : ~ (v < u)
  BY <1>2, <1>3, <1>4
<1>6. \A v \in T : u <= v
  BY <1>2, <1>5
<1>. QED
  BY <1>6

(* and a last one.                                                          *)
LEMMA Greatest ==
    ASSUME NEW n \in Nat, NEW T \in SUBSET (1 .. n), NEW x \in T
    PROVE  \E k \in T : \A j \in T : j <= k
<1>. DEFINE U == {n + 1 - k : k \in T}
<1>1. U \subseteq 1 .. n /\ n + 1 - x \in U
  OBVIOUS
<1>2. PICK u \in U : \A v \in U : u <= v
  BY <1>1, Least
<1>3. PICK k \in T : u = n + 1 - k
  OBVIOUS
<1>4. \A j \in T : n + 1 - j \in U
  OBVIOUS
<1>5. \A j \in T : n + 1 - k <= n + 1 - j
  BY <1>2, <1>3, <1>4
<1>6. \A j \in T : j <= k
  BY <1>5
<1>. QED
  BY <1>6

Names == [stem : STRING, suffix : Seq(Nat)]

(* Every tool has a name and an answer names one.                           *)
LEMMA AnswersTyped ==
    ASSUME NEW i \in DOMAIN Catalog, NEW n \in Nat
    PROVE  /\ Answer(i, n) \in [tool : STRING, id : Nat]
           /\ \A j \in DOMAIN Catalog : Catalog[j] \in [name : STRING, base : Names]
<1>0. Catalog \in Seq([name : STRING, base : Names])
  BY AgentAssumption DEF Names
<1>1. \A j \in DOMAIN Catalog : Catalog[j] \in [name : STRING, base : Names]
  BY <1>0, LenProperties, ElementOfSeq
<1>. DEFINE named == {k \in DOMAIN Catalog : modelName[k] = modelName[i]}
<1>2. Len(Catalog) \in Nat /\ DOMAIN Catalog = 1 .. Len(Catalog)
  BY AgentAssumption, LenProperties
<1>3. \E k \in named : \A j \in named : j <= k
  BY <1>2, Greatest
<1>4. (CHOOSE k \in named : \A j \in named : j <= k) \in DOMAIN Catalog
  BY <1>3
<1>. QED
  BY <1>1, <1>4 DEF Answer, actualName

\* The steps that are about the turn of a session.
TurnStep(s) ==
    \/ \E text \in Texts, spoken \in BOOLEAN : BeginTurn(s, text, spoken)
    \/ Execute(s) \/ StartEarlyAudio(s)

(* Every step leaves the turn well typed, and those of other sessions alone. *)
LEMMA TurnTyped ==
    ASSUME IInv, NEW s \in Sessions, TurnStep(s)
    PROVE  turn' \in [Sessions -> Turns] /\ \A u \in Sessions \ {s} : turn'[u] = turn[u]
<1>. DEFINE Good == \E t \in Turns : turn' = [turn EXCEPT ![s] = t]
<1>0. /\ TypeOK /\ turn \in [Sessions -> Turns] /\ turn[s] \in Turns
      /\ NoContext \in Contexts /\ NoTurn \in Turns /\ Counted(s)
      /\ prewarm[s].context \in Contexts
  BY EmptyValues DEF IInv, TypeOK, Candidates
<1>1. ASSUME NEW text \in Texts, NEW spoken \in BOOLEAN, BeginTurn(s, text, spoken) PROVE Good
  <2>1. Count + 1 \in TurnIDs
    BY <1>0, <1>1, Fresh, AgentAssumption DEF BeginTurn, TurnIDs
  <2>2. previous[s] \in BOOLEAN /\ (spoken \/ previous[s]) \in BOOLEAN
    BY <1>0 DEF TypeOK
  <2>3. ASSUME NEW id \in TurnIDs, NEW m \in BOOLEAN, NEW f \in BOOLEAN
        PROVE  [NoTurn EXCEPT !.pc = "consume", !.id = id, !.text = text, !.metadata = m,
                              !.followed = f] \in Turns
    BY <1>0, <2>3 DEF Turns, TurnPCs
  <2>. QED
    BY <1>0, <1>1, <2>1, <2>2, <2>3 DEF BeginTurn
<1>2. ASSUME NEW expired \in BOOLEAN, Consume(s, expired) PROVE Good
  <2>1. ASSUME NEW hit \in BOOLEAN, NEW pc \in {"route", "load"}, NEW c \in Contexts
        PROVE  [turn[s] EXCEPT !.hit = hit, !.pc = pc, !.context = c] \in Turns
    BY <1>0, <2>1 DEF Turns, TurnPCs
  <2>2. (prewarm[s] # NoCandidate /\ ~ expired /\ Matches(s, prewarm[s])) \in BOOLEAN
    OBVIOUS
  <2>3. PICK hit \in BOOLEAN :
          turn' = [turn EXCEPT ![s].hit = hit, ![s].pc = IF hit THEN "route" ELSE "load",
                               ![s].context = IF hit THEN prewarm[s].context ELSE NoContext]
    BY <1>2, <2>2 DEF Consume
  <2>4. turn' = [turn EXCEPT ![s] = [turn[s] EXCEPT !.hit = hit,
                   !.pc = IF hit THEN "route" ELSE "load",
                   !.context = IF hit THEN prewarm[s].context ELSE NoContext]]
    BY <1>0, <2>3
  <2>. QED
    BY <1>0, <2>1, <2>4
<1>3. ASSUME Load(s) PROVE Good
  <2>1. ASSUME NEW c \in Contexts
        PROVE  [turn[s] EXCEPT !.context = c, !.pc = "route"] \in Turns
    BY <1>0, <2>1 DEF Turns, TurnPCs
  <2>2. turn' = [turn EXCEPT ![s] = [turn[s] EXCEPT !.context = LoadTurnContext(s), !.pc = "route"]]
    BY <1>0, <1>3 DEF Load
  <2>. QED
    BY <1>0, <2>1, <2>2, LoadedContext
<1>4. ASSUME NEW pc \in TurnPCs PROVE Over(s, pc) \in Turns /\ [turn[s] EXCEPT !.pc = pc] \in Turns
  BY <1>0, <1>4 DEF Over, Turns
<1>5. ASSUME Failed(s) PROVE Good
  BY <1>4, <1>5 DEF Failed, TurnPCs
<1>6. ASSUME Bootstrap(s) PROVE Good
  <2>1. [turn[s] EXCEPT !.pc = "save", !.said = 1, !.out = 1] \in Turns
    BY <1>0 DEF Turns, TurnPCs
  <2>2. CASE turn' = [turn EXCEPT ![s].pc = "save", ![s].said = 1, ![s].out = 1]
    <3>1. turn' = [turn EXCEPT ![s] = [turn[s] EXCEPT !.pc = "save", !.said = 1, !.out = 1]]
      BY <1>0, <2>2
    <3>. QED
      BY <2>1, <3>1
  <2>. QED
    BY <1>5, <1>6, <2>2 DEF Bootstrap
<1>7. ASSUME ToModel(s) \/ PrepareAgain(s) PROVE Good
  <2>1. \E pc \in TurnPCs : turn' = [turn EXCEPT ![s].pc = pc]
    BY <1>7 DEF ToModel, PrepareAgain, TurnPCs
  <2>2. \E pc \in TurnPCs : turn' = [turn EXCEPT ![s] = [turn[s] EXCEPT !.pc = pc]]
    BY <1>0, <2>1
  <2>. QED
    BY <1>4, <2>2
<1>8. ASSUME DeliverEarly(s) \/ DeliverAudio(s) \/ DeliverText(s) PROVE Good
  BY <1>4, <1>8 DEF DeliverEarly, DeliverAudio, DeliverText, TurnPCs
<1>9. ASSUME StartEarlyAudio(s) PROVE Good
  <2>1. [turn[s] EXCEPT !.early = TRUE] \in Turns
    BY <1>0 DEF Turns
  <2>2. turn' = [turn EXCEPT ![s] = [turn[s] EXCEPT !.early = TRUE]]
    BY <1>0, <1>9 DEF StartEarlyAudio
  <2>. QED
    BY <2>1, <2>2
<1>10. ASSUME SaveOutput(s) PROVE Good
  <2>1. 0 \in 0 .. MaxSteps
    BY AgentAssumption
  <2>2. [turn[s] EXCEPT !.pc = "prepare", !.context = NoContext, !.hit = FALSE, !.step = 0]
          \in Turns
    BY <1>0, <2>1 DEF Turns, TurnPCs
  <2>3. turn' = [turn EXCEPT ![s] = [turn[s] EXCEPT !.pc = "prepare", !.context = NoContext,
                                                    !.hit = FALSE, !.step = 0]]
    BY <1>0, <1>10 DEF SaveOutput
  <2>. QED
    BY <2>2, <2>3
<1>11. ASSUME NEW piece \in {0, 1}, NEW calls \in CallLists, ModelStep(s, piece, calls) PROVE Good
  <2>1. calls \in Seq(DOMAIN Catalog) /\ <<>> \in Seq([tool : STRING, id : Nat])
        /\ turn[s].out + piece \in Nat /\ turn[s].said + piece \in Nat
    BY <1>0, <1>11, CallsTyped, EmptySeq DEF Turns
  <2>2. ASSUME NEW pc \in {"save", "tools"}
        PROVE  [turn[s] EXCEPT !.pc = pc, !.out = turn[s].out + piece,
                  !.said = turn[s].said + piece, !.asked = calls, !.answers = <<>>] \in Turns
    BY <1>0, <2>1, <2>2 DEF Turns, TurnPCs
  <2>3. CASE \E pc \in {"save", "tools"} : turn' = [turn EXCEPT ![s].pc = pc,
               ![s].out = turn[s].out + piece, ![s].said = @ + piece,
               ![s].asked = calls, ![s].answers = <<>>]
    <3>1. PICK pc \in {"save", "tools"} : turn' = [turn EXCEPT ![s].pc = pc,
               ![s].out = turn[s].out + piece, ![s].said = @ + piece,
               ![s].asked = calls, ![s].answers = <<>>]
      BY <2>3
    <3>2. turn' = [turn EXCEPT ![s] = [turn[s] EXCEPT !.pc = pc, !.out = turn[s].out + piece,
                     !.said = turn[s].said + piece, !.asked = calls, !.answers = <<>>]]
      BY <1>0, <3>1 DEF Turns
    <3>. QED
      BY <2>2, <3>2
  <2>. QED
    BY <1>5, <1>11, <2>3 DEF ModelStep, outputText
<1>12. ASSUME ModelFails(s) PROVE Good
  BY <1>5, <1>12 DEF ModelFails
<1>13. ASSUME InvokeTool(s) PROVE Good
  <2>. DEFINE n == Len(turn[s].answers) + 1
              a == Append(turn[s].answers, Answer(turn[s].asked[n], n))
              last == n = Len(turn[s].asked)
  <2>0. turn[s].asked \in Seq(DOMAIN Catalog) /\ turn[s].step \in 0 .. MaxSteps
        /\ turn[s].answers \in Seq([tool : STRING, id : Nat]) /\ turn[s].pc = "tools"
    BY <1>0, <1>13 DEF Turns, InvokeTool
  <2>1. n \in Nat /\ n \in 1 .. Len(turn[s].asked)
    BY <1>0, <2>0, LenProperties DEF Counted
  <2>2. a \in Seq([tool : STRING, id : Nat])
    <3>1. turn[s].asked[n] \in DOMAIN Catalog
      BY <2>0, <2>1, ElementOfSeq
    <3>2. Answer(turn[s].asked[n], n) \in [tool : STRING, id : Nat]
      BY <2>1, <3>1, AnswersTyped
    <3>. QED
      BY <2>0, <3>2, AppendProperties
  <2>3. turn[s].step + 1 \in 0 .. MaxSteps
    BY <1>0, <2>0, AgentAssumption DEF Counted
  <2>4. PICK pc \in {"model", "tools"}, step \in {turn[s].step, turn[s].step + 1} :
          turn' = [turn EXCEPT ![s] = [turn[s] EXCEPT !.answers = a, !.pc = pc, !.step = step]]
    <3>1. CASE last
      <4>1. turn' = [turn EXCEPT ![s] = [turn[s] EXCEPT !.answers = a, !.pc = "model",
                                                        !.step = turn[s].step + 1]]
        BY <1>0, <1>13, <3>1 DEF InvokeTool, NextStep, Turns
      <4>. QED
        BY <4>1
    <3>2. CASE ~ last
      <4>1. turn' = [turn EXCEPT ![s] = [turn[s] EXCEPT !.answers = a, !.pc = "tools",
                                                        !.step = turn[s].step]]
        BY <1>0, <1>13, <2>0, <3>2 DEF InvokeTool, Turns
      <4>. QED
        BY <4>1
    <3>. QED
      BY <3>1, <3>2
  <2>5. [turn[s] EXCEPT !.answers = a, !.pc = pc, !.step = step] \in Turns
    <3>. HIDE DEF a, n
    <3>. QED
      BY <1>0, <2>0, <2>2, <2>3 DEF Turns, TurnPCs
  <2>. QED
    BY <2>4, <2>5
<1>14. Good
  BY <1>1, <1>2, <1>3, <1>6, <1>7, <1>8, <1>9, <1>10, <1>11, <1>12, <1>13 DEF TurnStep, Execute
<1>. QED
  BY <1>0, <1>14

(* A step of one session that saves at most a record of it keeps the types. *)
LEMMA StepTypes ==
    ASSUME TypeOK, NEW s \in Sessions,
           UNCHANGED store \/ \E r \in MemoryRecords : SaveTurn(s, r),
           turn' \in [Sessions -> Turns], \A u \in Sessions \ {s} : turn'[u] = turn[u],
           \E o \in Orchs : orch' = [orch EXCEPT ![s] = o],
           \E p \in BOOLEAN : previous' = [previous EXCEPT ![s] = p],
           prewarm' \in [Sessions -> Candidates], warm' \in [Sessions -> Warms]
    PROVE  /\ TypeOK'
           /\ \A u \in Sessions \ {s} :
                turn'[u] = turn[u] /\ orch'[u] = orch[u] /\ previous'[u] = previous[u]
<1>1. /\ orch' \in [Sessions -> Orchs] /\ previous' \in [Sessions -> BOOLEAN]
      /\ \A u \in Sessions \ {s} : orch'[u] = orch[u] /\ previous'[u] = previous[u]
  BY DEF TypeOK
<1>2. store' \in [Scopes -> Seq(MemoryRecords)] /\ \A k \in Scopes : Len(store'[k]) <= maxTurns
  <2>1. CASE UNCHANGED store
    BY <2>1 DEF TypeOK
  <2>2. CASE \E r \in MemoryRecords : SaveTurn(s, r)
    BY <2>2, Saves
  <2>. QED
    BY <2>1, <2>2
<1>. QED
  BY <1>1, <1>2 DEF TypeOK

(* What stays the same is of its type.                                      *)
LEMMA SameTypes ==
    ASSUME TypeOK, NEW s \in Sessions
    PROVE  /\ UNCHANGED orch => \E o \in Orchs : orch' = [orch EXCEPT ![s] = o]
           /\ UNCHANGED previous => \E p \in BOOLEAN : previous' = [previous EXCEPT ![s] = p]
           /\ UNCHANGED prewarm => prewarm' \in [Sessions -> Candidates]
           /\ UNCHANGED warm => warm' \in [Sessions -> Warms]
           /\ orch[s] \in Orchs /\ turn[s] \in Turns /\ previous[s] \in BOOLEAN
<1>1. orch \in [Sessions -> Orchs] /\ previous \in [Sessions -> BOOLEAN]
  BY DEF TypeOK
<1>2. orch = [orch EXCEPT ![s] = orch[s]] /\ previous = [previous EXCEPT ![s] = previous[s]]
  BY <1>1
<1>. QED
  BY <1>1, <1>2 DEF TypeOK

(* persistLocked of a turn that is there saves a record of it.              *)
LEMMA Persisted ==
    ASSUME NEW s \in Sessions, NEW o \in Orchs, o.turn # 0, Persist(s, o)
    PROVE  \E r \in MemoryRecords : /\ r.turn = o.turn /\ r.response = o.response
                                    /\ SaveTurn(s, r)
<1>. DEFINE r == [turn |-> o.turn, command |-> o.command, response |-> o.response,
                  heard |-> o.heard, completed |-> o.completed]
<1>1. r \in MemoryRecords
  BY DEF Orchs, MemoryRecords
<1>2. SaveTurn(s, r)
  BY DEF Persist
<1>3. r.turn = o.turn /\ r.response = o.response
  OBVIOUS
<1>. QED
  BY <1>1, <1>2, <1>3

(* PrepareTurn leaves the orchestrator with the turn, playing if it was, and *)
(* saves it.                                                                *)
LEMMA Prepared ==
    ASSUME TypeOK, NEW s \in Sessions, NEW id \in TurnIDs, NEW text, NEW response \in Nat,
           PrepareTurn(s, id, text, response)
    PROVE  /\ \E r \in MemoryRecords : /\ r.turn = id /\ r.response = response
                                       /\ SaveTurn(s, r)
           /\ \E o \in Orchs : orch' = [orch EXCEPT ![s] = o]
           /\ orch'[s].turn = id /\ orch'[s].response = response
           /\ orch'[s].playing <=> orch[s].turn = id /\ orch[s].playing
<1>. DEFINE o == [IF orch[s].turn = id THEN orch[s] ELSE NoOrch EXCEPT
                    !.turn = id, !.command = (text \in Commands), !.response = response]
<1>0. orch \in [Sessions -> Orchs] /\ orch[s] \in Orchs /\ NoOrch \in Orchs /\ 0 \notin TurnIDs
  BY EmptyValues DEF TypeOK, TurnIDs
<1>1. /\ o \in Orchs /\ o.turn = id /\ o.response = response
      /\ o.playing <=> orch[s].turn = id /\ orch[s].playing
  <2>1. CASE orch[s].turn = id
    <3>1. o = [orch[s] EXCEPT !.turn = id, !.command = (text \in Commands), !.response = response]
      BY <2>1
    <3>2. (text \in Commands) \in BOOLEAN
      OBVIOUS
    <3>. QED
      BY <1>0, <2>1, <3>1, <3>2 DEF Orchs
  <2>2. CASE orch[s].turn # id
    <3>1. o = [NoOrch EXCEPT !.turn = id, !.command = (text \in Commands), !.response = response]
      BY <2>2
    <3>2. (text \in Commands) \in BOOLEAN
      OBVIOUS
    <3>. QED
      BY <1>0, <2>2, <3>1, <3>2 DEF Orchs, NoOrch
  <2>. QED
    BY <2>1, <2>2
<1>2. orch' = [orch EXCEPT ![s] = o] /\ Persist(s, o)
  BY DEF PrepareTurn
<1>. HIDE DEF o
<1>. QED
  BY <1>0, <1>1, <1>2, Persisted

(* A playback that is finished is saved, and the orchestrator is idle.      *)
LEMMA Finished ==
    ASSUME TypeOK, NEW s \in Sessions, orch[s].turn # 0, NEW heard \in {"none", "part", "all"},
           NEW completed \in BOOLEAN, Finish(s, heard, completed)
    PROVE  /\ \E r \in MemoryRecords : /\ r.turn = orch[s].turn /\ r.response = orch[s].response
                                       /\ SaveTurn(s, r)
           /\ \E o \in Orchs : orch' = [orch EXCEPT ![s] = o]
           /\ \E p \in BOOLEAN : previous' = [previous EXCEPT ![s] = p]
           /\ orch'[s].turn = 0 /\ ~ orch'[s].playing /\ previous'[s]
<1>. DEFINE o == [orch[s] EXCEPT !.heard = heard, !.completed = completed]
<1>0. orch \in [Sessions -> Orchs] /\ orch[s] \in Orchs /\ NoOrch \in Orchs
      /\ previous \in [Sessions -> BOOLEAN]
  BY EmptyValues DEF TypeOK
<1>1. o \in Orchs /\ o.turn = orch[s].turn /\ o.response = orch[s].response
  BY <1>0 DEF Orchs
<1>2. Persist(s, o) /\ previous' = [previous EXCEPT ![s] = TRUE]
      /\ orch' = [orch EXCEPT ![s] = NoOrch]
  BY DEF Finish
<1>. HIDE DEF o
<1>3. orch'[s] = NoOrch /\ previous'[s]
  BY <1>0, <1>2
<1>4. NoOrch.turn = 0 /\ ~ NoOrch.playing
  BY DEF NoOrch
<1>5. \E r \in MemoryRecords : r.turn = o.turn /\ r.response = o.response /\ SaveTurn(s, r)
  BY <1>1, <1>2, Persisted
<1>. QED
  BY <1>0, <1>1, <1>2, <1>3, <1>4, <1>5

(* A playback that starts or goes on is of the turn the orchestrator has.   *)
LEMMA Played ==
    ASSUME TypeOK, NEW s \in Sessions,
           orch' = Playing(s) \/ orch' = [orch EXCEPT ![s].heard = "part"]
    PROVE  /\ \E o \in Orchs : orch' = [orch EXCEPT ![s] = o]
           /\ orch'[s].turn = orch[s].turn /\ orch'[s].response = orch[s].response
           /\ orch'[s].playing \/ (orch' # Playing(s) /\ orch'[s].playing = orch[s].playing)
<1>0. orch \in [Sessions -> Orchs] /\ orch[s] \in Orchs
  BY DEF TypeOK
<1>1. CASE orch' = Playing(s)
  <2>1. orch' = [orch EXCEPT ![s] = [orch[s] EXCEPT !.playing = TRUE, !.heard = "none",
                                                    !.completed = FALSE]]
    BY <1>0, <1>1 DEF Playing
  <2>2. [orch[s] EXCEPT !.playing = TRUE, !.heard = "none", !.completed = FALSE] \in Orchs
    BY <1>0 DEF Orchs
  <2>3. /\ orch'[s].turn = orch[s].turn /\ orch'[s].response = orch[s].response
        /\ orch'[s].playing
    BY <1>0, <2>1 DEF Orchs
  <2>. QED
    BY <2>1, <2>2, <2>3
<1>2. CASE orch' # Playing(s) /\ orch' = [orch EXCEPT ![s].heard = "part"]
  <2>1. orch' = [orch EXCEPT ![s] = [orch[s] EXCEPT !.heard = "part"]]
    BY <1>0, <1>2
  <2>2. [orch[s] EXCEPT !.heard = "part"] \in Orchs
    BY <1>0 DEF Orchs
  <2>3. /\ orch'[s].turn = orch[s].turn /\ orch'[s].response = orch[s].response
        /\ orch'[s].playing = orch[s].playing
    BY <1>0, <2>1 DEF Orchs
  <2>4. \E o \in Orchs : orch' = [orch EXCEPT ![s] = o]
    BY <2>1, <2>2
  <2>. QED
    BY <1>2, <2>3, <2>4
<1>. QED
  BY <1>1, <1>2

-----------------------------------------------------------------------------
(* The steps of a turn *)

(* A turn begins with a new identifier, and is prepared and saved.          *)
LEMMA BeginKeeps ==
    ASSUME IInv, NEW s \in Sessions, NEW text \in Texts, NEW spoken \in BOOLEAN,
           BeginTurn(s, text, spoken)
    PROVE  IInv'
<1>0. TypeOK /\ turn \in [Sessions -> Turns] /\ warm \in [Sessions -> Warms]
      /\ previous[s] \in BOOLEAN
  BY DEF IInv, TypeOK
<1>1. /\ Count + 1 \in TurnIDs /\ Count + 1 # turn[s].id /\ Count + 1 # 0
      /\ orch[s].turn # Count + 1
  BY <1>0, Fresh, AgentAssumption DEF BeginTurn, TurnIDs, IInv, SameTurn
<1>2. turn' \in [Sessions -> Turns] /\ \A u \in Sessions \ {s} : turn'[u] = turn[u]
  BY TurnTyped DEF TurnStep
<1>3. PICK r \in MemoryRecords : r.turn = Count + 1 /\ SaveTurn(s, r)
  BY <1>0, <1>1, Prepared DEF BeginTurn
<1>4. /\ \E o \in Orchs : orch' = [orch EXCEPT ![s] = o]
      /\ orch'[s].turn = Count + 1 /\ ~ orch'[s].playing
  BY <1>0, <1>1, Prepared DEF BeginTurn
<1>5. warm' \in [Sessions -> Warms]
  <2>1. warm' = [warm EXCEPT ![s] = [warm[s] EXCEPT !.last = NoText]]
    BY <1>0 DEF BeginTurn
  <2>2. [warm[s] EXCEPT !.last = NoText] \in Warms
    BY <1>0 DEF Warms
  <2>. QED
    BY <1>0, <2>1, <2>2
<1>6. /\ TypeOK'
      /\ \A u \in Sessions \ {s} :
           turn'[u] = turn[u] /\ orch'[u] = orch[u] /\ previous'[u] = previous[u]
  BY <1>0, <1>2, <1>3, <1>4, <1>5, StepTypes, SameTypes DEF BeginTurn
<1>7. /\ turn'[s].pc = "consume" /\ turn'[s].id = Count + 1 /\ ~ turn'[s].early
      /\ ~ turn'[s].hit /\ turn'[s].out = 0 /\ turn'[s].said = 0
      /\ turn'[s].asked = <<>> /\ turn'[s].answers = <<>>
      /\ ~ turn'[s].metadata => ~ previous[s]
  BY <1>0 DEF BeginTurn, NoTurn
<1>8. Tidy(s)'
  BY <1>1, <1>4, <1>7 DEF Tidy, SameTurn, SameText, Counted, Busy, Executing
<1>9. ~ previous[s] => DOMAIN store[s] = {}
  BY DEF IInv, OwnRecords, BeginTurn
<1>. QED
  BY <1>3, <1>6, <1>7, <1>8, <1>9, SavingStep

\* What the steps of the executor leave alone.
Inside(s) ==
    /\ turn'[s].id = turn[s].id /\ turn'[s].early = turn[s].early
    /\ turn'[s].metadata = turn[s].metadata

(* A step of the executor that saves nothing keeps the invariant.           *)
LEMMA InsideStep ==
    ASSUME IInv, TypeOK', NEW s \in Sessions, UNCHANGED <<store, orch, previous>>, Inside(s),
           \A u \in Sessions \ {s} : turn'[u] = turn[u],
           turn[s].pc \in Executing, turn'[s].pc \in Executing, turn'[s].out = turn'[s].said,
           Counted(s)', turn'[s].hit => ~ turn[s].metadata
    PROVE  IInv'
<1>1. SameTurn(s) /\ turn[s].pc \in Busy /\ turn'[s].pc \in Busy
      /\ turn'[s].pc \notin {"deliver", "idle"}
  BY DEF IInv, Busy, Executing
<1>2. Tidy(s)'
  BY <1>1 DEF Tidy, SameTurn, SameText, Inside
<1>. QED
  BY <1>1, <1>2, QuietStep DEF Inside

(* A turn that fails is over for the orchestrator's record, too.            *)
LEMMA FailedStep ==
    ASSUME IInv, NEW s \in Sessions, Failed(s), UNCHANGED <<store, prewarm, warm, orch, previous>>
    PROVE  IInv'
<1>0. TypeOK /\ turn \in [Sessions -> Turns] /\ turn[s] \in Turns /\ SameTurn(s) /\ NoTurn \in Turns
  BY EmptyValues DEF IInv, TypeOK
<1>1. Over(s, "ended") \in Turns
  BY <1>0 DEF Over, Turns, TurnPCs
<1>2. turn' \in [Sessions -> Turns] /\ \A u \in Sessions \ {s} : turn'[u] = turn[u]
  BY <1>0, <1>1 DEF Failed
<1>3. TypeOK'
  BY <1>0, <1>2 DEF TypeOK
<1>4. turn'[s].id = turn[s].id /\ turn'[s].pc = "ended" /\ ~ turn'[s].hit
  BY <1>0 DEF Failed, Over, NoTurn
<1>5. Tidy(s)'
  BY <1>0, <1>4 DEF Tidy, SameTurn, SameText, Counted, Busy, Executing
<1>6. turn'[s].pc \notin Busy /\ turn'[s].pc \notin {"deliver", "idle"}
  BY <1>4 DEF Busy, Executing
<1>. QED
  BY <1>2, <1>3, <1>4, <1>5, <1>6, QuietStep

(* The executor takes the prewarm, loads the context and chooses the route. *)
LEMMA ContextKeeps ==
    ASSUME IInv, NEW s \in Sessions,
           \/ \E expired \in BOOLEAN : Consume(s, expired)
           \/ Load(s) \/ ToModel(s)
    PROVE  IInv'
<1>0. TypeOK /\ turn \in [Sessions -> Turns] /\ turn[s] \in Turns /\ SameText(s) /\ Counted(s)
      /\ prewarm \in [Sessions -> Candidates] /\ NoCandidate \in Candidates
      /\ (turn[s].hit => ~ turn[s].metadata)
  BY EmptyValues DEF IInv, TypeOK, OwnRecords
<1>1. turn' \in [Sessions -> Turns] /\ \A u \in Sessions \ {s} : turn'[u] = turn[u]
  BY TurnTyped DEF TurnStep, Execute
<1>2. UNCHANGED <<store, warm, orch, previous>> /\ prewarm' \in [Sessions -> Candidates]
  <2>1. CASE \E expired \in BOOLEAN : Consume(s, expired)
    <3>1. UNCHANGED <<store, warm, orch, previous>>
          /\ prewarm' = [prewarm EXCEPT ![s] = NoCandidate]
      BY <2>1 DEF Consume
    <3>. QED
      BY <1>0, <3>1
  <2>2. CASE Load(s) \/ ToModel(s)
    BY <1>0, <2>2 DEF Load, ToModel
  <2>. QED
    BY <2>1, <2>2
<1>3. TypeOK'
  BY <1>0, <1>1, <1>2 DEF TypeOK
<1>4. turn[s].pc \in Executing /\ turn[s].out = turn[s].said
  BY <1>0 DEF Consume, Load, ToModel, Executing, SameText, Busy
<1>5. CASE \E expired \in BOOLEAN : Consume(s, expired)
  <2>1. PICK expired \in BOOLEAN : Consume(s, expired)
    BY <1>5
  <2>2. PICK hit \in BOOLEAN :
          /\ hit => Matches(s, prewarm[s])
          /\ turn' = [turn EXCEPT ![s].hit = hit, ![s].pc = IF hit THEN "route" ELSE "load",
                               ![s].context = IF hit THEN prewarm[s].context ELSE NoContext]
    <3>1. (prewarm[s] # NoCandidate /\ ~ expired /\ Matches(s, prewarm[s])) \in BOOLEAN
      OBVIOUS
    <3>. QED
      BY <2>1, <3>1 DEF Consume
  <2>3. /\ turn'[s].pc \in {"route", "load"} /\ turn'[s].hit = hit
        /\ turn'[s].out = turn[s].out /\ turn'[s].said = turn[s].said /\ Inside(s)
        /\ turn'[s].asked = turn[s].asked /\ turn'[s].answers = turn[s].answers
    BY <1>0, <2>2 DEF Turns, Inside
  <2>4. Counted(s)' /\ turn'[s].pc \in Executing
    BY <1>0, <2>1, <2>3 DEF Counted, Executing, Consume
  <2>5. turn'[s].hit => ~ turn[s].metadata
    BY <2>2, <2>3 DEF Matches
  <2>. QED
    BY <1>1, <1>2, <1>3, <1>4, <2>3, <2>4, <2>5, InsideStep
<1>6. CASE Load(s)
  <2>1. /\ turn'[s].pc = "route" /\ turn'[s].hit = turn[s].hit
        /\ turn'[s].out = turn[s].out /\ turn'[s].said = turn[s].said /\ Inside(s)
        /\ turn'[s].asked = turn[s].asked /\ turn'[s].answers = turn[s].answers
    BY <1>0, <1>6 DEF Load, Turns, Inside
  <2>2. Counted(s)' /\ turn'[s].pc \in Executing
    BY <1>0, <1>6, <2>1 DEF Counted, Executing, Load
  <2>. QED
    BY <1>0, <1>1, <1>2, <1>3, <1>4, <2>1, <2>2, InsideStep
<1>7. CASE ToModel(s)
  <2>1. /\ turn'[s].pc = "model" /\ turn'[s].hit = turn[s].hit
        /\ turn'[s].out = turn[s].out /\ turn'[s].said = turn[s].said /\ Inside(s)
        /\ turn'[s].asked = turn[s].asked /\ turn'[s].answers = turn[s].answers
        /\ turn[s].pc = "route"
    BY <1>0, <1>7 DEF ToModel, Turns, Inside
  <2>2. Counted(s)' /\ turn'[s].pc \in Executing
    BY <1>0, <2>1 DEF Counted, Executing
  <2>. QED
    BY <1>0, <1>1, <1>2, <1>3, <1>4, <2>1, <2>2, InsideStep
<1>. QED
  BY <1>5, <1>6, <1>7

(* The executor answers without the model.                                  *)
LEMMA BootstrapKeeps ==
    ASSUME IInv, NEW s \in Sessions, Bootstrap(s)
    PROVE  IInv'
<1>0. TypeOK /\ turn \in [Sessions -> Turns] /\ turn[s] \in Turns /\ turn[s].pc = "route"
      /\ UNCHANGED <<store, prewarm, warm, orch, previous>>
      /\ (turn[s].hit => ~ turn[s].metadata)
  BY DEF IInv, TypeOK, OwnRecords, Bootstrap
<1>1. turn' \in [Sessions -> Turns] /\ \A u \in Sessions \ {s} : turn'[u] = turn[u]
  BY TurnTyped DEF TurnStep, Execute
<1>2. CASE turn' = [turn EXCEPT ![s].pc = "save", ![s].said = 1, ![s].out = 1]
  <2>1. TypeOK'
    BY <1>0, <1>1 DEF TypeOK
  <2>2. /\ turn'[s].pc = "save" /\ turn'[s].hit = turn[s].hit /\ Inside(s)
        /\ turn'[s].out = 1 /\ turn'[s].said = 1
    BY <1>0, <1>2 DEF Turns, Inside
  <2>3. Counted(s)' /\ turn'[s].pc \in Executing /\ turn[s].pc \in Executing
    BY <1>0, <2>2 DEF Counted, Executing
  <2>. QED
    BY <1>0, <1>1, <2>1, <2>2, <2>3, InsideStep
<1>. QED
  BY <1>0, <1>2, FailedStep DEF Bootstrap

(* The model is asked, and answers, asks for tools or fails.                *)
LEMMA ModelKeeps ==
    ASSUME IInv, NEW s \in Sessions,
           \/ ModelFails(s)
           \/ \E piece \in {0, 1}, calls \in CallLists : ModelStep(s, piece, calls)
    PROVE  IInv'
<1>0. TypeOK /\ turn \in [Sessions -> Turns] /\ turn[s] \in Turns
      /\ UNCHANGED <<store, prewarm, warm, orch, previous>>
      /\ (turn[s].hit => ~ turn[s].metadata) /\ SameText(s)
  BY DEF IInv, TypeOK, OwnRecords, ModelFails, ModelStep
<1>1. turn' \in [Sessions -> Turns] /\ \A u \in Sessions \ {s} : turn'[u] = turn[u]
  BY TurnTyped DEF TurnStep, Execute
<1>2. CASE Failed(s)
  BY <1>0, <1>2, FailedStep
<1>3. CASE ~ Failed(s)
  <2>1. PICK piece \in {0, 1}, calls \in CallLists : ModelStep(s, piece, calls)
    BY <1>3 DEF ModelFails
  <2>2. /\ turn[s].pc = "model" /\ turn[s].step < MaxSteps
        /\ turn' = [turn EXCEPT ![s].pc = IF calls = <<>> THEN "save" ELSE "tools",
                                ![s].out = turn[s].out + piece, ![s].said = @ + piece,
                                ![s].asked = calls, ![s].answers = <<>>]
    BY <1>3, <2>1 DEF ModelStep, outputText
  <2>3. calls \in Seq(DOMAIN Catalog) /\ (calls # <<>> => Len(calls) > 0)
    BY CallsTyped, EmptySeq, LenProperties
  <2>4. TypeOK'
    BY <1>0, <1>1 DEF TypeOK
  <2>5. /\ turn'[s].pc = (IF calls = <<>> THEN "save" ELSE "tools")
        /\ turn'[s].hit = turn[s].hit /\ Inside(s)
        /\ turn'[s].out = turn[s].out + piece /\ turn'[s].said = turn[s].said + piece
        /\ turn'[s].asked = calls /\ turn'[s].answers = <<>> /\ turn'[s].step = turn[s].step
    BY <1>0, <2>2 DEF Turns, Inside
  <2>6. turn'[s].pc \in Executing /\ turn[s].pc \in Executing /\ turn[s].pc \in Busy
    BY <2>2, <2>5 DEF Executing, Busy
  <2>7. Counted(s)'
    BY <2>2, <2>3, <2>5 DEF Counted, Executing
  <2>8. turn'[s].out = turn'[s].said
    BY <1>0, <2>5, <2>6 DEF SameText
  <2>. QED
    BY <1>0, <1>1, <2>4, <2>5, <2>6, <2>7, <2>8, InsideStep
<1>. QED
  BY <1>2, <1>3

(* A tool is called.                                                        *)
LEMMA ToolKeeps ==
    ASSUME IInv, NEW s \in Sessions, InvokeTool(s)
    PROVE  IInv'
<1>0. TypeOK /\ turn \in [Sessions -> Turns] /\ turn[s] \in Turns
      /\ UNCHANGED <<store, prewarm, warm, orch, previous>> /\ turn[s].pc = "tools"
      /\ (turn[s].hit => ~ turn[s].metadata) /\ SameText(s) /\ Counted(s)
  BY DEF IInv, TypeOK, OwnRecords, InvokeTool
<1>1. turn' \in [Sessions -> Turns] /\ \A u \in Sessions \ {s} : turn'[u] = turn[u]
  BY TurnTyped DEF TurnStep, Execute
<1>. DEFINE n == Len(turn[s].answers) + 1
            a == Append(turn[s].answers, Answer(turn[s].asked[n], n))
<1>2. /\ Len(turn[s].answers) \in Nat /\ Len(turn[s].asked) \in Nat
      /\ n <= Len(turn[s].asked)
  BY <1>0, LenProperties DEF Turns, Counted
<1>3. TypeOK'
  BY <1>0, <1>1 DEF TypeOK
<1>4. /\ turn'[s].hit = turn[s].hit /\ Inside(s)
      /\ turn'[s].out = turn[s].out /\ turn'[s].said = turn[s].said
      /\ turn'[s].asked = turn[s].asked /\ turn'[s].answers = a
      /\ \/ n = Len(turn[s].asked) /\ turn'[s].pc = "model"
         \/ n # Len(turn[s].asked) /\ turn'[s].pc = "tools" /\ turn'[s].step = turn[s].step
  <2>1. CASE n = Len(turn[s].asked)
    BY <1>0, <2>1 DEF InvokeTool, Turns, Inside
  <2>2. CASE n # Len(turn[s].asked)
    BY <1>0, <2>2 DEF InvokeTool, Turns, Inside
  <2>. QED
    BY <2>1, <2>2
<1>5. Len(turn'[s].answers) = n
  <2>1. turn'[s].answers \in Seq([tool : STRING, id : Nat])
        /\ turn[s].answers \in Seq([tool : STRING, id : Nat])
    BY <1>0, <1>1 DEF Turns
  <2>2. PICK x : a = Append(turn[s].answers, x)
    OBVIOUS
  <2>. QED
    BY <1>4, <2>1, <2>2
<1>. HIDE DEF a, n
<1>6. Counted(s)'
  BY <1>0, <1>2, <1>4, <1>5 DEF Counted, Executing, n
<1>7. turn'[s].pc \in Executing /\ turn[s].pc \in Executing /\ turn[s].pc \in Busy
  BY <1>0, <1>4 DEF Executing, Busy
<1>8. turn'[s].out = turn'[s].said
  BY <1>0, <1>4, <1>7 DEF SameText
<1>. QED
  BY <1>0, <1>1, <1>3, <1>4, <1>6, <1>7, <1>8, InsideStep

(* The executor saves what it said, unless it was a command.                *)
LEMMA SaveKeeps ==
    ASSUME IInv, NEW s \in Sessions, SaveOutput(s)
    PROVE  IInv'
<1>0. TypeOK /\ turn \in [Sessions -> Turns] /\ turn[s] \in Turns
      /\ UNCHANGED <<prewarm, warm, orch, previous>> /\ turn[s].pc = "save"
      /\ SameTurn(s) /\ SameText(s)
  BY DEF IInv, TypeOK, SaveOutput
<1>1. turn' \in [Sessions -> Turns] /\ \A u \in Sessions \ {s} : turn'[u] = turn[u]
  BY TurnTyped DEF TurnStep, Execute
<1>2. turn[s].pc \in Busy /\ turn[s].id # 0 /\ turn[s].id \in TurnIDs
  BY <1>0 DEF SameTurn, Busy, Executing, Turns
<1>. DEFINE r == [turn |-> turn[s].id, command |-> FALSE, response |-> turn[s].out,
                  heard |-> "none", completed |-> FALSE]
<1>3. r \in MemoryRecords /\ r.turn = turn[s].id
  BY <1>0, <1>2 DEF MemoryRecords, Turns
<1>4. UNCHANGED store \/ SaveTurn(s, r)
  BY DEF SaveOutput
<1>. HIDE DEF r
<1>5. /\ TypeOK'
      /\ \A u \in Sessions \ {s} :
           turn'[u] = turn[u] /\ orch'[u] = orch[u] /\ previous'[u] = previous[u]
  BY <1>0, <1>1, <1>3, <1>4, StepTypes, SameTypes
<1>6. /\ turn'[s].pc = "prepare" /\ ~ turn'[s].hit /\ Inside(s)
      /\ turn'[s].out = turn[s].out /\ turn'[s].said = turn[s].said
  BY <1>0 DEF SaveOutput, Turns, Inside
<1>7. turn'[s].pc \in Busy /\ turn'[s].pc \notin {"deliver", "idle"}
  BY <1>6 DEF Busy
<1>8. Tidy(s)'
  BY <1>0, <1>2, <1>6, <1>7 DEF Tidy, SameTurn, SameText, Counted, Inside, Executing
<1>9. CASE UNCHANGED store
  BY <1>2, <1>5, <1>6, <1>7, <1>8, <1>9, QuietStep DEF Inside
<1>10. CASE SaveTurn(s, r)
  BY <1>2, <1>3, <1>5, <1>6, <1>7, <1>8, <1>10, SavingStep DEF Inside
<1>. QED
  BY <1>4, <1>9, <1>10

-----------------------------------------------------------------------------
(* The steps of a response *)

(* The playback of a turn starts while it is still executed.                *)
LEMMA EarlyKeeps ==
    ASSUME IInv, NEW s \in Sessions, StartEarlyAudio(s)
    PROVE  IInv'
<1>0. TypeOK /\ turn \in [Sessions -> Turns] /\ turn[s] \in Turns
      /\ UNCHANGED <<store, prewarm, warm, previous>> /\ orch' = Playing(s)
      /\ turn[s].pc \in Executing \cup {"prepare"} /\ orch[s].turn = turn[s].id
      /\ SameTurn(s) /\ SameText(s) /\ Counted(s)
      /\ (turn[s].hit => turn[s].pc \in Executing /\ ~ turn[s].metadata)
  BY DEF IInv, TypeOK, StartEarlyAudio, OwnRecords
<1>1. turn' \in [Sessions -> Turns] /\ \A u \in Sessions \ {s} : turn'[u] = turn[u]
  BY TurnTyped DEF TurnStep
<1>2. /\ \E o \in Orchs : orch' = [orch EXCEPT ![s] = o]
      /\ orch'[s].turn = orch[s].turn /\ orch'[s].playing
  BY <1>0, Played
<1>3. /\ TypeOK'
      /\ \A u \in Sessions \ {s} :
           turn'[u] = turn[u] /\ orch'[u] = orch[u] /\ previous'[u] = previous[u]
  BY <1>0, <1>1, <1>2, StepTypes, SameTypes
<1>4. turn'[s] = [turn[s] EXCEPT !.early = TRUE]
  BY <1>0 DEF StartEarlyAudio
<1>5. /\ turn'[s].early /\ turn'[s].pc = turn[s].pc /\ turn'[s].id = turn[s].id
      /\ turn'[s].out = turn[s].out /\ turn'[s].said = turn[s].said
      /\ turn'[s].hit = turn[s].hit /\ turn'[s].metadata = turn[s].metadata
      /\ turn'[s].step = turn[s].step /\ turn'[s].asked = turn[s].asked
      /\ turn'[s].answers = turn[s].answers
  BY <1>0, <1>4 DEF Turns
<1>6. turn[s].pc \in Busy /\ turn[s].pc \notin {"deliver", "idle"}
  BY <1>0 DEF Busy, Executing
<1>7. Tidy(s)'
  <2>1. SameTurn(s)'
    BY <1>0, <1>2, <1>5, <1>6 DEF SameTurn
  <2>2. SameText(s)'
    BY <1>0, <1>5, <1>6 DEF SameText
  <2>3. Counted(s)'
    BY <1>0, <1>5 DEF Counted
  <2>. QED
    BY <1>0, <1>5, <2>1, <2>2, <2>3 DEF Tidy
<1>. QED
  BY <1>0, <1>3, <1>5, <1>6, <1>7, QuietStep

(* The orchestrator gets the whole answer.                                  *)
LEMMA PrepareKeeps ==
    ASSUME IInv, NEW s \in Sessions, PrepareAgain(s)
    PROVE  IInv'
<1>0. TypeOK /\ turn \in [Sessions -> Turns] /\ turn[s] \in Turns
      /\ UNCHANGED <<prewarm, warm, previous>> /\ turn[s].pc = "prepare"
      /\ SameTurn(s) /\ SameText(s)
      /\ (turn[s].hit => turn[s].pc \in Executing /\ ~ turn[s].metadata)
  BY DEF IInv, TypeOK, PrepareAgain, OwnRecords
<1>1. turn' \in [Sessions -> Turns] /\ \A u \in Sessions \ {s} : turn'[u] = turn[u]
  BY TurnTyped DEF TurnStep, Execute
<1>2. turn[s].pc \in Busy /\ turn[s].id # 0 /\ turn[s].id \in TurnIDs /\ turn[s].out \in Nat
      /\ turn[s].out = turn[s].said /\ turn[s].pc \notin Executing
  BY <1>0 DEF SameTurn, SameText, Busy, Executing, Turns
<1>3. PICK r \in MemoryRecords : r.turn = turn[s].id /\ r.response = turn[s].out /\ SaveTurn(s, r)
  BY <1>0, <1>2, Prepared DEF PrepareAgain
<1>4. /\ \E o \in Orchs : orch' = [orch EXCEPT ![s] = o]
      /\ orch'[s].turn = turn[s].id /\ orch'[s].response = turn[s].out
      /\ orch'[s].playing <=> orch[s].turn = turn[s].id /\ orch[s].playing
  BY <1>0, <1>2, Prepared DEF PrepareAgain
<1>5. /\ TypeOK'
      /\ \A u \in Sessions \ {s} :
           turn'[u] = turn[u] /\ orch'[u] = orch[u] /\ previous'[u] = previous[u]
  BY <1>0, <1>1, <1>3, <1>4, StepTypes, SameTypes
<1>6. /\ turn'[s].pc = "deliver" /\ turn'[s].hit = turn[s].hit /\ Inside(s)
      /\ turn'[s].out = turn[s].out /\ turn'[s].said = turn[s].said
  BY <1>0 DEF PrepareAgain, Turns, Inside
<1>7. SameTurn(s)'
  BY <1>0, <1>2, <1>4, <1>6 DEF SameTurn, Inside
<1>8. Tidy(s)'
  BY <1>0, <1>2, <1>4, <1>6, <1>7 DEF Tidy, SameText, Counted, Inside, Executing
<1>9. /\ turn'[s].id = turn[s].id /\ turn'[s].metadata = turn[s].metadata
      /\ turn'[s].pc # "idle" /\ r.response = turn'[s].said
  BY <1>2, <1>3, <1>6 DEF Inside
<1>10. turn'[s].pc \in Busy /\ ~ turn'[s].metadata =>
         turn[s].pc \in Busy /\ ~ turn[s].metadata /\ turn'[s].id = turn[s].id
  BY <1>2, <1>9
<1>11. SaveTurn(s, r) /\ r.turn = turn'[s].id
  BY <1>3, <1>9
<1>. QED
  BY <1>5, <1>8, <1>9, <1>10, <1>11, SavingStep

(* The locals of a turn that is over.                                       *)
LEMMA OverTurn ==
    ASSUME TypeOK, NEW s \in Sessions, turn' = [turn EXCEPT ![s] = Over(s, "idle")]
    PROVE  /\ turn'[s].pc = "idle" /\ turn'[s].id = turn[s].id /\ turn'[s].said = turn[s].said
           /\ ~ turn'[s].hit /\ turn'[s].pc \notin Busy
<1>1. turn'[s] = Over(s, "idle")
  BY DEF TypeOK
<1>2. /\ Over(s, "idle").pc = "idle" /\ Over(s, "idle").id = turn[s].id
      /\ Over(s, "idle").said = turn[s].said /\ Over(s, "idle").hit = FALSE
  BY DEF Over, NoTurn
<1>3. "idle" \notin Busy
  BY DEF Busy, Executing
<1>. QED
  BY <1>1, <1>2, <1>3

(* The response is delivered, and the turn is over.                         *)
LEMMA DeliverKeeps ==
    ASSUME IInv, NEW s \in Sessions, DeliverEarly(s) \/ DeliverAudio(s) \/ DeliverText(s)
    PROVE  IInv'
<1>0. TypeOK /\ turn[s] \in Turns /\ orch[s] \in Orchs
      /\ UNCHANGED <<prewarm, warm>> /\ turn[s].pc = "deliver" /\ turn[s].pc \in Busy
      /\ SameTurn(s) /\ SameText(s)
  BY DEF IInv, TypeOK, DeliverEarly, DeliverAudio, DeliverText, Busy
<1>1. turn' \in [Sessions -> Turns] /\ \A u \in Sessions \ {s} : turn'[u] = turn[u]
  BY TurnTyped DEF TurnStep, Execute
<1>2. /\ turn'[s].pc = "idle" /\ turn'[s].id = turn[s].id /\ turn'[s].said = turn[s].said
      /\ ~ turn'[s].hit /\ turn'[s].pc \notin Busy
  BY <1>0, OverTurn DEF DeliverEarly, DeliverAudio, DeliverText
<1>3. prewarm' \in [Sessions -> Candidates] /\ warm' \in [Sessions -> Warms]
  BY <1>0, SameTypes
<1>4. CASE DeliverEarly(s)
  <2>1. UNCHANGED <<orch, previous>> /\ turn[s].early
    BY <1>4 DEF DeliverEarly
  <2>2. /\ \E o \in Orchs : orch' = [orch EXCEPT ![s] = o]
        /\ \E p \in BOOLEAN : previous' = [previous EXCEPT ![s] = p]
    BY <1>0, <2>1, SameTypes
  <2>3. previous[s] \/ orch[s].playing
    BY <1>0, <2>1 DEF SameTurn
  <2>4. Tidy(s)'
    BY <1>0, <1>2, <2>1 DEF Tidy, SameTurn, SameText, Counted, Executing
  <2>5. CASE orch[s].turn = 0
    <3>1. UNCHANGED store
      BY <1>4, <2>5 DEF DeliverEarly
    <3>2. /\ TypeOK'
          /\ \A u \in Sessions \ {s} :
               turn'[u] = turn[u] /\ orch'[u] = orch[u] /\ previous'[u] = previous[u]
      BY <1>0, <1>1, <1>3, <2>2, <3>1, StepTypes
    <3>. QED
      BY <1>0, <1>2, <2>1, <2>3, <2>4, <3>1, <3>2, QuietStep
  <2>6. CASE orch[s].turn # 0
    <3>1. PICK r \in MemoryRecords : /\ r.turn = orch[s].turn /\ r.response = orch[s].response
                                     /\ SaveTurn(s, r)
      BY <1>0, <1>4, <2>6, Persisted DEF DeliverEarly
    <3>2. /\ TypeOK'
          /\ \A u \in Sessions \ {s} :
               turn'[u] = turn[u] /\ orch'[u] = orch[u] /\ previous'[u] = previous[u]
      BY <1>0, <1>1, <1>3, <2>2, <3>1, StepTypes
    <3>3. r.turn = turn'[s].id /\ r.response = turn'[s].said
      BY <1>0, <1>2, <2>6, <3>1 DEF SameTurn, SameText
    <3>. QED
      BY <1>2, <2>1, <2>3, <2>4, <3>1, <3>2, <3>3, SavingStep
  <2>. QED
    BY <2>5, <2>6
<1>5. CASE DeliverAudio(s)
  <2>1. UNCHANGED <<store, previous>> /\ ~ turn[s].early /\ orch' = Playing(s)
    BY <1>5 DEF DeliverAudio
  <2>2. /\ \E o \in Orchs : orch' = [orch EXCEPT ![s] = o]
        /\ orch'[s].turn = orch[s].turn /\ orch'[s].response = orch[s].response
        /\ orch'[s].playing
    BY <1>0, <2>1, Played
  <2>3. /\ TypeOK'
        /\ \A u \in Sessions \ {s} :
             turn'[u] = turn[u] /\ orch'[u] = orch[u] /\ previous'[u] = previous[u]
    BY <1>0, <1>1, <1>3, <2>1, <2>2, StepTypes, SameTypes
  <2>4. orch[s].turn = turn[s].id /\ turn[s].id # 0
    BY <1>0, <2>1 DEF SameTurn
  <2>5. Tidy(s)'
    BY <1>0, <1>2, <2>2, <2>4 DEF Tidy, SameTurn, SameText, Counted, Executing
  <2>. QED
    BY <1>0, <1>2, <2>1, <2>2, <2>3, <2>5, QuietStep
<1>6. CASE DeliverText(s)
  <2>1. Finish(s, "all", TRUE) /\ ~ turn[s].early
    BY <1>6 DEF DeliverText
  <2>2. orch[s].turn = turn[s].id /\ turn[s].id # 0 /\ orch[s].response = turn[s].said
    BY <1>0, <2>1 DEF SameTurn, SameText
  <2>3. /\ \E r \in MemoryRecords : /\ r.turn = orch[s].turn /\ r.response = orch[s].response
                                    /\ SaveTurn(s, r)
        /\ \E o \in Orchs : orch' = [orch EXCEPT ![s] = o]
        /\ \E p \in BOOLEAN : previous' = [previous EXCEPT ![s] = p]
        /\ orch'[s].turn = 0 /\ ~ orch'[s].playing /\ previous'[s]
    BY <1>0, <2>1, <2>2, Finished
  <2>4. PICK r \in MemoryRecords :
          r.turn = turn[s].id /\ r.response = turn[s].said /\ SaveTurn(s, r)
    BY <2>2, <2>3
  <2>5. /\ TypeOK'
        /\ \A u \in Sessions \ {s} :
             turn'[u] = turn[u] /\ orch'[u] = orch[u] /\ previous'[u] = previous[u]
    BY <1>0, <1>1, <1>3, <2>3, StepTypes
  <2>6. Tidy(s)'
    BY <1>2, <2>3 DEF Tidy, SameTurn, SameText, Counted, Executing
  <2>. QED
    BY <1>2, <2>3, <2>4, <2>5, <2>6, SavingStep
<1>. QED
  BY <1>4, <1>5, <1>6

(* The playback goes on, or ends beside whatever the read loop is doing.    *)
LEMMA PlaybackKeeps ==
    ASSUME IInv, NEW s \in Sessions,
           PlayChunk(s) \/ CompletePlayback(s) \/ InterruptPlayback(s)
    PROVE  IInv'
<1>0. /\ TypeOK /\ turn \in [Sessions -> Turns] /\ orch[s] \in Orchs
      /\ UNCHANGED <<prewarm, warm, turn>>
      /\ SameTurn(s) /\ SameText(s) /\ Counted(s) /\ orch[s].playing
      /\ (turn[s].hit => turn[s].pc \in Executing /\ ~ turn[s].metadata)
  BY DEF IInv, TypeOK, OwnRecords, PlayChunk, CompletePlayback, InterruptPlayback
<1>1. turn' \in [Sessions -> Turns] /\ \A u \in Sessions \ {s} : turn'[u] = turn[u]
  BY <1>0
<1>2. prewarm' \in [Sessions -> Candidates] /\ warm' \in [Sessions -> Warms]
  BY <1>0, SameTypes
<1>3. orch[s].turn = turn[s].id /\ orch[s].turn # 0
  BY <1>0 DEF SameTurn
<1>4. CASE PlayChunk(s)
  <2>1. UNCHANGED <<store, previous>> /\ orch' = [orch EXCEPT ![s].heard = "part"]
    BY <1>4 DEF PlayChunk
  <2>2. /\ \E o \in Orchs : orch' = [orch EXCEPT ![s] = o]
        /\ orch'[s].turn = orch[s].turn /\ orch'[s].response = orch[s].response
        /\ orch'[s].playing
    BY <1>0, <2>1, Played
  <2>3. /\ TypeOK'
        /\ \A u \in Sessions \ {s} :
             turn'[u] = turn[u] /\ orch'[u] = orch[u] /\ previous'[u] = previous[u]
    BY <1>0, <1>1, <1>2, <2>1, <2>2, StepTypes, SameTypes
  <2>4. Tidy(s)'
    BY <1>0, <1>3, <2>2 DEF Tidy, SameTurn, SameText, Counted
  <2>. QED
    BY <1>0, <2>1, <2>2, <2>3, <2>4, QuietStep
<1>5. CASE CompletePlayback(s) \/ InterruptPlayback(s)
  <2>1. PICK heard \in {"none", "part", "all"}, completed \in BOOLEAN : Finish(s, heard, completed)
    BY <1>0, <1>5 DEF CompletePlayback, InterruptPlayback, Orchs
  <2>2. /\ \E r \in MemoryRecords : /\ r.turn = orch[s].turn /\ r.response = orch[s].response
                                    /\ SaveTurn(s, r)
        /\ \E o \in Orchs : orch' = [orch EXCEPT ![s] = o]
        /\ \E p \in BOOLEAN : previous' = [previous EXCEPT ![s] = p]
        /\ orch'[s].turn = 0 /\ ~ orch'[s].playing /\ previous'[s]
    BY <1>0, <1>3, <2>1, Finished
  <2>3. PICK r \in MemoryRecords :
          r.turn = turn[s].id /\ r.response = orch[s].response /\ SaveTurn(s, r)
    BY <1>3, <2>2
  <2>4. /\ TypeOK'
        /\ \A u \in Sessions \ {s} :
             turn'[u] = turn[u] /\ orch'[u] = orch[u] /\ previous'[u] = previous[u]
    BY <1>0, <1>1, <1>2, <2>2, StepTypes
  <2>5. Tidy(s)'
    BY <1>0, <2>2 DEF Tidy, SameTurn, SameText, Counted
  <2>6. turn[s].pc \in {"deliver", "idle"} => orch[s].response = turn[s].said
    BY <1>0, <1>3 DEF SameText
  <2>. QED
    BY <1>0, <2>2, <2>3, <2>4, <2>5, <2>6, SavingStep
<1>. QED
  BY <1>4, <1>5

(* A prewarm touches nothing but the cache.                                 *)
LEMMA PrewarmKeeps ==
    ASSUME IInv, NEW s \in Sessions,
           \/ \E text \in Prefixes : LaunchPrewarm(s, text)
           \/ PrewarmLoad(s) \/ PrewarmStore(s)
    PROVE  IInv'
<1>0. UNCHANGED <<store, turn, orch, previous>>
  BY DEF LaunchPrewarm, PrewarmLoad, PrewarmStore
<1>1. TypeOK /\ prewarm \in [Sessions -> Candidates] /\ warm \in [Sessions -> Warms]
      /\ warm[s] \in Warms /\ NoCandidate \in Candidates
  BY EmptyValues DEF IInv, TypeOK
<1>2. prewarm' \in [Sessions -> Candidates] /\ warm' \in [Sessions -> Warms]
  <2>1. ASSUME NEW text \in Prefixes, LaunchPrewarm(s, text)
        PROVE  prewarm' \in [Sessions -> Candidates] /\ warm' \in [Sessions -> Warms]
    <3>1. [NoCandidate EXCEPT !.text = text] \in Candidates /\ text \in Spoken
      BY <1>1, <2>1 DEF Candidates, Spoken
    <3>2. PICK c \in Candidates :
            warm' = [warm EXCEPT ![s] = [pc |-> "load", last |-> text, candidate |-> c]]
      BY <2>1, <3>1 DEF LaunchPrewarm
    <3>3. [pc |-> "load", last |-> text, candidate |-> c] \in Warms
      BY <3>1 DEF Warms
    <3>4. UNCHANGED prewarm
      BY <2>1 DEF LaunchPrewarm
    <3>. QED
      BY <1>1, <3>2, <3>3, <3>4
  <2>2. CASE PrewarmLoad(s)
    <3>1. LoadTurnContext(s) \in Contexts /\ UNCHANGED prewarm
      BY <1>1, <2>2, LoadedContext DEF PrewarmLoad
    <3>2. ASSUME NEW c \in Contexts
          PROVE  [warm[s] EXCEPT !.pc = "store", !.candidate.context = c] \in Warms
      BY <1>1, <3>2 DEF Warms, Candidates
    <3>3. PICK c \in Contexts :
            warm' = [warm EXCEPT ![s].pc = "store", ![s].candidate.context = c]
      BY <2>2, <3>1 DEF PrewarmLoad
    <3>4. warm' = [warm EXCEPT ![s] = [warm[s] EXCEPT !.pc = "store", !.candidate.context = c]]
      BY <1>1, <3>3
    <3>. QED
      BY <1>1, <3>1, <3>2, <3>4
  <2>3. CASE PrewarmStore(s)
    <3>1. warm[s].candidate \in Candidates
          /\ [warm[s] EXCEPT !.pc = "none", !.candidate = NoCandidate] \in Warms
      BY <1>1 DEF Warms
    <3>2. warm' = [warm EXCEPT ![s] = [warm[s] EXCEPT !.pc = "none", !.candidate = NoCandidate]]
          /\ prewarm' = [prewarm EXCEPT ![s] = warm[s].candidate]
      BY <1>1, <2>3 DEF PrewarmStore
    <3>. QED
      BY <1>1, <3>1, <3>2
  <2>. QED
    BY <2>1, <2>2, <2>3
<1>3. TypeOK'
  BY <1>0, <1>1, <1>2 DEF TypeOK
<1>4. \A u \in Sessions : SameTurn(u)' /\ SameText(u)' /\ OwnRecords(u)' /\ Counted(u)'
  BY <1>0 DEF IInv, SameTurn, SameText, OwnRecords, Ordered, Counted
<1>5. Identified' /\ SaidIsSaved'
  BY <1>0 DEF IInv, Identified, Distinct, SaidIsSaved
<1>. QED
  BY <1>3, <1>4, <1>5 DEF IInv

-----------------------------------------------------------------------------
(* The invariant *)

(* The invariant holds before the first turn, whatever the device remembers. *)
LEMMA InitInv == Init => IInv
<1>. SUFFICES ASSUME Init PROVE IInv
  OBVIOUS
<1>1. PICK past \in {<<>>, <<EarlierRecord>>} :
        store = [k \in Scopes |-> IF k = Device THEN past ELSE <<>>]
  BY DEF Init
<1>2. past \in Seq(MemoryRecords) /\ Len(past) <= 1 /\ <<>> \in Seq(MemoryRecords)
      /\ Len(<<>>) = 0 /\ DOMAIN past \subseteq {1}
      /\ \A i \in DOMAIN past : past[i].turn = Earlier
  <2>1. EarlierRecord \in MemoryRecords /\ EarlierRecord.turn = Earlier
    BY DEF EarlierRecord, MemoryRecords
  <2>2. <<EarlierRecord>> \in Seq(MemoryRecords) /\ Len(<<EarlierRecord>>) = 1
        /\ DOMAIN <<EarlierRecord>> = {1} /\ <<EarlierRecord>>[1] = EarlierRecord
    BY <2>1
  <2>3. <<>> \in Seq(MemoryRecords) /\ Len(<<>>) = 0 /\ DOMAIN <<>> = {}
    BY EmptySeq
  <2>4. CASE past = <<>>
    BY <2>3, <2>4
  <2>5. CASE past = <<EarlierRecord>>
    BY <2>1, <2>2, <2>3, <2>5
  <2>. QED
    BY <2>4, <2>5
<1>3. /\ Device \in Scopes /\ \A s \in Sessions : s \in Scopes /\ s # Device
      /\ maxTurns \in Nat /\ maxTurns >= 1
  BY AgentAssumption DEF Scopes
<1>4. /\ \A s \in Sessions :
            store[s] = <<>> /\ turn[s] = NoTurn /\ orch[s] = NoOrch /\ ~ previous[s]
      /\ store[Device] = past
  BY <1>1, <1>3 DEF Init
<1>5. TypeOK
  <2>1. store \in [Scopes -> Seq(MemoryRecords)] /\ \A k \in Scopes : Len(store[k]) <= maxTurns
    BY <1>1, <1>2, <1>3
  <2>2. prewarm \in [Sessions -> Candidates] /\ warm \in [Sessions -> Warms]
    BY EmptyValues DEF Init
  <2>3. turn \in [Sessions -> Turns] /\ orch \in [Sessions -> Orchs]
    BY EmptyValues DEF Init
  <2>4. previous \in [Sessions -> BOOLEAN]
    BY DEF Init
  <2>. QED
    BY <2>1, <2>2, <2>3, <2>4 DEF TypeOK
<1>6. /\ NoTurn.pc = "idle" /\ NoTurn.id = 0 /\ NoTurn.hit = FALSE
      /\ NoOrch.turn = 0 /\ NoOrch.playing = FALSE /\ DOMAIN <<>> = {}
  BY EmptySeq DEF NoTurn, NoOrch
<1>7. ASSUME NEW s \in Sessions PROVE SameTurn(s) /\ SameText(s) /\ OwnRecords(s) /\ Counted(s)
  <2>1. turn[s].pc = "idle" /\ turn[s].id = 0 /\ ~ turn[s].hit /\ orch[s].turn = 0
        /\ ~ orch[s].playing /\ DOMAIN store[s] = {}
    BY <1>4, <1>6
  <2>2. turn[s].pc \notin Busy /\ turn[s].pc \notin Executing
    BY <2>1 DEF Busy, Executing
  <2>. QED
    BY <2>1, <2>2 DEF SameTurn, SameText, OwnRecords, Ordered, Counted
<1>8. Identified
  BY <1>2, <1>4, <1>6 DEF Identified, Distinct
<1>9. SaidIsSaved
  <2>1. \A s \in Sessions : turn[s].id = 0 /\ DOMAIN store[s] = {}
    BY <1>4, <1>6
  <2>2. \A i \in DOMAIN store[Device] : store[Device][i].turn # 0
    BY <1>2, <1>4 DEF Earlier
  <2>. QED
    BY <2>1, <2>2 DEF SaidIsSaved
<1>. QED
  BY <1>5, <1>7, <1>8, <1>9 DEF IInv

(* Every step keeps it.                                                     *)
LEMMA NextInv == IInv /\ [Next]_vars => IInv'
<1>1. ASSUME IInv, NEW s \in Sessions, Execute(s) PROVE IInv'
  BY <1>1, ContextKeeps, BootstrapKeeps, ModelKeeps, ToolKeeps, SaveKeeps, PrepareKeeps,
     DeliverKeeps DEF Execute
<1>2. ASSUME IInv, Next PROVE IInv'
  BY <1>1, <1>2, BeginKeeps, EarlyKeeps, PlaybackKeeps, PrewarmKeeps DEF Next
<1>3. ASSUME IInv, UNCHANGED vars PROVE IInv'
  BY <1>3 DEF vars, IInv, TypeOK, SameTurn, SameText, OwnRecords, Ordered, Counted, Identified,
     Distinct, SaidIsSaved
<1>. QED
  BY <1>2, <1>3

(* The inductive invariant of the agent's turns.                            *)
THEOREM AgentInvariant == Spec => []IInv
  BY InitInv, NextInv, PTL DEF Spec

(* The types of the agent runtime's state, and the bound on what it keeps.  *)
THEOREM AgentTypeOK == Spec => []TypeOK
<1>1. IInv => TypeOK
  BY DEF IInv
<1>. QED
  BY <1>1, AgentInvariant, PTL

(* However often a turn is saved, and by whom, a scope holds it once, and a  *)
(* session's turns stand in their order: SaveTurn replaces where it stands,  *)
(* identifiers are never used again, and each save is of the latest turn.   *)
THEOREM AgentSavesOnce == Spec => []OneRecordPerTurn
<1>1. IInv => OneRecordPerTurn
  <2>. SUFFICES ASSUME IInv PROVE OneRecordPerTurn
    OBVIOUS
  <2>1. \A s \in Sessions : \A i, j \in DOMAIN store[s] :
          i < j => store[s][i].turn < store[s][j].turn
    BY DEF IInv, OwnRecords, Ordered
  <2>2. ASSUME NEW s \in Sessions, NEW i \in DOMAIN store[s], NEW j \in DOMAIN store[s], i # j
        PROVE  store[s][i].turn # store[s][j].turn
    <3>1. store[s] \in Seq(MemoryRecords)
      BY DEF IInv, TypeOK, Scopes
    <3>2. i \in Int /\ j \in Int /\ store[s][i].turn \in Int /\ store[s][j].turn \in Int
      BY <2>2, <3>1, Places
    <3>3. i < j \/ j < i
      BY <2>2, <3>2
    <3>. QED
      BY <2>1, <2>2, <3>2, <3>3
  <2>3. \A i, j \in DOMAIN store[Device] : i # j => store[Device][i].turn # store[Device][j].turn
    BY DEF IInv, Identified, Distinct
  <2>. QED
    BY <2>1, <2>2, <2>3 DEF OneRecordPerTurn, Scopes
<1>. QED
  BY <1>1, AgentInvariant, PTL

(* What memory keeps as a turn's answer is what was said in it, whoever     *)
(* saved it last.                                                           *)
THEOREM AgentSavesSaid == Spec => []SaidIsSaved
<1>1. IInv => SaidIsSaved
  BY DEF IInv
<1>. QED
  BY <1>1, AgentInvariant, PTL

(* A turn that uses a prewarm, however old, knows every earlier turn of its *)
(* session: a session that has any has had a playback, and its turn carries *)
(* metadata then, which no prewarm matches.                                 *)
THEOREM AgentPrewarms == Spec => []PrewarmHidesNothing
<1>1. IInv => PrewarmHidesNothing
  BY DEF IInv, OwnRecords, PrewarmHidesNothing, Busy
<1>. QED
  BY <1>1, AgentInvariant, PTL

-----------------------------------------------------------------------------
(* Tools *)

\* A tool before this one has the same base.
Second(i) == \E h \in 1 .. i - 1 : Catalog[h].base = Catalog[i].base

\* The catalogs whose names the suffix tells apart: no three tools have one base, and
\* no base is the name that the second tool of another base is given.
NoClash ==
    /\ \A i, j, k \in DOMAIN Catalog : i < j /\ j < k =>
         ~ (Catalog[i].base = Catalog[j].base /\ Catalog[j].base = Catalog[k].base)
    /\ \A i, j \in DOMAIN Catalog :
         Second(j) => Catalog[i].base # suffixedName(Catalog[j].base, 1)

\* The names such a catalog gets.
Uses(i) == IF Second(i) THEN 1 ELSE 0
PlainNames == [i \in DOMAIN Catalog |-> suffixedName(Catalog[i].base, Uses(i))]

\* The tools before i that were named with the base of i.
Taken(f, i) == {j \in 1 .. i - 1 : f[j] = Catalog[i].base}

(* The places of the catalog are numbers.                                   *)
LEMMA CatalogPlaces ==
    /\ Len(Catalog) \in Nat /\ DOMAIN Catalog = 1 .. Len(Catalog)
    /\ \A i \in DOMAIN Catalog : Catalog[i].base \in Names
    /\ \A i \in DOMAIN Catalog : 1 .. i - 1 \subseteq DOMAIN Catalog
<1>1. Len(Catalog) \in Nat /\ DOMAIN Catalog = 1 .. Len(Catalog)
  BY AgentAssumption, LenProperties
<1>2. \A i \in DOMAIN Catalog : Catalog[i] \in [name : STRING, base : Names]
  BY AnswersTyped
<1>3. \A i \in DOMAIN Catalog : Catalog[i].base \in Names
  BY <1>2
<1>. QED
  BY <1>1, <1>3

(* While the tools before it have their plain names, a tool's base was used *)
(* once if another has it, and not at all otherwise.                        *)
LEMMA TakenOnce ==
    ASSUME NoClash, NEW f, NEW i \in DOMAIN Catalog,
           \A j \in 1 .. i - 1 : f[j] = PlainNames[j]
    PROVE  Cardinality(Taken(f, i)) = Uses(i)
<1>0. 1 .. i - 1 \subseteq DOMAIN Catalog /\ i \in Nat
  BY CatalogPlaces
<1>1. \A j \in 1 .. i - 1 : f[j] = suffixedName(Catalog[j].base, Uses(j))
  BY <1>0 DEF PlainNames
<1>2. \A j \in 1 .. i - 1 :
        f[j] = Catalog[i].base <=> ~ Second(j) /\ Catalog[j].base = Catalog[i].base
  <2>. SUFFICES ASSUME NEW j \in 1 .. i - 1
                PROVE  f[j] = Catalog[i].base
                         <=> ~ Second(j) /\ Catalog[j].base = Catalog[i].base
    OBVIOUS
  <2>1. CASE Second(j)
    BY <1>0, <1>1, <2>1 DEF NoClash, Uses
  <2>2. CASE ~ Second(j)
    <3>1. f[j] = suffixedName(Catalog[j].base, 0)
      BY <1>1, <2>2 DEF Uses
    <3>2. f[j] = Catalog[j].base
      BY <3>1 DEF suffixedName
    <3>. QED
      BY <2>2, <3>2
  <2>. QED
    BY <2>1, <2>2
<1>3. CASE ~ Second(i)
  <2>1. Taken(f, i) = {}
    BY <1>2, <1>3 DEF Taken, Second
  <2>. QED
    BY <1>3, <2>1, FS_EmptySet DEF Uses
<1>4. CASE Second(i)
  <2>1. PICK h \in 1 .. i - 1 : Catalog[h].base = Catalog[i].base
    BY <1>4 DEF Second
  <2>2. \A j \in 1 .. i - 1 : Catalog[j].base = Catalog[i].base => j = h
    <3>1. \A j \in 1 .. i - 1 : j = h \/ j < h \/ h < j
      BY <1>0
    <3>2. \A j \in 1 .. i - 1 : j \in DOMAIN Catalog /\ j < i
      BY <1>0
    <3>. QED
      BY <2>1, <3>1, <3>2 DEF NoClash
  <2>3. ~ Second(h)
    <3>1. \A g \in 1 .. h - 1 : g \in 1 .. i - 1 /\ g # h
      BY <1>0
    <3>. QED
      BY <2>1, <2>2, <3>1 DEF Second
  <2>4. Taken(f, i) = {h}
    BY <1>2, <2>1, <2>2, <2>3 DEF Taken
  <2>. QED
    BY <1>4, <2>4, FS_Singleton DEF Uses
<1>. QED
  BY <1>3, <1>4

(* The names that buildModelToolDefinitions gives such a catalog.           *)
LEMMA NamesGiven ==
    ASSUME NoClash
    PROVE  \A i \in DOMAIN Catalog : modelName[i] = PlainNames[i]
<1>. DEFINE Step(f) == [i \in DOMAIN Catalog |->
                          suffixedName(Catalog[i].base, Cardinality(Taken(f, i)))]
<1>1. PlainNames = Step(PlainNames)
  <2>1. \A i \in DOMAIN Catalog : Cardinality(Taken(PlainNames, i)) = Uses(i)
    BY TakenOnce
  <2>. QED
    BY <2>1 DEF PlainNames
<1>2. modelName = CHOOSE f : f = Step(f)
  BY DEF modelName, Taken
<1>3. modelName = Step(modelName)
  BY <1>1, <1>2
<1>4. \A i \in DOMAIN Catalog :
        modelName[i] = suffixedName(Catalog[i].base, Cardinality(Taken(modelName, i)))
  BY <1>3
<1>. HIDE DEF Step
<1>. DEFINE T == {i \in DOMAIN Catalog : modelName[i] # PlainNames[i]}
<1>5. ASSUME NEW x \in T PROVE FALSE
  <2>1. PICK i \in T : \A j \in T : i <= j
    BY <1>5, CatalogPlaces, Least
  <2>2. \A j \in 1 .. i - 1 : j \in DOMAIN Catalog /\ ~ (i <= j)
    BY CatalogPlaces
  <2>3. \A j \in 1 .. i - 1 : modelName[j] = PlainNames[j]
    BY <2>1, <2>2
  <2>4. Cardinality(Taken(modelName, i)) = Uses(i)
    BY <2>3, TakenOnce
  <2>. QED
    BY <1>4, <2>4 DEF PlainNames
<1>. QED
  BY <1>5

(* A suffix hides nothing of the base.                                      *)
LEMMA SuffixInjective ==
    ASSUME NEW a \in Names, NEW b \in Names, suffixedName(a, 1) = suffixedName(b, 1)
    PROVE  a = b
<1>1. a.suffix \in Seq(Nat) /\ b.suffix \in Seq(Nat) /\ 2 \in Nat
  BY DEF Names
<1>2. a.stem = b.stem /\ Append(a.suffix, 2) = Append(b.suffix, 2)
  <2>1. /\ suffixedName(a, 1) = [stem |-> a.stem, suffix |-> Append(a.suffix, 2)]
        /\ suffixedName(b, 1) = [stem |-> b.stem, suffix |-> Append(b.suffix, 2)]
    <3>1. 1 > 0 /\ 1 + 1 = 2
      OBVIOUS
    <3>2. /\ a = [stem |-> a.stem, suffix |-> a.suffix]
          /\ b = [stem |-> b.stem, suffix |-> b.suffix]
      BY DEF Names
    <3>. QED
      BY <3>1, <3>2 DEF suffixedName
  <2>. QED
    BY <2>1
<1>3. a.suffix = b.suffix
  <2>1. PICK x \in Seq(Nat) : x = a.suffix
    BY <1>1
  <2>2. PICK y \in Seq(Nat) : y = b.suffix
    BY <1>1
  <2>3. PICK e \in Nat : e = 2
    BY <1>1
  <2>4. Append(x, e) = Append(y, e)
    BY <1>2, <2>1, <2>2, <2>3
  <2>. DEFINE u == Append(x, e)
              v == Append(y, e)
  <2>5. /\ Len(u) = Len(x) + 1 /\ \A i \in 1 .. Len(x) : u[i] = x[i]
        /\ Len(v) = Len(y) + 1 /\ \A i \in 1 .. Len(y) : v[i] = y[i]
    BY AppendProperties
  <2>6. Len(x) \in Nat /\ Len(y) \in Nat
    BY LenProperties
  <2>7. u = v
    BY <2>4
  <2>. HIDE DEF u, v
  <2>8. Len(x) = Len(y)
    BY <2>5, <2>6, <2>7
  <2>9. \A i \in 1 .. Len(x) : x[i] = y[i]
    BY <2>5, <2>7, <2>8
  <2>10. x = y
    BY <2>8, <2>9, SeqEqual
  <2>. QED
    BY <2>1, <2>2, <2>10
<1>. QED
  BY <1>2, <1>3 DEF Names

(* The model's name of a tool leads back to it.                             *)
LEMMA NamesLeadBack ==
    ASSUME NoClash, NEW i \in DOMAIN Catalog
    PROVE  actualName(modelName[i]) = Catalog[i].name
<1>0. Len(Catalog) \in Nat /\ DOMAIN Catalog = 1 .. Len(Catalog)
  BY CatalogPlaces
<1>1. ASSUME NEW j \in DOMAIN Catalog, NEW k \in DOMAIN Catalog, j < k,
             modelName[j] = modelName[k]
      PROVE  FALSE
  <2>0. suffixedName(Catalog[j].base, Uses(j)) = suffixedName(Catalog[k].base, Uses(k))
    BY <1>1, NamesGiven DEF PlainNames
  <2>1. j \in 1 .. k - 1
    BY <1>0, <1>1
  <2>2. \A b : suffixedName(b, 0) = b
    BY DEF suffixedName
  <2>3. Catalog[j].base # Catalog[k].base
    <3>. SUFFICES ASSUME Catalog[j].base = Catalog[k].base PROVE FALSE
      OBVIOUS
    <3>1. Second(k)
      BY <2>1 DEF Second
    <3>2. ~ Second(j)
      <4>1. \A h \in 1 .. j - 1 : h \in DOMAIN Catalog /\ h < j
        BY <1>0
      <4>. QED
        BY <1>1, <4>1 DEF Second, NoClash
    <3>. QED
      BY <2>0, <2>2, <3>1, <3>2 DEF Uses, NoClash
  <2>4. CASE Second(j) /\ Second(k)
    BY <2>0, <2>3, <2>4, CatalogPlaces, SuffixInjective DEF Uses
  <2>5. CASE ~ Second(j) /\ Second(k)
    BY <2>0, <2>2, <2>5 DEF Uses, NoClash
  <2>6. CASE Second(j) /\ ~ Second(k)
    BY <2>0, <2>2, <2>6 DEF Uses, NoClash
  <2>7. CASE ~ Second(j) /\ ~ Second(k)
    BY <2>0, <2>2, <2>3, <2>7 DEF Uses
  <2>. QED
    BY <2>4, <2>5, <2>6, <2>7
<1>2. \A j \in DOMAIN Catalog : modelName[j] = modelName[i] => j = i
  <2>1. \A j \in DOMAIN Catalog : j = i \/ j < i \/ i < j
    BY <1>0
  <2>. QED
    BY <1>1, <2>1
<1>. DEFINE named == {j \in DOMAIN Catalog : modelName[j] = modelName[i]}
<1>3. named = {i}
  BY <1>2
<1>4. (CHOOSE k \in {i} : \A j \in {i} : j <= k) = i
  BY <1>0
<1>. QED
  BY <1>3, <1>4 DEF actualName

\* The invariant of the tool loop.
ToolInv == IInv /\ \A s \in Sessions : Named(s)

(* Every step keeps the answers in the order and of the tools of the calls. *)
LEMMA ToolsNamed ==
    ASSUME NoClash, ToolInv, Next, NEW u \in Sessions
    PROVE  Named(u)'
<1>0. IInv /\ TypeOK /\ turn \in [Sessions -> Turns] /\ turn[u] \in Turns /\ Named(u) /\ Counted(u)
  BY DEF ToolInv, IInv, TypeOK
<1>1. PICK s \in Sessions :
        \/ \E text \in Texts, spoken \in BOOLEAN : BeginTurn(s, text, spoken)
        \/ Execute(s)
        \/ StartEarlyAudio(s) \/ PlayChunk(s) \/ CompletePlayback(s) \/ InterruptPlayback(s)
        \/ \E text \in Prefixes : LaunchPrewarm(s, text)
        \/ PrewarmLoad(s) \/ PrewarmStore(s)
  BY DEF Next
<1>2. CASE turn'[u].asked = turn[u].asked /\ turn'[u].answers = turn[u].answers
  BY <1>0, <1>2 DEF Named
<1>3. CASE turn'[u].answers = <<>>
  <2>1. DOMAIN turn'[u].answers = {}
    BY <1>3, EmptySeq
  <2>. QED
    BY <2>1 DEF Named
<1>4. CASE ~ TurnStep(s) \/ u # s
  <2>1. turn'[u] = turn[u]
    <3>1. CASE ~ TurnStep(s)
      BY <1>1, <3>1 DEF TurnStep, PlayChunk, CompletePlayback, InterruptPlayback, LaunchPrewarm,
         PrewarmLoad, PrewarmStore
    <3>2. CASE TurnStep(s)
      BY <1>0, <1>4, <3>2, TurnTyped
    <3>. QED
      BY <3>1, <3>2
  <2>. QED
    BY <1>2, <2>1
<1>5. CASE u = s /\ InvokeTool(u)
  <2>. DEFINE n == Len(turn[u].answers) + 1
              a == Append(turn[u].answers, Answer(turn[u].asked[n], n))
  <2>0. /\ turn[u].answers \in Seq([tool : STRING, id : Nat])
        /\ turn[u].asked \in Seq(DOMAIN Catalog)
        /\ Len(turn[u].answers) \in Nat /\ DOMAIN turn[u].answers = 1 .. Len(turn[u].answers)
        /\ n \in Nat /\ n \in 1 .. Len(turn[u].asked)
    BY <1>0, <1>5, LenProperties DEF Turns, Counted, InvokeTool
  <2>1. turn'[u].answers = a /\ turn'[u].asked = turn[u].asked
    BY <1>0, <1>5 DEF InvokeTool, Turns
  <2>2. turn[u].asked[n] \in DOMAIN Catalog
    BY <2>0, ElementOfSeq
  <2>3. PICK x \in [tool : STRING, id : Nat] : x = Answer(turn[u].asked[n], n)
    BY <2>0, <2>2, AnswersTyped
  <2>4. x.id = n /\ x.tool = Catalog[turn[u].asked[n]].name
    BY <2>2, <2>3, NamesLeadBack DEF Answer
  <2>5. /\ DOMAIN a = 1 .. n /\ a[n] = x
        /\ \A i \in 1 .. Len(turn[u].answers) : a[i] = turn[u].answers[i]
    <3>1. a = Append(turn[u].answers, x)
      BY <2>3
    <3>. HIDE DEF a
    <3>. QED
      BY <2>0, <3>1, AppendProperties, LenProperties
  <2>. HIDE DEF a
  <2>6. \A i \in 1 .. n : i = n \/ i \in 1 .. Len(turn[u].answers)
    BY <2>0
  <2>7. ASSUME NEW i \in 1 .. n PROVE a[i].id = i /\ a[i].tool = Catalog[turn[u].asked[i]].name
    <3>1. CASE i = n
      BY <2>4, <2>5, <3>1
    <3>2. CASE i \in 1 .. Len(turn[u].answers)
      BY <1>0, <2>0, <2>5, <3>2 DEF Named
    <3>. QED
      BY <2>6, <3>1, <3>2
  <2>. QED
    BY <2>1, <2>5, <2>7 DEF Named
<1>6. CASE u = s /\ TurnStep(u) /\ ~ InvokeTool(u)
  <2>1. ASSUME NEW text \in Texts, NEW spoken \in BOOLEAN, BeginTurn(u, text, spoken)
        PROVE  turn'[u].answers = <<>>
    BY <1>0, <2>1 DEF BeginTurn, NoTurn
  <2>2. ASSUME NEW pc, turn' = [turn EXCEPT ![u] = Over(u, pc)]
        PROVE  turn'[u].answers = <<>>
    BY <1>0, <2>2 DEF Over, NoTurn
  <2>3. ASSUME NEW piece \in {0, 1}, NEW calls \in CallLists, ModelStep(u, piece, calls)
        PROVE  turn'[u].answers = <<>>
    <3>1. CASE Failed(u)
      BY <2>2, <3>1 DEF Failed
    <3>2. CASE ~ Failed(u)
      BY <1>0, <2>3, <3>2 DEF ModelStep, Turns
    <3>. QED
      BY <3>1, <3>2
  <2>4. ASSUME NEW expired \in BOOLEAN, Consume(u, expired)
        PROVE  turn'[u].asked = turn[u].asked /\ turn'[u].answers = turn[u].answers
    BY <1>0, <2>4 DEF Consume, Turns
  <2>5. CASE Load(u) \/ ToModel(u) \/ SaveOutput(u) \/ PrepareAgain(u) \/ StartEarlyAudio(u)
    <3>1. turn'[u].asked = turn[u].asked /\ turn'[u].answers = turn[u].answers
      BY <1>0, <2>5 DEF Load, ToModel, SaveOutput, PrepareAgain, StartEarlyAudio, Turns
    <3>. QED
      BY <1>2, <3>1
  <2>6. CASE Bootstrap(u)
    <3>1. \/ turn'[u].answers = <<>>
          \/ turn'[u].asked = turn[u].asked /\ turn'[u].answers = turn[u].answers
      BY <1>0, <2>2, <2>6 DEF Bootstrap, Failed, Turns
    <3>. QED
      BY <1>2, <1>3, <3>1
  <2>7. CASE ModelFails(u) \/ DeliverEarly(u) \/ DeliverAudio(u) \/ DeliverText(u)
    BY <1>3, <2>2, <2>7 DEF ModelFails, Failed, DeliverEarly, DeliverAudio, DeliverText
  <2>. QED
    BY <1>2, <1>3, <1>6, <2>1, <2>3, <2>4, <2>5, <2>6, <2>7 DEF TurnStep, Execute
<1>. QED
  BY <1>4, <1>5, <1>6

(* When no three tools share the base of a name and no base is the suffixed *)
(* name of another tool, each call of the model is answered in order by the *)
(* tool it meant, whatever the loop has done.                               *)
THEOREM AgentAnswers == ASSUME NoClash PROVE Spec => []ToolsAnswered
<1>1. Init => ToolInv
  <2>1. Init => \A s \in Sessions : turn[s].answers = <<>>
    BY DEF Init, NoTurn
  <2>. QED
    BY <2>1, InitInv, EmptySeq DEF ToolInv, Named
<1>2. ToolInv /\ [Next]_vars => ToolInv'
  <2>1. ASSUME ToolInv, Next PROVE ToolInv'
    BY <2>1, ToolsNamed, NextInv DEF ToolInv
  <2>2. ASSUME ToolInv, UNCHANGED vars PROVE ToolInv'
    BY <2>2, NextInv DEF ToolInv, Named, vars
  <2>. QED
    BY <2>1, <2>2
<1>3. ToolInv => ToolsAnswered
  <2>. SUFFICES ASSUME ToolInv, NEW s \in Sessions, turn[s].pc = "model"
                PROVE  /\ Len(turn[s].answers) = Len(turn[s].asked)
                       /\ \A i \in DOMAIN turn[s].asked :
                            /\ turn[s].answers[i].id = i
                            /\ turn[s].answers[i].tool = Catalog[turn[s].asked[i]].name
    BY DEF ToolsAnswered
  <2>1. /\ turn[s].answers \in Seq([tool : STRING, id : Nat])
        /\ turn[s].asked \in Seq(DOMAIN Catalog)
    BY DEF ToolInv, IInv, TypeOK, Turns
  <2>2. Len(turn[s].answers) = Len(turn[s].asked)
    BY DEF ToolInv, IInv, Counted, Executing
  <2>3. DOMAIN turn[s].asked = DOMAIN turn[s].answers
    BY <2>1, <2>2, LenProperties
  <2>. QED
    BY <2>2, <2>3 DEF ToolInv, Named
<1>. QED
  BY <1>1, <1>2, <1>3, PTL DEF Spec
=============================================================================
