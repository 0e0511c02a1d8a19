------------------------- MODULE RealtimeGatewayProofs -------------------------
(***************************************************************************)
(* Proofs about the native realtime gateway: the types, that it uses the   *)
(* session core as the core may be used, and the four invariants about the *)
(* read loop and the output goroutines that share the session.             *)
(*                                                                         *)
(* The argument is one of custody.  An output goroutine holds the session  *)
(* from the moment it is spawned until it has set the output lane, ended   *)
(* the session or left (Held).  While it does (Owning), it is the one that *)
(* runtime.output names, the session is the one it was spawned in and      *)
(* says speaking (closing, once the goroutine has ended it), and the read  *)
(* loop is at a place that neither answers a turn nor moves the output     *)
(* lane (Listening); if the goroutine was cancelled, the read loop is      *)
(* waiting for it.  So when interruptOutput has waited, nobody holds the   *)
(* session, and nobody does while a turn is answered: the turn's session   *)
(* is still the one it was accepted in (Answering).  Backed adds that a    *)
(* session in speaking is held, or that the read loop is on its way to it. *)
(*                                                                         *)
(* Two hypotheses are named in the theorems that need them: a cancelled    *)
(* goroutine ends within the time interruptOutput waits for it             *)
(* (PromptExit), and no text from the client crosses a session.end of the  *)
(* server on the wire (~TurnsCrossEnd).  If either is dropped, TLC finds   *)
(* InterruptReaches, ReturnIsTimely and OneVoice violated.                 *)
(***************************************************************************)
EXTENDS RealtimeGateway, TLAPS

\* The session core, with its proofs.
Core == INSTANCE RealtimeSessionProofs WITH Frames <- SessionIDs

-----------------------------------------------------------------------------
(* The session core, as its own proofs know it *)

(* The two instances of the session core are one: its states,              *)
LEMMA SameStates ==
    /\ S!CompatStates = Core!CompatStates /\ S!InputStates = Core!InputStates
    /\ S!OutputStates = Core!OutputStates /\ S!CloseReasons = Core!CloseReasons
    /\ S!Sessions = Core!Sessions
    /\ S!idleSnapshot = Core!idleSnapshot
BY DEF S!Sessions, Core!Sessions, S!CloseReasons, Core!CloseReasons,
       S!CompatStates, Core!CompatStates, S!InputStates, Core!InputStates,
       S!OutputStates, Core!OutputStates, S!idleSnapshot, Core!idleSnapshot

(* its methods,                                                             *)
LEMMA SameNext == S!Next <=> Core!Next
<1>0. \A s : S!WithState(s) = Core!WithState(s)
  BY Zenon DEF S!WithState, Core!WithState, S!deriveCompatState, Core!deriveCompatState
<1>. USE <1>0
<1>1. \A id : S!Start(id) <=> Core!Start(id)
  BY SameStates DEF S!Start, Core!Start, S!StartOp, Core!StartOp
<1>2. \A p : S!IngestOwnedAudioFrame(p) <=> Core!IngestOwnedAudioFrame(p)
  BY DEF S!IngestOwnedAudioFrame, Core!IngestOwnedAudioFrame, S!IngestOp, Core!IngestOp
<1>3. S!AcceptText <=> Core!AcceptText
  BY DEF S!AcceptText, Core!AcceptText, S!AcceptTextOp, Core!AcceptTextOp
<1>4. S!CommitTurn <=> Core!CommitTurn
  BY DEF S!CommitTurn, Core!CommitTurn, S!CommitTurnOp, Core!CommitTurnOp,
         S!CommittedAudio, Core!CommittedAudio
<1>5. \A st : S!SetState(st) <=> Core!SetState(st)
  BY SameStates
     DEF S!SetState, Core!SetState, S!SetStateOp, Core!SetStateOp, S!applyCompatState,
         Core!applyCompatState, S!compatInput, Core!compatInput,
         S!normalizeOutputState, Core!normalizeOutputState
<1>6. \A st : S!SetInputState(st) <=> Core!SetInputState(st)
  BY SameStates
     DEF S!SetInputState, Core!SetInputState, S!SetInputStateOp, Core!SetInputStateOp,
         S!normalizeInputState, Core!normalizeInputState
<1>7. \A st : S!SetOutputState(st) <=> Core!SetOutputState(st)
  BY SameStates
     DEF S!SetOutputState, Core!SetOutputState, S!SetOutputStateOp, Core!SetOutputStateOp,
         S!normalizeOutputState, Core!normalizeOutputState
<1>8. \A r : S!End(r) <=> Core!End(r)
  BY DEF S!End, Core!End, S!EndOp, Core!EndOp
<1>9. S!ClearTurn <=> Core!ClearTurn
  BY DEF S!ClearTurn, Core!ClearTurn, S!ClearTurnOp, Core!ClearTurnOp
<1>10. S!Reset <=> Core!Reset
  BY SameStates DEF S!Reset, Core!Reset, S!ResetOp, Core!ResetOp
<1>. QED
  BY <1>1, <1>2, <1>3, <1>4, <1>5, <1>6, <1>7, <1>8, <1>9, <1>10, SameStates
     DEF S!Next, Core!Next

(* its variables, types and initial states.                                 *)
LEMMA SameSpec ==
    /\ S!Init <=> Core!Init
    /\ S!vars = Core!vars
    /\ S!TypeOK <=> Core!TypeOK
BY SameStates DEF S!Init, Core!Init, S!vars, Core!vars, S!TypeOK, Core!TypeOK

(* A step of the core, under either name.                                   *)
LEMMA CoreStep == [S!Next]_(S!vars) => [Core!Next]_(Core!vars)
BY SameNext DEF S!vars, Core!vars

(* What the core's proofs show of it holds here at the start,               *)
LEMMA CoreInit == S!Init => Core!IInv
BY Core!InitInv, SameSpec, GatewayAssumption

(* and every method the gateway calls preserves it.                         *)
LEMMA CoreNext == Core!IInv /\ [S!Next]_(S!vars) => Core!IInv'
BY Core!NextInv, CoreStep, GatewayAssumption

-----------------------------------------------------------------------------
(* Types, and the gateway's use of the session core *)

OutputTable == [Outputs -> OutputRecs]

\* TypeOK without the session.  A frame on its way is of a session.
Local ==
    /\ main \in Mains
    /\ outputs \in OutputTable
    /\ output \in Outputs \cup {NoOutput} /\ ack \in Outputs \cup {NoOutput}
    /\ pending \in Seq(SessionIDs)
    /\ ended \in Nat /\ lateTurn \in BOOLEAN /\ broken \in BOOLEAN
    /\ main.pc \in {"ingest", "stage"} => main.sid \in SessionIDs

(* The idle read loop.                                                      *)
LEMMA AtLoopRecord == AtLoop \in Mains /\ AtLoop.pc = "loop"
<1>1. <<>> \in Seq(SessionIDs)
  OBVIOUS
<1>. QED
  BY <1>1 DEF Mains, MainPCs, AtLoop, NoOutput

(* Every record the read loop is left in is one of its states.              *)
LEMMA MainRecords ==
    ASSUME main \in Mains
    PROVE  /\ AtLoop \in Mains /\ Back \in Mains /\ HandlerFails \in Mains
           /\ \A pc \in MainPCs : Goto(pc) \in Mains /\ Goto(pc).pc = pc
           /\ main.cont \in MainPCs \ {"ingest", "stage"}
           /\ AtLoop.pc = "loop" /\ Back.pc \in {"loop", "closed"}
           /\ HandlerFails.pc \in {"loop", "closed"}
<1>1. AtLoop \in Mains /\ AtLoop.pc = "loop"
  BY AtLoopRecord
<1>2. ASSUME NEW m \in Mains, NEW pc \in MainPCs
      PROVE  [m EXCEPT !.pc = pc] \in Mains /\ [m EXCEPT !.pc = pc].pc = pc
  BY <1>2 DEF Mains
<1>3. Back \in Mains /\ Back.pc \in {"loop", "closed"}
  BY <1>1, <1>2 DEF Back, MainPCs
<1>4. HandlerFails \in Mains /\ HandlerFails.pc \in {"loop", "closed"}
  BY <1>1, <1>2, <1>3 DEF HandlerFails, MainPCs
<1>5. main.cont \in MainPCs \ {"ingest", "stage"}
  BY DEF Mains, MainPCs
<1>. QED
  BY <1>1, <1>2, <1>3, <1>4, <1>5 DEF Goto

(* The records a message begins with: a frame,                              *)
LEMMA BinaryRecord ==
    ASSUME NEW id \in SessionIDs, NEW pc \in {"stage", "ingest"}, NEW ready \in BOOLEAN
    PROVE  LET m == [AtLoop EXCEPT !.msg = "binary", !.sid = id, !.pc = pc, !.ready = ready]
           IN  m \in Mains /\ m.sid = id
BY AtLoopRecord DEF Mains, MainPCs

(* the end of a turn,                                                       *)
LEMMA CommitRecords ==
    ASSUME NEW ready \in BOOLEAN
    PROVE  /\ LET m == [AtLoop EXCEPT !.msg = "commit", !.pc = "committable", !.ready = ready]
              IN  m \in Mains /\ m.pc = "committable"
           /\ LET m == [AtLoop EXCEPT !.msg = "tick", !.pc = "poll", !.ready = ready]
              IN  m \in Mains /\ m.pc = "poll"
           /\ LET m == [AtLoop EXCEPT !.msg = "commit", !.pc = "interrupt", !.cont = "flush"]
              IN  m \in Mains /\ m.pc = "interrupt"
BY AtLoopRecord DEF Mains, MainPCs

(* the end of the session,                                                  *)
LEMMA EndRecord ==
    ASSUME NEW w \in Outputs \cup {NoOutput}, NEW msg \in {"none", "binary"},
           NEW last \in BOOLEAN
    PROVE  LET m == [AtLoop EXCEPT !.pc = "wait", !.waiting = w, !.cont = "end",
                                   !.msg = msg, !.last = last]
           IN  m \in Mains /\ m.pc = "wait"
BY AtLoopRecord DEF Mains, MainPCs

(* a text, an interruption, the end of the connection.                      *)
LEMMA TextRecords ==
    /\ LET m == [AtLoop EXCEPT !.msg = "text", !.pc = "interrupt", !.cont = "accept",
                               !.clear = TRUE]
       IN  m \in Mains /\ m.pc = "interrupt"
    /\ LET m == [AtLoop EXCEPT !.msg = "text", !.pc = "accept"]
       IN  m \in Mains /\ m.pc = "accept"
    /\ LET m == [AtLoop EXCEPT !.pc = "interrupt", !.clear = TRUE]
       IN  m \in Mains /\ m.pc = "interrupt"
    /\ LET m == [AtLoop EXCEPT !.pc = "interrupt"] IN m \in Mains /\ m.pc = "interrupt"
    /\ LET m == [AtLoop EXCEPT !.pc = "closed"] IN m \in Mains /\ m.pc = "closed"
BY AtLoopRecord DEF Mains, MainPCs

(* The record a response begins with,                                       *)
LEMMA RespondRecord ==
    ASSUME NEW id \in SessionIDs \cup {NoID}, NEW msg \in {"tick", "none"}
    PROVE  LET m == [AtLoop EXCEPT !.pc = "respond", !.sid = id, !.msg = msg]
           IN  m \in Mains /\ m.pc = "respond"
BY AtLoopRecord DEF Mains, MainPCs

(* those of an interruption,                                                *)
LEMMA WaitRecords ==
    ASSUME main \in Mains, NEW w \in Outputs \cup {NoOutput}, NEW lane \in BOOLEAN
    PROVE  /\ LET m == [main EXCEPT !.pc = "wait", !.waiting = w, !.lane = lane]
              IN  m \in Mains /\ m.pc = "wait"
           /\ LET m == [main EXCEPT !.pc = "wait", !.waiting = w, !.lane = FALSE, !.cont = "end"]
              IN  m \in Mains /\ m.pc = "wait"
<1>1. LET m == [main EXCEPT !.pc = "wait", !.waiting = w, !.lane = lane]
      IN  m \in Mains /\ m.pc = "wait"
  BY DEF Mains, MainPCs
<1>2. LET m == [main EXCEPT !.pc = "wait", !.waiting = w, !.lane = FALSE, !.cont = "end"]
      IN  m \in Mains /\ m.pc = "wait"
  BY DEF Mains, MainPCs
<1>. QED
  BY <1>1, <1>2

(* of its continuation,                                                     *)
LEMMA ContRecord ==
    ASSUME main \in Mains, NEW pc \in MainPCs
    PROVE  LET m == [main EXCEPT !.pc = pc, !.waiting = NoOutput] IN m \in Mains /\ m.pc = pc
BY DEF Mains

(* of a flush,                                                              *)
LEMMA FlushRecords ==
    ASSUME main \in Mains, NEW t \in Seq(SessionIDs), NEW ready \in BOOLEAN
    PROVE  /\ LET m == [main EXCEPT !.took = t] IN m \in Mains /\ m.pc = main.pc
           /\ LET m == [main EXCEPT !.took = <<>>, !.pc = "committable", !.ready = ready]
              IN  m \in Mains /\ m.pc = "committable"
           /\ LET m == [main EXCEPT !.pc = "committable", !.ready = ready]
              IN  m \in Mains /\ m.pc = "committable"
<1>1. <<>> \in Seq(SessionIDs)
  OBVIOUS
<1>. QED
  BY <1>1 DEF Mains, MainPCs

(* and of a playback.                                                       *)
LEMMA PlayRecords ==
    ASSUME main \in Mains
    PROVE  /\ LET m == [main EXCEPT !.pc = "interrupt", !.cont = "flush"]
              IN  m \in Mains /\ m.pc = "interrupt"
           /\ LET m == [main EXCEPT !.pc = "spawn", !.early = TRUE]
              IN  m \in Mains /\ m.pc = "spawn"
           /\ \A o \in Outputs : LET m == [main EXCEPT !.pc = "respond", !.out = o]
                                 IN  m \in Mains /\ m.pc = "respond"
BY DEF Mains, MainPCs

(* Every way to set an output goroutine's record leaves it a record.        *)
LEMMA OutputRecords ==
    ASSUME outputs \in OutputTable
    PROVE  /\ NoOutputRec \in OutputRecs /\ Exiting \in OutputRecs
           /\ \A o \in Outputs, pc \in OutputPCs :
                 /\ [outputs[o] EXCEPT !.pc = pc] \in OutputRecs
                 /\ [outputs EXCEPT ![o].pc = pc] \in OutputTable
           /\ \A o \in Outputs, r \in OutputRecs : [outputs EXCEPT ![o] = r] \in OutputTable
           /\ \A o \in Outputs \cup {NoOutput} :
                 [outputs EXCEPT ![o].cancelled = TRUE] \in OutputTable
           /\ \A o \in Outputs \cup {NoOutput}, c \in {"return", "end"} :
                 [outputs EXCEPT ![o].outcome = IF Alive(o) THEN c ELSE @] \in OutputTable
           /\ [o \in Outputs |-> [outputs[o] EXCEPT !.cancelled = TRUE]] \in OutputTable
           /\ \A id \in SessionIDs \cup {NoID}, c \in {"open", "return", "end"} :
                 [NoOutputRec EXCEPT !.pc = "play", !.sid = id, !.outcome = c] \in OutputRecs
<1>1. <<>> \in Seq(SessionIDs) /\ NoOutput \notin Outputs
  BY DEF NoOutput, Outputs
<1>2. NoOutputRec \in OutputRecs /\ Exiting \in OutputRecs
  BY <1>1 DEF NoOutputRec, Exiting, OutputRecs, OutputPCs
<1>3. ASSUME NEW id \in SessionIDs \cup {NoID}, NEW c \in {"open", "return", "end"}
      PROVE  [NoOutputRec EXCEPT !.pc = "play", !.sid = id, !.outcome = c] \in OutputRecs
  BY <1>1, <1>3 DEF NoOutputRec, OutputRecs, OutputPCs
<1>4. \A o \in Outputs \cup {NoOutput} : [outputs EXCEPT ![o].cancelled = TRUE] \in OutputTable
  BY <1>1 DEF OutputTable, OutputRecs
<1>5. \A o \in Outputs \cup {NoOutput}, c \in {"return", "end"} :
         [outputs EXCEPT ![o].outcome = IF Alive(o) THEN c ELSE @] \in OutputTable
  BY <1>1 DEF OutputTable, OutputRecs
<1>6. [o \in Outputs |-> [outputs[o] EXCEPT !.cancelled = TRUE]] \in OutputTable
  BY DEF OutputTable, OutputRecs
<1>7. \A o \in Outputs, pc \in OutputPCs :
         /\ [outputs[o] EXCEPT !.pc = pc] \in OutputRecs
         /\ [outputs EXCEPT ![o].pc = pc] \in OutputTable
  BY DEF OutputTable, OutputRecs
<1>8. \A o \in Outputs, r \in OutputRecs : [outputs EXCEPT ![o] = r] \in OutputTable
  BY DEF OutputTable
<1>. QED
  BY <1>2, <1>3, <1>4, <1>5, <1>6, <1>7, <1>8

(* So does every step of a goroutine to another of its steps.               *)
LEMMA OutputGoes ==
    ASSUME outputs \in OutputTable, NEW o \in Outputs, NEW pc \in OutputPCs, OutputGoto(o, pc)
    PROVE  outputs' \in OutputTable
<1>1. CASE pc = "exit"
  BY <1>1, OutputRecords DEF OutputGoto
<1>2. CASE pc # "exit"
  <2>1. outputs' = [outputs EXCEPT ![o] = [outputs[o] EXCEPT !.pc = pc]]
    BY <1>2 DEF OutputGoto
  <2>. QED
    BY <2>1, OutputRecords
<1>. QED
  BY <1>1, <1>2

\* What the core's proofs rest on, and the gateway's own types.
TypeInv == Core!IInv /\ Local

(* The session is one of the core's; an active one has an identifier.       *)
LEMMA SessionTyped ==
    ASSUME TypeInv
    PROVE  /\ session \in S!Sessions /\ handed \in Seq(SessionIDs)
           /\ session.active <=> session.id # NoID
           /\ session.active => session.id \in SessionIDs
           /\ session.id \in SessionIDs \cup {NoID} /\ session.bytes \in Nat
BY SameStates DEF TypeInv, Core!IInv, Core!TypeOK, S!Sessions

(* A message of the client leaves the gateway's own state well typed.       *)
LEMMA ReceiveTypes ==
    ASSUME TypeInv, Receive
    PROVE  Local'
<1>0. Local
  BY DEF TypeInv
<1>. USE <1>0 DEF Local
<1>1. CASE SessionStart
  BY <1>1 DEF SessionStart
<1>2. CASE Binary
  <2>1. PICK id \in SessionIDs, pc \in {"stage", "ingest"}, ready \in BOOLEAN :
          main' = [AtLoop EXCEPT !.msg = "binary", !.sid = id, !.pc = pc, !.ready = ready]
    BY <1>2, SessionTyped DEF Binary
  <2>2. main' \in Mains /\ main'.sid \in SessionIDs
    BY <2>1, BinaryRecord
  <2>. QED
    BY <1>2, <2>2 DEF Binary, historyVars
<1>3. CASE Commit
  <2>0. (State = "active") \in BOOLEAN
    OBVIOUS
  <2>1. main' \in Mains /\ main'.pc \in {"interrupt", "committable"}
    BY <1>3, <2>0, CommitRecords DEF Commit
  <2>. QED
    BY <1>3, <2>1 DEF Commit, historyVars
<1>4. CASE EndpointTick
  <2>1. (session.bytes > 0) \in BOOLEAN
    OBVIOUS
  <2>2. main' \in Mains /\ main'.pc = "poll"
    BY <1>4, <2>1, CommitRecords DEF EndpointTick
  <2>. QED
    BY <1>4, <2>2 DEF EndpointTick, historyVars
<1>5. CASE Text
  <2>1. main' \in Mains /\ main'.pc \in {"interrupt", "accept"}
    BY <1>5, TextRecords DEF Text
  <2>. QED
    BY <1>5, <2>1 DEF Text, historyVars
<1>6. ASSUME NEW msg \in {"none", "binary"}, NEW last \in BOOLEAN, EndRequested(msg, last)
      PROVE  Local'
  <2>1. main' \in Mains /\ main'.pc = "wait"
    BY <1>6, EndRecord DEF EndRequested
  <2>2. outputs' \in OutputTable
    BY <1>6, OutputRecords DEF EndRequested, CancelOutput
  <2>. QED
    BY <1>6, <2>1, <2>2 DEF EndRequested, historyVars
<1>7. CASE InterruptHint \/ AudioOutCleared
  <2>1. main' \in Mains /\ main'.pc = "interrupt"
    BY <1>7, TextRecords DEF InterruptHint, AudioOutCleared
  <2>. QED
    BY <1>7, <2>1 DEF InterruptHint, AudioOutCleared, historyVars
<1>. QED
  BY <1>1, <1>2, <1>3, <1>4, <1>5, <1>6, <1>7
     DEF Receive, ClientEnd, ReadTimeout, BinaryRejected

(* So does a step of the read loop,                                         *)
LEMMA HandleTypes ==
    ASSUME TypeInv, Handle \/ Disconnect
    PROVE  Local'
<1>0. Local
  BY DEF TypeInv
<1>. USE <1>0 DEF Local
<1>1. CASE BinaryIngest \/ BinaryPreview \/ TickPoll \/ TextAccept
  <2>1. main' \in Mains /\ main'.pc \in {"preview", "loop", "closed", "commit"}
    BY <1>1, MainRecords DEF BinaryIngest, BinaryPreview, TickPoll, TextAccept, MainPCs
  <2>. QED
    BY <1>1, <2>1 DEF BinaryIngest, BinaryPreview, TickPoll, TextAccept, historyVars
<1>2. CASE BinaryStage
  <2>1. main' \in Mains /\ main'.pc = "judge"
    BY <1>2, MainRecords DEF BinaryStage, MainPCs
  <2>2. pending' \in Seq(SessionIDs)
    BY <1>2 DEF BinaryStage
  <2>. QED
    BY <1>2, <2>1, <2>2 DEF BinaryStage, historyVars
<1>3. CASE BinaryJudge
  <2>1. main' \in Mains /\ main'.pc \in {"loop", "closed", "interrupt"}
    BY <1>3, MainRecords, PlayRecords DEF BinaryJudge
  <2>. QED
    BY <1>3, <2>1 DEF BinaryJudge, historyVars
<1>4. CASE Interrupt
  <2>0. (State = "speaking") \in BOOLEAN
    OBVIOUS
  <2>1. main' \in Mains /\ main'.pc \notin {"ingest", "stage"}
    BY <1>4, <2>0, MainRecords, WaitRecords DEF Interrupt
  <2>2. outputs' \in OutputTable
    BY <1>4, OutputRecords DEF Interrupt, CancelOutput
  <2>. QED
    BY <1>4, <2>1, <2>2 DEF Interrupt, historyVars
<1>5. CASE InterruptWait
  <2>0. PICK pc \in MainPCs \ {"ingest", "stage"} :
          main' = [main EXCEPT !.pc = pc, !.waiting = NoOutput]
    BY <1>5, MainRecords DEF InterruptWait, MainPCs
  <2>1. main' \in Mains /\ main'.pc \notin {"ingest", "stage"}
    BY <2>0, ContRecord
  <2>. QED
    BY <1>5, <2>1 DEF InterruptWait, historyVars
<1>6. CASE InterruptLane
  <2>1. main' \in Mains /\ main'.pc \notin {"ingest", "stage"}
    BY <1>6, MainRecords DEF InterruptLane, MainPCs
  <2>. QED
    BY <1>6, <2>1 DEF InterruptLane, historyVars
<1>7. CASE InterruptClear
  <2>1. main' \in Mains /\ main'.pc \notin {"ingest", "stage"}
    BY <1>7, MainRecords DEF InterruptClear
  <2>. QED
    BY <1>7, <2>1 DEF InterruptClear, historyVars
<1>8. CASE FlushTake
  <2>1. main' \in Mains /\ main'.pc = "flush"
    BY <1>8, FlushRecords DEF FlushTake
  <2>. QED
    BY <1>8, <2>1 DEF FlushTake, historyVars
<1>9. CASE FlushIngest
  <2>0. main.took \in Seq(SessionIDs) /\ (session'.state = "active") \in BOOLEAN
    BY DEF Mains
  <2>1. Tail(main.took) \in Seq(SessionIDs)
    BY <1>9, <2>0 DEF FlushIngest
  <2>2. \/ main' \in {HandlerFails, Back} \/ main' = [main EXCEPT !.took = Tail(main.took)]
        \/ main' = [main EXCEPT !.took = <<>>, !.pc = "committable",
                                !.ready = (session'.state = "active")]
    BY <1>9 DEF FlushIngest
  <2>3. main.pc = "flush"
    BY <1>9 DEF FlushIngest
  <2>4. main' \in Mains /\ main'.pc \notin {"ingest", "stage"}
    BY <2>0, <2>1, <2>2, <2>3, MainRecords, FlushRecords
  <2>. QED
    BY <1>9, <2>4 DEF FlushIngest, historyVars
<1>10. CASE FlushNothing
  <2>1. main' \in Mains /\ main'.pc \notin {"ingest", "stage"}
    BY <1>10, MainRecords, FlushRecords DEF FlushNothing
  <2>. QED
    BY <1>10, <2>1 DEF FlushNothing, historyVars
<1>11. CASE Committable
  <2>1. main' \in Mains /\ main'.pc \notin {"ingest", "stage"}
    BY <1>11, MainRecords DEF Committable, MainPCs
  <2>. QED
    BY <1>11, <2>1 DEF Committable, historyVars
<1>12. CASE CommitTurn
  <2>0. PICK msg \in {"tick", "none"} :
          main' \in {HandlerFails, [AtLoop EXCEPT !.pc = "respond", !.sid = session.id,
                                                  !.msg = msg]}
    BY <1>12 DEF CommitTurn
  <2>1. main' \in Mains /\ main'.pc \notin {"ingest", "stage"}
    BY <2>0, SessionTyped, MainRecords, RespondRecord
  <2>2. pending' \in Seq(SessionIDs) /\ lateTurn' \in BOOLEAN
    BY <1>12 DEF CommitTurn
  <2>. QED
    BY <1>12, <2>1, <2>2 DEF CommitTurn
<1>13. CASE RespondEarly
  <2>1. main' \in Mains /\ main'.pc \notin {"ingest", "stage"}
    BY <1>13, MainRecords, PlayRecords DEF RespondEarly, MainPCs
  <2>. QED
    BY <1>13, <2>1 DEF RespondEarly, historyVars
<1>14. CASE Spawn
  <2>1. PICK o \in Outputs, outcome \in {"open", "return", "end"} :
          /\ outputs' = [outputs EXCEPT ![o] = [NoOutputRec EXCEPT
                            !.pc = "play", !.sid = main.sid, !.outcome = outcome]]
          /\ output' = o /\ ack' = o
          /\ main' = IF main.early THEN [main EXCEPT !.pc = "respond", !.out = o] ELSE Back
    BY <1>14 DEF Spawn
  <2>2. main.sid \in SessionIDs \cup {NoID}
    BY DEF Mains
  <2>3. outputs' \in OutputTable
    BY <2>1, <2>2, OutputRecords
  <2>4. main' \in Mains /\ main'.pc \notin {"ingest", "stage"}
    BY <2>1, MainRecords, PlayRecords
  <2>. QED
    BY <1>14, <2>1, <2>3, <2>4 DEF Spawn, historyVars
<1>15. CASE RespondTransferred
  <2>1. main' \in Mains /\ main'.pc \notin {"ingest", "stage"}
    BY <1>15, MainRecords DEF RespondTransferred
  <2>2. main.out \in Outputs \cup {NoOutput}
    BY DEF Mains
  <2>3. outputs' \in OutputTable
    BY <1>15, <2>2, OutputRecords DEF RespondTransferred, Outcomes
  <2>. QED
    BY <1>15, <2>1, <2>3 DEF RespondTransferred, historyVars
<1>16. CASE RespondFails
  <2>1. main' \in Mains /\ main'.pc \notin {"ingest", "stage"}
    BY <1>16, WaitRecords DEF RespondFails
  <2>2. outputs' \in OutputTable
    BY <1>16, OutputRecords DEF RespondFails, CancelOutput
  <2>. QED
    BY <1>16, <2>1, <2>2 DEF RespondFails, historyVars
<1>17. CASE Finalize \/ FinalizeSpeaking \/ FinalizeActive
  <2>1. main' \in Mains /\ main'.pc \notin {"ingest", "stage"}
    BY <1>17, MainRecords DEF Finalize, FinalizeSpeaking, FinalizeActive, MainPCs
  <2>. QED
    BY <1>17, <2>1 DEF Finalize, FinalizeSpeaking, FinalizeActive, historyVars
<1>18. CASE End
  <2>1. main' \in Mains /\ main'.pc \notin {"ingest", "stage"}
    BY <1>18, MainRecords DEF End, MainPCs
  <2>. QED
    BY <1>18, <2>1 DEF End
<1>19. CASE Reset
  <2>1. main' \in Mains /\ main'.pc \notin {"ingest", "stage"}
    BY <1>19, MainRecords DEF Reset
  <2>. QED
    BY <1>19, <2>1 DEF Reset, historyVars
<1>20. CASE CancelAll
  BY <1>20, OutputRecords DEF CancelAll, historyVars
<1>21. CASE Disconnect
  <2>1. main' \in Mains /\ main'.pc = "closed"
    BY <1>21, TextRecords DEF Disconnect
  <2>. QED
    BY <1>21, <2>1 DEF Disconnect, historyVars
<1>. QED
  BY <1>1, <1>2, <1>3, <1>4, <1>5, <1>6, <1>7, <1>8, <1>9, <1>10, <1>11, <1>12, <1>13,
     <1>14, <1>15, <1>16, <1>17, <1>18, <1>19, <1>20, <1>21 DEF Handle

(* and a step of an output goroutine.                                       *)
LEMMA OutputTypes ==
    ASSUME TypeInv, NEW o \in Outputs, OutputStep(o)
    PROVE  Local'
<1>0. Local
  BY DEF TypeInv
<1>. USE <1>0 DEF Local
<1>1. CASE \/ OutputCancelled(o) \/ OutputEOF(o) \/ OutputStreamFails(o) \/ OutputAck(o)
           \/ OutputAwait(o) \/ OutputIngested(o)
  <2>1. PICK pc \in OutputPCs : OutputGoto(o, pc)
    BY <1>1 DEF OutputCancelled, OutputEOF, OutputStreamFails, OutputAck, OutputAwait,
                OutputIngested, AfterFailure, OutputPCs
  <2>2. outputs' \in OutputTable
    BY <2>1, OutputGoes
  <2>. QED
    BY <1>1, <2>2 DEF OutputCancelled, OutputEOF, OutputStreamFails, OutputAck, OutputAwait,
                      OutputIngested, historyVars
<1>2. CASE \/ OutputWriteFails(o) \/ OutputCheck(o) \/ OutputDrop(o) \/ OutputIdle(o)
           \/ OutputPreview(o) \/ OutputActive(o) \/ OutputEnd(o) \/ OutputReset(o)
           \/ OutputTidy(o)
  <2>1. PICK pc \in OutputPCs : OutputGoto(o, pc)
    BY <1>2 DEF OutputWriteFails, OutputCheck, OutputDrop, OutputIdle, OutputPreview,
                OutputActive, OutputEnd, OutputReset, OutputTidy, OutputPCs
  <2>2. outputs' \in OutputTable
    BY <2>1, OutputGoes
  <2>3. /\ ack' \in Outputs \cup {NoOutput} /\ pending' \in Seq(SessionIDs)
        /\ ended' \in Nat /\ broken' \in BOOLEAN /\ UNCHANGED <<main, output, lateTurn>>
    <3>1. <<>> \in Seq(SessionIDs)
      OBVIOUS
    <3>2. CASE OutputEnd(o)
      <4>1. UNCHANGED <<main, output, lateTurn, ack, pending>>
        BY <3>2 DEF OutputEnd
      <4>2. ended' \in {ended, ended + 1} /\ broken' \in {broken, TRUE}
        BY <3>2 DEF OutputEnd
      <4>3. ended \in Nat /\ broken \in BOOLEAN
        OBVIOUS
      <4>5. ended' \in Nat
        BY <4>2, <4>3
      <4>6. broken' \in BOOLEAN
        BY <4>2, <4>3, Zenon
      <4>4. ack' \in Outputs \cup {NoOutput} /\ pending' \in Seq(SessionIDs)
        BY <4>1
      <4>. QED
        BY <4>1, <4>4, <4>5, <4>6
    <3>. QED
      BY <1>2, <3>1, <3>2 DEF OutputWriteFails, OutputCheck, OutputDrop, OutputIdle,
         OutputPreview, OutputActive, OutputReset, OutputTidy, historyVars
  <2>. QED
    BY <2>2, <2>3
<1>3. CASE OutputResolve(o)
  <2>1. PICK pc \in OutputPCs, p \in BOOLEAN, q \in BOOLEAN :
          outputs' = [outputs EXCEPT ![o].pc = pc, ![o].keepPreview = p, ![o].keepPending = q]
    BY <1>3 DEF OutputResolve, OutputPCs
  <2>2. [outputs[o] EXCEPT !.pc = pc, !.keepPreview = p, !.keepPending = q] \in OutputRecs
    BY DEF OutputTable, OutputRecs
  <2>3. outputs' = [outputs EXCEPT ![o] =
                      [outputs[o] EXCEPT !.pc = pc, !.keepPreview = p, !.keepPending = q]]
    BY <2>1 DEF OutputTable, OutputRecs
  <2>4. outputs' \in OutputTable
    BY <2>2, <2>3, OutputRecords
  <2>. QED
    BY <1>3, <2>4 DEF OutputResolve, historyVars
<1>4. CASE OutputTake(o)
  <2>0. [outputs[o] EXCEPT !.took = pending, !.pc = "ingest"] \in OutputRecs
    BY DEF OutputTable, OutputRecs, OutputPCs
  <2>1. outputs' \in OutputTable
    <3>1. outputs' = [outputs EXCEPT ![o] = [outputs[o] EXCEPT !.took = pending, !.pc = "ingest"]]
      BY <1>4 DEF OutputTake, OutputTable, OutputRecs
    <3>. QED
      BY <2>0, <3>1, OutputRecords
  <2>. QED
    BY <1>4, <2>1 DEF OutputTake, historyVars
<1>5. CASE OutputIngest(o)
  <2>1. outputs[o].took \in Seq(SessionIDs) /\ outputs[o].took # <<>>
    BY <1>5 DEF OutputIngest, OutputTable, OutputRecs
  <2>2. Tail(outputs[o].took) \in Seq(SessionIDs)
    BY <2>1
  <2>3. [outputs[o] EXCEPT !.took = Tail(outputs[o].took)] \in OutputRecs
    BY <2>2 DEF OutputTable, OutputRecs
  <2>4. PICK r \in OutputRecs : outputs' = [outputs EXCEPT ![o] = r]
    <3>1. CASE session.active
      <4>1. outputs' = [outputs EXCEPT ![o] = [outputs[o] EXCEPT !.took = Tail(outputs[o].took)]]
        BY <1>5, <3>1 DEF OutputIngest
      <4>. QED
        BY <2>3, <4>1
    <3>2. CASE ~ session.active
      <4>1. outputs' = [outputs EXCEPT ![o] = Exiting]
        BY <1>5, <3>2 DEF OutputIngest
      <4>. QED
        BY <4>1, OutputRecords
    <3>. QED
      BY <3>1, <3>2
  <2>5. outputs' \in OutputTable
    BY <2>4, OutputRecords
  <2>. QED
    BY <1>5, <2>5 DEF OutputIngest, historyVars
<1>6. CASE OutputExit(o)
  <2>1. outputs' \in OutputTable
    BY <1>6, OutputRecords DEF OutputExit
  <2>. QED
    BY <1>6, <2>1 DEF OutputExit, ClearOutput, historyVars
<1>7. CASE OutputMeta(o)
  BY <1>7 DEF OutputMeta, historyVars
<1>. QED
  BY <1>1, <1>2, <1>3, <1>4, <1>5, <1>6, <1>7 DEF OutputStep

(* Every step is a call of one of the core's methods, or leaves it alone:   *)
(* a call of a handler,                                                     *)
LEMMA ReceiveCalls ==
    ASSUME TypeInv, Receive \/ Disconnect
    PROVE  [S!Next]_(S!vars)
<1>1. CASE SessionStart
  BY <1>1 DEF SessionStart, S!Next
<1>2. CASE \/ Binary \/ Commit \/ EndpointTick \/ Text \/ ClientEnd \/ ReadTimeout
           \/ BinaryRejected \/ InterruptHint \/ AudioOutCleared \/ Disconnect
  BY <1>2 DEF Binary, Commit, EndpointTick, Text, ClientEnd, ReadTimeout, BinaryRejected,
     EndRequested, InterruptHint, AudioOutCleared, Disconnect, sessionVars, S!vars
<1>. QED
  BY <1>1, <1>2 DEF Receive

(* of the read loop,                                                        *)
LEMMA HandleCalls ==
    ASSUME TypeInv, Handle
    PROVE  [S!Next]_(S!vars)
<1>0. Local
  BY DEF TypeInv
<1>1. CASE BinaryIngest
  <2>1. main.sid \in SessionIDs
    BY <1>0, <1>1 DEF Local, BinaryIngest
  <2>. QED
    BY <1>1, <2>1 DEF BinaryIngest, S!Next
<1>2. CASE \/ BinaryPreview \/ BinaryStage \/ InterruptClear \/ TickPoll
  <2>1. "previewing" \in S!InputStates /\ "active" \in S!InputStates
    BY DEF S!InputStates
  <2>. QED
    BY <1>2, <2>1 DEF BinaryPreview, BinaryStage, InterruptClear, TickPoll, S!Next,
                      sessionVars, S!vars
<1>3. CASE \/ BinaryJudge \/ Interrupt \/ InterruptWait \/ FlushTake \/ FlushNothing
           \/ Committable \/ Spawn \/ RespondTransferred \/ RespondFails \/ CancelAll
  BY <1>3 DEF BinaryJudge, Interrupt, InterruptWait, FlushTake, FlushNothing, Committable,
     Spawn, RespondTransferred, RespondFails, CancelAll, sessionVars, S!vars
<1>4. CASE InterruptLane \/ RespondEarly \/ FinalizeSpeaking
  <2>1. "idle" \in S!OutputStates /\ "speaking" \in S!OutputStates
    BY DEF S!OutputStates
  <2>. QED
    BY <1>4, <2>1 DEF InterruptLane, RespondEarly, FinalizeSpeaking, S!Next
<1>5. CASE FlushIngest
  <2>1. main.took \in Seq(SessionIDs) /\ main.took # <<>>
    BY <1>0, <1>5 DEF Local, Mains, FlushIngest
  <2>2. Head(main.took) \in SessionIDs
    BY <2>1
  <2>. QED
    BY <1>5, <2>2 DEF FlushIngest, S!Next
<1>6. CASE TextAccept \/ CommitTurn \/ Finalize \/ Reset
  BY <1>6 DEF TextAccept, CommitTurn, Finalize, Reset, S!Next
<1>7. CASE FinalizeActive
  BY <1>7 DEF FinalizeActive, S!Next, S!CompatStates
<1>8. CASE End
  BY <1>8 DEF End, S!Next, S!CloseReasons
<1>. QED
  BY <1>1, <1>2, <1>3, <1>4, <1>5, <1>6, <1>7, <1>8 DEF Handle

(* or of an output goroutine.                                               *)
LEMMA OutputCalls ==
    ASSUME TypeInv, NEW o \in Outputs, OutputStep(o)
    PROVE  [S!Next]_(S!vars)
<1>0. Local
  BY DEF TypeInv
<1>1. CASE \/ OutputCancelled(o) \/ OutputEOF(o) \/ OutputStreamFails(o) \/ OutputMeta(o)
           \/ OutputWriteFails(o) \/ OutputAck(o) \/ OutputAwait(o) \/ OutputResolve(o)
           \/ OutputTake(o) \/ OutputIngested(o) \/ OutputExit(o)
  BY <1>1 DEF OutputCancelled, OutputEOF, OutputStreamFails, OutputMeta, OutputWriteFails,
     OutputAck, OutputAwait, OutputResolve, OutputTake, OutputIngested, OutputExit,
     sessionVars, S!vars
<1>2. CASE OutputCheck(o) \/ OutputDrop(o) \/ OutputPreview(o) \/ OutputTidy(o)
  <2>1. "previewing" \in S!InputStates /\ "active" \in S!InputStates
    BY DEF S!InputStates
  <2>. QED
    BY <1>2, <2>1 DEF OutputCheck, OutputDrop, OutputPreview, OutputTidy, S!Next,
                      sessionVars, S!vars
<1>3. CASE OutputIdle(o)
  BY <1>3 DEF OutputIdle, S!Next, S!OutputStates
<1>4. CASE OutputIngest(o)
  <2>1. outputs[o].took \in Seq(SessionIDs) /\ outputs[o].took # <<>>
    BY <1>0, <1>4 DEF Local, OutputTable, OutputRecs, OutputIngest
  <2>2. Head(outputs[o].took) \in SessionIDs
    BY <2>1
  <2>. QED
    BY <1>4, <2>2 DEF OutputIngest, S!Next
<1>5. CASE OutputActive(o)
  BY <1>5 DEF OutputActive, S!Next, S!CompatStates
<1>6. CASE OutputEnd(o)
  BY <1>6 DEF OutputEnd, S!Next, S!CloseReasons
<1>7. CASE OutputReset(o)
  BY <1>7 DEF OutputReset, S!Next
<1>. QED
  BY <1>1, <1>2, <1>3, <1>4, <1>5, <1>6, <1>7 DEF OutputStep

(* The types hold at the start,                                             *)
LEMMA InitTypes == Init => TypeInv
<1>. SUFFICES ASSUME Init PROVE TypeInv
  OBVIOUS
<1>1. Core!IInv
  BY CoreInit DEF Init
<1>2. <<>> \in Seq(SessionIDs) /\ NoOutput \in Outputs \cup {NoOutput}
  OBVIOUS
<1>3. outputs \in OutputTable
  <2>1. NoOutputRec \in OutputRecs
    BY <1>2 DEF NoOutputRec, OutputRecs, OutputPCs
  <2>. QED
    BY <2>1 DEF Init, OutputTable
<1>4. main \in Mains /\ main.pc = "loop"
  BY AtLoopRecord DEF Init
<1>. QED
  BY <1>1, <1>2, <1>3, <1>4 DEF Init, TypeInv, Local

(* every step calls the core as it may be called,                           *)
LEMMA SessionStep == TypeInv /\ [Next]_vars => [S!Next]_(S!vars)
<1>1. ASSUME TypeInv, Next PROVE [S!Next]_(S!vars)
  BY <1>1, ReceiveCalls, HandleCalls, OutputCalls DEF Next
<1>2. ASSUME UNCHANGED vars PROVE [S!Next]_(S!vars)
  BY <1>2 DEF vars, sessionVars, S!vars
<1>. QED
  BY <1>1, <1>2

(* and they hold after every step.                                          *)
LEMMA NextTypes == TypeInv /\ [Next]_vars => TypeInv'
<1>1. ASSUME TypeInv, [Next]_vars PROVE Core!IInv'
  <2>1. [S!Next]_(S!vars) /\ Core!IInv
    BY <1>1, SessionStep DEF TypeInv
  <2>. QED
    BY <2>1, CoreNext
<1>2. ASSUME TypeInv, Next PROVE Local'
  BY <1>2, ReceiveTypes, HandleTypes, OutputTypes DEF Next
<1>3. ASSUME TypeInv, UNCHANGED vars PROVE Local'
  BY <1>3 DEF TypeInv, Local, vars, historyVars
<1>. QED
  BY <1>1, <1>2, <1>3 DEF TypeInv

(* Whatever the interleaving of the read loop and the output goroutines,    *)
(* every piece of the connection's state stays one of its type: no counter  *)
(* or lane leaves its range and no frame of the empty session is staged.    *)
THEOREM GatewayTypeOK == Spec => []TypeOK
<1>1. TypeInv => TypeOK
  BY SessionTyped DEF TypeInv, Local, TypeOK, OutputTable
<1>. QED
  BY <1>1, InitTypes, NextTypes, PTL DEF Spec

(* The connection's two kinds of goroutine use the session core as its      *)
(* specification says, one method at a time, so what RealtimeSessionProofs  *)
(* shows of the core holds of the session of every connection.              *)
THEOREM GatewayUsesCore == Spec => S!Spec
<1>1. Init => S!Init
  BY DEF Init
<1>. QED
  BY <1>1, InitTypes, NextTypes, SessionStep, PTL DEF Spec, S!Spec

-----------------------------------------------------------------------------
(* What the read loop sees of the session, and what the methods do to it *)

(* The compatibility state shows the output lane; only an active session    *)
(* speaks or closes.                                                        *)
LEMMA StateShows ==
    ASSUME TypeInv
    PROVE  /\ session.active = FALSE => session.output = "idle"
           /\ State = "speaking" <=> session.output = "speaking"
           /\ State = "closing" <=> session.output = "closing"
           /\ State = "active" => session.output = "idle"
<1>1. /\ session.active <=> session.id # NoID
      /\ ~ session.active => session = Core!idleSnapshot
      /\ session.output \in {"idle", "thinking", "speaking", "closing"}
      /\ session.active \in BOOLEAN
  BY DEF TypeInv, Core!IInv, Core!TypeOK, Core!Sessions, Core!OutputStates,
         Core!NothingSurvivesReset
<1>2. ~ session.active => session.output = "idle"
  <2>1. Core!idleSnapshot.output = "idle"
    BY DEF Core!idleSnapshot
  <2>. QED
    BY <1>1, <2>1
<1>3. State = IF session.id = NoID THEN "idle"
              ELSE IF session.output = "idle" THEN "active" ELSE session.output
  BY DEF State, S!SnapshotOf, S!deriveCompatState
<1>. QED
  BY <1>1, <1>2, <1>3

\* A step that leaves the session's life and its output lane alone.
Quiet ==
    /\ session'.active = session.active
    /\ session'.id = session.id
    /\ session'.output = session.output

(* Audio, text and the input lane are quiet.                                *)
LEMMA QuietCalls ==
    ASSUME TypeInv
    PROVE  /\ \A p : S!IngestOwnedAudioFrame(p) => Quiet
           /\ \A st : S!SetInputState(st) => Quiet
           /\ S!AcceptText => Quiet
           /\ S!ClearTurn => Quiet
           /\ UNCHANGED sessionVars => Quiet
<1>1. session \in S!Sessions
  BY SessionTyped
<1>. USE <1>1 DEF Quiet, S!Sessions, S!WithState
<1>2. \A p : S!IngestOwnedAudioFrame(p) => Quiet
  BY DEF S!IngestOwnedAudioFrame, S!IngestOp
<1>3. \A st : S!SetInputState(st) => Quiet
  BY DEF S!SetInputState, S!SetInputStateOp
<1>4. S!AcceptText => Quiet
  BY DEF S!AcceptText, S!AcceptTextOp
<1>5. S!ClearTurn => Quiet
  BY DEF S!ClearTurn, S!ClearTurnOp
<1>6. UNCHANGED sessionVars => Quiet
  BY DEF sessionVars
<1>. QED
  BY <1>2, <1>3, <1>4, <1>5, <1>6

(* The output lane is what it was set to, in the session it was set in.     *)
LEMMA LaneCalls ==
    ASSUME TypeInv
    PROVE  /\ S!SetOutputState("idle") =>
                 /\ session'.active = session.active /\ session'.id = session.id
                 /\ session'.output = "idle"
           /\ S!SetOutputState("speaking") /\ session.active =>
                 /\ session'.active = session.active /\ session'.id = session.id
                 /\ session'.output = "speaking"
           /\ S!SetState("active") =>
                 /\ session'.active = session.active /\ session'.id = session.id
                 /\ session'.output = "idle"
           /\ S!CommitTurn =>
                 /\ session'.active = session.active /\ session'.id = session.id
                 /\ session'.output = "speaking" => session.output = "speaking"
           /\ \A r : S!End(r) =>
                 /\ session'.active = session.active /\ session'.id = session.id
                 /\ session'.output = IF session.active THEN "closing" ELSE "idle"
           /\ S!Reset => session'.output = "idle"
           /\ \A id : S!Start(id) /\ ~ session.active => session'.output = "idle"
<1>1. session \in S!Sessions /\ (session.active = FALSE => session.output = "idle")
  BY SessionTyped, StateShows
<1>2. S!SetOutputState("idle") =>
         /\ session'.active = session.active /\ session'.id = session.id
         /\ session'.output = "idle"
  BY <1>1 DEF S!Sessions, S!WithState, S!SetOutputState, S!SetOutputStateOp,
              S!normalizeOutputState, S!OutputStates
<1>3. S!SetOutputState("speaking") /\ session.active =>
         /\ session'.active = session.active /\ session'.id = session.id
         /\ session'.output = "speaking"
  BY <1>1 DEF S!Sessions, S!WithState, S!SetOutputState, S!SetOutputStateOp,
              S!normalizeOutputState, S!OutputStates
<1>4. S!SetState("active") =>
         /\ session'.active = session.active /\ session'.id = session.id
         /\ session'.output = "idle"
  BY <1>1 DEF S!Sessions, S!WithState, S!SetState, S!SetStateOp, S!applyCompatState,
              S!normalizeOutputState, S!OutputStates
<1>5. S!CommitTurn =>
         /\ session'.active = session.active /\ session'.id = session.id
         /\ session'.output = "speaking" => session.output = "speaking"
  BY <1>1 DEF S!Sessions, S!WithState, S!CommitTurn, S!CommitTurnOp
<1>6. \A r : S!End(r) =>
         /\ session'.active = session.active /\ session'.id = session.id
         /\ session'.output = IF session.active THEN "closing" ELSE "idle"
  BY <1>1 DEF S!Sessions, S!WithState, S!End, S!EndOp
<1>7. S!Reset => session'.output = "idle"
  <2>1. S!idleSnapshot.output = "idle"
    BY DEF S!idleSnapshot
  <2>. QED
    BY <2>1 DEF S!Reset, S!ResetOp
<1>8. \A id : S!Start(id) /\ ~ session.active => session'.output = "idle"
  BY DEF S!Start, S!StartOp, S!WithState, S!idleSnapshot
<1>. QED
  BY <1>2, <1>3, <1>4, <1>5, <1>6, <1>7, <1>8

(* The fields of the records the read loop moves through.                   *)
LEMMA MainFields ==
    ASSUME main \in Mains
    PROVE  /\ \A pc : Goto(pc).sid = main.sid /\ Goto(pc).early = main.early
           /\ \A w, lane : LET m == [main EXCEPT !.pc = "wait", !.waiting = w, !.lane = lane]
                           IN  m.pc = "wait" /\ m.waiting = w /\ m.lane = lane
           /\ \A w : LET m == [main EXCEPT !.pc = "wait", !.waiting = w, !.lane = FALSE,
                                           !.cont = "end"]
                     IN  m.pc = "wait" /\ m.waiting = w /\ m.cont = "end"
           /\ LET m == [main EXCEPT !.pc = "spawn", !.early = TRUE]
              IN  m.pc = "spawn" /\ m.sid = main.sid
           /\ \A o : LET m == [main EXCEPT !.pc = "respond", !.out = o]
                     IN  m.pc = "respond" /\ m.early = main.early
           /\ \A pc : [main EXCEPT !.pc = pc, !.waiting = NoOutput].pc = pc
BY DEF Mains, Goto

(* The fields of the records a message begins with.                         *)
LEMMA LoopFields ==
    /\ \A id, pc, ready :
          [AtLoop EXCEPT !.msg = "binary", !.sid = id, !.pc = pc, !.ready = ready].pc = pc
    /\ \A ready :
          LET m == [AtLoop EXCEPT !.msg = "commit", !.pc = "committable", !.ready = ready]
          IN  m.pc = "committable" /\ m.ready = ready
    /\ \A id, msg : LET m == [AtLoop EXCEPT !.pc = "respond", !.sid = id, !.msg = msg]
                    IN  m.pc = "respond" /\ m.sid = id /\ m.early = FALSE
    /\ \A w, msg, last :
          LET m == [AtLoop EXCEPT !.pc = "wait", !.waiting = w, !.cont = "end", !.msg = msg,
                                  !.last = last]
          IN  m.pc = "wait" /\ m.waiting = w /\ m.cont = "end"
BY DEF AtLoop

-----------------------------------------------------------------------------
(* The invariant *)

\* The output goroutine has not given the session back.
Held(o) == outputs[o].pc \in {"play", "check", "ack", "await", "resolve", "drop", "idle",
                              "active", "end", "reset"}

\* Where the read loop may be meanwhile.
Listening ==
    \/ main.pc \in {"loop", "closed", "ingest", "preview", "stage", "judge", "interrupt",
                    "wait"}
    \/ main.pc = "committable" /\ main.ready = FALSE
    \/ main.pc = "respond" /\ main.early = TRUE

\* What goroutine o may rely on while it holds the session.
Holds(o) ==
    /\ output = o
    /\ Listening
    /\ main.pc = "wait" => main.waiting = o
    /\ outputs[o].cancelled = TRUE => main.pc \in {"wait", "closed"}
    /\ session.active = TRUE /\ session.id # NoID
    /\ outputs[o].pc = "reset" => session.output = "closing"
    /\ outputs[o].pc # "reset" => session.output = "speaking" /\ session.id = outputs[o].sid

Owning == \A o \in Outputs : Held(o) => Holds(o)

\* The read loop has a turn to answer.
TurnOpen ==
    \/ main.pc = "respond" /\ main.early = FALSE
    \/ main.pc \in {"finalized", "return", "spawn"}

Answering ==
    /\ TurnOpen => session.active = TRUE /\ session.id = main.sid /\ session.id # NoID
    /\ main.pc = "spawn" => session.output = "speaking"

\* Somebody will take the session out of speaking.
Backed ==
    /\ session.output = "speaking" /\ broken = FALSE /\ main.pc # "closed" =>
          \/ \E o \in Outputs : Held(o)
          \/ main.pc \in {"spawn", "lane", "end", "wait"}
    /\ main.pc = "wait" /\ session.output = "speaking" => main.lane = TRUE \/ main.cont = "end"

Order == Owning /\ Answering /\ Backed

IInv == TypeInv /\ Order

(* At most one goroutine holds the session, and none does where the read    *)
(* loop is not listening.                                                   *)
LEMMA OneHolder ==
    ASSUME Order
    PROVE  /\ \A o, p \in Outputs : Held(o) /\ Held(p) => o = p
           /\ Listening \/ \A o \in Outputs : ~ Held(o)
           /\ (session.active = TRUE /\ session.output \in {"speaking", "closing"})
              \/ \A o \in Outputs : ~ Held(o)
           /\ output # NoOutput \/ \A o \in Outputs : ~ Held(o)
<1>1. NoOutput \notin Outputs
  BY DEF NoOutput, Outputs
<1>. QED
  BY <1>1 DEF Order, Owning, Holds

-----------------------------------------------------------------------------
(* Steps of the read loop *)

(* The read loop goes on beside the goroutine: it stays where it may be     *)
(* while the session is held, and opens no turn.                            *)
LEMMA MainMoves ==
    ASSUME Order, Quiet, UNCHANGED <<outputs, output, broken>>,
           main.pc \notin {"wait", "closed", "spawn", "lane", "end"},
           main'.pc # "wait",
           Listening' \/ \A o \in Outputs : ~ Held(o),
           ~ TurnOpen'
    PROVE  Order'
<1>1. Owning'
  BY DEF Order, Owning, Held, Holds, Quiet
<1>2. Answering'
  BY DEF Answering, TurnOpen
<1>3. Backed'
  BY DEF Order, Backed, Held, Quiet
<1>. QED
  BY <1>1, <1>2, <1>3 DEF Order

(* Where nobody holds the session, what the read loop does to it is its own.*)
LEMMA MainAlone ==
    ASSUME \A o \in Outputs : ~ Held(o), UNCHANGED outputs, Answering',
           \/ session'.output # "speaking"
           \/ main'.pc \in {"spawn", "lane", "end"}
           \/ broken' # FALSE /\ main'.pc # "wait"
    PROVE  Order'
<1>1. Owning'
  BY DEF Owning, Held
<1>2. Backed'
  BY DEF Backed
<1>. QED
  BY <1>1, <1>2 DEF Order

(* The current output is cancelled, and waited for.                         *)
LEMMA CancelStep ==
    ASSUME TypeInv, Order, CancelOutput(output), UNCHANGED <<session, output, broken>>,
           main'.pc = "wait", main'.waiting = output,
           session.output = "speaking" => main'.lane = TRUE \/ main'.cont = "end"
    PROVE  Order'
<1>0. outputs \in OutputTable /\ NoOutput \notin Outputs
  BY DEF TypeInv, Local, NoOutput, Outputs
<1>1. \A o \in Outputs : outputs'[o].pc = outputs[o].pc /\ outputs'[o].sid = outputs[o].sid
  BY <1>0 DEF CancelOutput, OutputTable, OutputRecs
<1>2. Owning'
  BY <1>1 DEF Order, Owning, Held, Holds, Listening
<1>3. Answering' /\ Backed'
  BY DEF Answering, TurnOpen, Backed
<1>. QED
  BY <1>2, <1>3 DEF Order

(* A message of the client keeps the order.                                 *)
LEMMA ReceiveOrder ==
    ASSUME ~ TurnsCrossEnd, IInv, Receive
    PROVE  Order'
<1>0. TypeInv /\ Order /\ main \in Mains
  BY DEF IInv, TypeInv, Local
<1>. USE <1>0
<1>q. UNCHANGED sessionVars => Quiet
  BY QuietCalls
<1>1. CASE SessionStart
  <2>1. \A o \in Outputs : ~ Held(o)
    BY <1>1, OneHolder DEF SessionStart
  <2>2. session'.output = "idle"
    BY <1>1, LaneCalls DEF SessionStart
  <2>3. Answering'
    BY <1>1 DEF SessionStart, Answering, TurnOpen
  <2>. QED
    BY <1>1, <2>1, <2>2, <2>3, MainAlone DEF SessionStart
<1>2. CASE Binary
  <2>1. PICK id \in SessionIDs, pc \in {"stage", "ingest"}, ready \in BOOLEAN :
          main' = [AtLoop EXCEPT !.msg = "binary", !.sid = id, !.pc = pc, !.ready = ready]
    BY <1>2, SessionTyped DEF Binary
  <2>2. main'.pc \in {"stage", "ingest"}
    BY <2>1, LoopFields
  <2>3. Listening' /\ ~ TurnOpen'
    BY <2>2 DEF Listening, TurnOpen
  <2>. QED
    BY <1>2, <1>q, <2>2, <2>3, MainMoves DEF Binary
<1>3. CASE Commit
  <2>1. PICK ready \in BOOLEAN :
          /\ ready = (State = "active")
          /\ \/ main' = [AtLoop EXCEPT !.msg = "commit", !.pc = "interrupt", !.cont = "flush"]
             \/ main' = [AtLoop EXCEPT !.msg = "commit", !.pc = "committable", !.ready = ready]
    BY <1>3 DEF Commit
  <2>2. main'.pc = "interrupt" \/ (main'.pc = "committable" /\ main'.ready = ready)
    <3>1. /\ [AtLoop EXCEPT !.msg = "commit", !.pc = "interrupt", !.cont = "flush"].pc
               = "interrupt"
          /\ [AtLoop EXCEPT !.msg = "commit", !.pc = "committable", !.ready = ready].pc
               = "committable"
          /\ [AtLoop EXCEPT !.msg = "commit", !.pc = "committable", !.ready = ready].ready
               = ready
      BY DEF AtLoop
    <3>. QED
      BY <2>1, <3>1
  <2>3. ~ TurnOpen'
    BY <2>2 DEF TurnOpen
  <2>4. Listening' \/ \A o \in Outputs : ~ Held(o)
    <3>1. CASE State = "active"
      BY <3>1, StateShows, OneHolder
    <3>2. CASE State # "active"
      BY <2>1, <2>2, <3>2 DEF Listening
    <3>. QED
      BY <3>1, <3>2
  <2>. QED
    BY <1>3, <1>q, <2>2, <2>3, <2>4, MainMoves DEF Commit
<1>4. CASE EndpointTick
  <2>0. (session.bytes > 0) \in BOOLEAN
    OBVIOUS
  <2>1. main'.pc = "poll"
    BY <1>4, <2>0, CommitRecords DEF EndpointTick
  <2>2. \A o \in Outputs : ~ Held(o)
    BY <1>4, StateShows, OneHolder DEF EndpointTick
  <2>3. ~ TurnOpen'
    BY <2>1 DEF TurnOpen
  <2>. QED
    BY <1>4, <1>q, <2>1, <2>2, <2>3, MainMoves DEF EndpointTick
<1>5. CASE Text
  <2>1. \/ State = "speaking" /\ main'.pc = "interrupt"
        \/ State \notin {"speaking", "closing"} /\ main'.pc = "accept"
    BY <1>5, TextRecords DEF Text
  <2>2. ~ TurnOpen'
    BY <2>1 DEF TurnOpen
  <2>3. Listening' \/ \A o \in Outputs : ~ Held(o)
    BY <2>1, StateShows, OneHolder DEF Listening
  <2>. QED
    BY <1>5, <1>q, <2>1, <2>2, <2>3, MainMoves DEF Text
<1>6. ASSUME NEW msg, NEW last, EndRequested(msg, last)
      PROVE  Order'
  <2>1. main'.pc = "wait" /\ main'.waiting = output /\ main'.cont = "end"
    BY <1>6, LoopFields DEF EndRequested
  <2>. QED
    BY <1>6, <2>1, CancelStep DEF EndRequested, sessionVars
<1>7. CASE InterruptHint \/ AudioOutCleared
  <2>1. main'.pc = "interrupt"
    BY <1>7, TextRecords DEF InterruptHint, AudioOutCleared
  <2>2. Listening' /\ ~ TurnOpen'
    BY <2>1 DEF Listening, TurnOpen
  <2>. QED
    BY <1>7, <1>q, <2>1, <2>2, MainMoves DEF InterruptHint, AudioOutCleared
<1>. QED
  BY <1>1, <1>2, <1>3, <1>4, <1>5, <1>6, <1>7
     DEF Receive, ClientEnd, ReadTimeout, BinaryRejected

(* The goroutine an interruption waits for is gone: nobody holds the        *)
(* session when the read loop goes on.                                      *)
LEMMA WaitOrder ==
    ASSUME PromptExit, IInv, InterruptWait
    PROVE  Order'
<1>0. TypeInv /\ Order /\ main \in Mains /\ NoOutput \notin Outputs
  BY DEF IInv, TypeInv, Local, NoOutput, Outputs
<1>1. \A o \in Outputs : ~ Held(o)
  BY <1>0 DEF InterruptWait, StreamDone, Alive, Order, Owning, Holds, Held
<1>2. /\ main'.pc = IF main.lane THEN "lane" ELSE main.cont
      /\ main.cont \in {"loop", "flush", "accept", "end"}
      /\ main.lane \in BOOLEAN
  BY <1>0, MainFields DEF InterruptWait, Mains
<1>3. UNCHANGED <<session, broken, outputs>>
  BY DEF InterruptWait, sessionVars
<1>4. Answering'
  BY <1>2 DEF Answering, TurnOpen
<1>5. session'.output # "speaking" \/ main'.pc \in {"lane", "end"}
  BY <1>0, <1>2, <1>3 DEF Order, Backed, InterruptWait
<1>. QED
  BY <1>1, <1>3, <1>4, <1>5, MainAlone

(* So does every step of the read loop that leaves the session alone,       *)
LEMMA QuietOrder ==
    ASSUME IInv,
           \/ BinaryIngest \/ BinaryPreview \/ BinaryStage \/ BinaryJudge \/ InterruptClear
           \/ FlushTake \/ FlushIngest \/ FlushNothing \/ Committable \/ TickPoll \/ TextAccept
    PROVE  Order'
<1>0. TypeInv /\ Order /\ main \in Mains
  BY DEF IInv, TypeInv, Local
<1>. USE <1>0
<1>1. CASE BinaryIngest \/ BinaryPreview \/ BinaryStage \/ BinaryJudge
  <2>1. main'.pc \in {"loop", "closed", "preview", "judge", "interrupt"}
    <3>1. CASE BinaryIngest \/ BinaryPreview \/ BinaryStage
      BY <3>1, MainRecords DEF BinaryIngest, BinaryPreview, BinaryStage, MainPCs
    <3>2. CASE BinaryJudge
      BY <3>2, MainRecords, PlayRecords DEF BinaryJudge
    <3>. QED
      BY <1>1, <3>1, <3>2
  <2>2. Quiet
    BY <1>1, QuietCalls DEF BinaryIngest, BinaryPreview, BinaryStage, BinaryJudge
  <2>3. Listening' /\ ~ TurnOpen'
    BY <2>1 DEF Listening, TurnOpen
  <2>. QED
    BY <1>1, <2>1, <2>2, <2>3, MainMoves
       DEF BinaryIngest, BinaryPreview, BinaryStage, BinaryJudge
<1>2. CASE \/ InterruptClear \/ FlushTake \/ FlushIngest \/ FlushNothing \/ TickPoll
           \/ TextAccept
  <2>1. main'.pc \in {"loop", "closed", "flush", "accept", "end", "committable", "commit"}
    <3>1. main.cont \in {"loop", "flush", "accept", "end"}
      BY DEF Mains
    <3>2. CASE InterruptClear \/ TickPoll \/ TextAccept
      BY <3>1, <3>2, MainRecords DEF InterruptClear, TickPoll, TextAccept, MainPCs
    <3>3. CASE FlushTake
      <4>1. pending \in Seq(SessionIDs)
        BY DEF TypeInv, Local
      <4>. QED
        BY <3>3, <4>1, FlushRecords DEF FlushTake
    <3>4. CASE FlushIngest
      <4>1. main.took \in Seq(SessionIDs) /\ main.took # <<>> /\ main.pc = "flush"
        BY <3>4 DEF Mains, FlushIngest
      <4>2. Tail(main.took) \in Seq(SessionIDs)
        BY <4>1
      <4>3. PICK ready \in BOOLEAN :
              \/ main' \in {HandlerFails, Back}
              \/ main' = [main EXCEPT !.took = Tail(main.took)]
              \/ main' = [main EXCEPT !.took = <<>>, !.pc = "committable", !.ready = ready]
        BY <3>4 DEF FlushIngest
      <4>. QED
        BY <4>1, <4>2, <4>3, MainRecords, FlushRecords
    <3>5. CASE FlushNothing
      <4>1. PICK t \in Seq(SessionIDs), ready \in BOOLEAN :
              main' = Back \/ main' = [main EXCEPT !.pc = "committable", !.ready = ready]
        <5>1. <<>> \in Seq(SessionIDs)
          OBVIOUS
        <5>. QED
          BY <3>5, <5>1 DEF FlushNothing
      <4>. QED
        BY <4>1, MainRecords, FlushRecords
    <3>. QED
      BY <1>2, <3>2, <3>3, <3>4, <3>5
  <2>2. main.pc \in {"clear", "flush", "poll", "accept"}
    BY <1>2 DEF InterruptClear, FlushTake, FlushIngest, FlushNothing, TickPoll, TextAccept
  <2>3. \A o \in Outputs : ~ Held(o)
    BY <2>2, OneHolder DEF Listening
  <2>4. Quiet
    BY <1>2, QuietCalls
       DEF InterruptClear, FlushTake, FlushIngest, FlushNothing, TickPoll, TextAccept
  <2>5. ~ TurnOpen'
    BY <2>1 DEF TurnOpen
  <2>6. UNCHANGED <<outputs, output, broken>>
    BY <1>2 DEF InterruptClear, FlushTake, FlushIngest, FlushNothing, TickPoll, TextAccept
  <2>. QED
    BY <2>1, <2>2, <2>3, <2>4, <2>5, <2>6, MainMoves
<1>3. CASE Committable
  <2>1. main.pc = "committable" /\ main' = IF main.ready THEN Goto("commit") ELSE Back
    BY <1>3 DEF Committable, MayCommit
  <2>2. main'.pc \in {"commit", "loop", "closed"} /\ (~ main.ready => main'.pc # "commit")
    BY <2>1, MainRecords DEF MainPCs
  <2>3. Listening' \/ \A o \in Outputs : ~ Held(o)
    BY <2>1, <2>2, OneHolder DEF Listening
  <2>4. ~ TurnOpen'
    BY <2>2 DEF TurnOpen
  <2>5. Quiet
    BY <1>3, QuietCalls DEF Committable
  <2>. QED
    BY <1>3, <2>1, <2>2, <2>3, <2>4, <2>5, MainMoves DEF Committable
<1>. QED
  BY <1>1, <1>2, <1>3

(* every one that opens, answers or closes a turn or the session,           *)
LEMMA TurnOrder ==
    ASSUME IInv,
           \/ InterruptLane \/ CommitTurn \/ RespondEarly \/ Finalize \/ FinalizeSpeaking
           \/ FinalizeActive \/ End \/ Reset
    PROVE  Order'
<1>0. TypeInv /\ Order /\ main \in Mains
  BY DEF IInv, TypeInv, Local
<1>. USE <1>0
<1>1. /\ main.pc \in {"lane", "commit", "respond", "finalized", "return", "end", "reset"}
      /\ main.pc = "respond" => main.early = FALSE
  BY DEF InterruptLane, CommitTurn, RespondEarly, Finalize, FinalizeSpeaking,
         FinalizeActive, End, Reset, Mains
<1>2. \A o \in Outputs : ~ Held(o)
  BY <1>1, OneHolder DEF Listening
<1>3. UNCHANGED <<outputs, broken>>
  BY DEF InterruptLane, CommitTurn, RespondEarly, Finalize, FinalizeSpeaking,
         FinalizeActive, End, Reset
<1>4. session.output = "speaking" /\ main.pc \in {"commit", "respond"} => broken # FALSE
  BY <1>2 DEF Order, Backed
<1>5. CASE InterruptLane
  <2>1. session'.output = "idle"
    BY <1>5, LaneCalls DEF InterruptLane
  <2>2. main'.pc \in {"loop", "closed", "clear", "flush", "accept", "end"}
    <3>1. main.cont \in {"loop", "flush", "accept", "end"}
      BY DEF Mains
    <3>2. main' \in {HandlerFails, Goto("clear"), Goto(main.cont)}
      BY <1>5 DEF InterruptLane
    <3>. QED
      BY <3>1, <3>2, MainRecords DEF MainPCs
  <2>3. Answering'
    BY <2>2 DEF Answering, TurnOpen
  <2>. QED
    BY <1>2, <1>3, <2>1, <2>3, MainAlone
<1>6. CASE CommitTurn
  <2>1. /\ session'.active = session.active /\ session'.id = session.id
        /\ session'.output = "speaking" => session.output = "speaking"
    BY <1>6, LaneCalls DEF CommitTurn
  <2>2. \/ main'.pc \in {"loop", "closed"}
        \/ session.active /\ main'.pc = "respond" /\ main'.sid = session.id
    <3>1. CASE ~ session.active
      BY <1>6, <3>1, MainRecords DEF CommitTurn
    <3>2. CASE session.active
      <4>1. PICK msg : main' = [AtLoop EXCEPT !.pc = "respond", !.sid = session.id, !.msg = msg]
        BY <1>6, <3>2 DEF CommitTurn
      <4>. QED
        BY <3>2, <4>1, LoopFields
    <3>. QED
      BY <3>1, <3>2
  <2>3. Answering'
    BY <2>1, <2>2, SessionTyped DEF Answering, TurnOpen
  <2>4. main.pc = "commit"
    BY <1>6 DEF CommitTurn
  <2>. QED
    BY <1>2, <1>3, <1>4, <2>1, <2>2, <2>3, <2>4, MainAlone
<1>7. CASE RespondEarly
  <2>1. session.active = TRUE /\ session.id = main.sid /\ session.id # NoID
    BY <1>1, <1>7 DEF RespondEarly, Order, Answering, TurnOpen
  <2>2. /\ session'.active = session.active /\ session'.id = session.id
        /\ session'.output = "speaking"
    BY <1>7, <2>1, LaneCalls DEF RespondEarly
  <2>3. main'.pc = "spawn" /\ main'.sid = main.sid
    BY <1>7, <2>1, MainFields DEF RespondEarly
  <2>4. Answering'
    BY <2>1, <2>2, <2>3 DEF Answering
  <2>. QED
    BY <1>2, <1>3, <2>3, <2>4, MainAlone
<1>8. CASE Finalize
  <2>1. PICK pc \in {"finalized", "return", "end"} : main' = Goto(pc)
    BY <1>8 DEF Finalize
  <2>2. main'.pc = pc /\ main'.sid = main.sid
    BY <2>1, MainRecords, MainFields DEF MainPCs
  <2>3. Quiet
    BY <1>8, QuietCalls DEF Finalize
  <2>4. main.pc = "respond"
    BY <1>8 DEF Finalize
  <2>5. session.active = TRUE /\ session.id = main.sid /\ session.id # NoID
    BY <1>1, <2>4 DEF Order, Answering, TurnOpen
  <2>6. Answering'
    BY <2>2, <2>3, <2>5 DEF Answering, TurnOpen, Quiet
  <2>. QED
    BY <1>2, <1>3, <1>4, <2>2, <2>3, <2>4, <2>6, MainAlone DEF Quiet
<1>9. CASE FinalizeSpeaking
  <2>1. session.active = TRUE /\ session.id = main.sid /\ session.id # NoID
    BY <1>9 DEF FinalizeSpeaking, Order, Answering, TurnOpen
  <2>2. /\ session'.active = session.active /\ session'.id = session.id
        /\ session'.output = "speaking"
    BY <1>9, <2>1, LaneCalls DEF FinalizeSpeaking
  <2>3. main'.pc = "spawn" /\ main'.sid = main.sid
    BY <1>9, <2>1, MainRecords, MainFields DEF FinalizeSpeaking, MainPCs
  <2>4. Answering'
    BY <2>1, <2>2, <2>3 DEF Answering
  <2>. QED
    BY <1>2, <1>3, <2>3, <2>4, MainAlone
<1>10. CASE FinalizeActive \/ End \/ Reset
  <2>1. session'.output # "speaking"
    BY <1>10, LaneCalls DEF FinalizeActive, End, Reset
  <2>2. main'.pc \in {"loop", "closed", "reset"}
    BY <1>10, MainRecords DEF FinalizeActive, End, Reset, MainPCs
  <2>3. Answering'
    BY <2>2 DEF Answering, TurnOpen
  <2>. QED
    BY <1>2, <1>3, <2>1, <2>3, MainAlone
<1>. QED
  BY <1>5, <1>6, <1>7, <1>8, <1>9, <1>10

(* and every one that starts, settles or cancels a playback.                *)
LEMMA PlayOrder ==
    ASSUME IInv,
           Interrupt \/ Spawn \/ RespondTransferred \/ RespondFails \/ CancelAll \/ Disconnect
    PROVE  Order'
<1>0. /\ TypeInv /\ Order /\ main \in Mains /\ outputs \in OutputTable
      /\ NoOutput \notin Outputs
  BY DEF IInv, TypeInv, Local, NoOutput, Outputs
<1>. USE <1>0
<1>1. CASE Interrupt /\ State # "speaking" /\ output = NoOutput
  <2>1. \A o \in Outputs : ~ Held(o)
    BY <1>1, OneHolder
  <2>2. session'.output # "speaking"
    BY <1>1, StateShows DEF Interrupt, sessionVars
  <2>3. main'.pc \in {"loop", "flush", "accept", "end"}
    BY <1>1, MainRecords DEF Interrupt, Mains
  <2>4. Answering'
    BY <2>3 DEF Answering, TurnOpen
  <2>5. UNCHANGED outputs
    BY <1>1 DEF Interrupt
  <2>. QED
    BY <2>1, <2>2, <2>4, <2>5, MainAlone
<1>2. CASE Interrupt /\ ~ (State # "speaking" /\ output = NoOutput)
  <2>1. PICK lane \in BOOLEAN :
          /\ lane = (State = "speaking")
          /\ main' = [main EXCEPT !.pc = "wait", !.waiting = output, !.lane = lane]
    BY <1>2 DEF Interrupt
  <2>2. main'.pc = "wait" /\ main'.waiting = output /\ main'.lane = lane
    BY <2>1, MainFields
  <2>3. session.output = "speaking" => main'.lane = TRUE
    BY <2>1, <2>2, StateShows
  <2>4. CancelOutput(output) /\ UNCHANGED <<session, output, broken>>
    BY <1>2 DEF Interrupt, sessionVars
  <2>. QED
    BY <2>2, <2>3, <2>4, CancelStep
<1>3. CASE Spawn
  <2>1. PICK o \in Outputs, outcome \in {"open", "return", "end"} :
          /\ outputs' = [outputs EXCEPT ![o] = [NoOutputRec EXCEPT
                            !.pc = "play", !.sid = main.sid, !.outcome = outcome]]
          /\ output' = o
          /\ main' = IF main.early THEN [main EXCEPT !.pc = "respond", !.out = o] ELSE Back
    BY <1>3 DEF Spawn
  <2>2. /\ main.pc = "spawn" /\ UNCHANGED <<session, broken>>
        /\ session.active = TRUE /\ session.id = main.sid /\ session.id # NoID
        /\ session.output = "speaking"
    BY <1>3 DEF Spawn, sessionVars, Order, Answering, TurnOpen
  <2>3. \A p \in Outputs : ~ Held(p)
    BY <2>2, OneHolder DEF Listening
  <2>4. /\ outputs'[o].pc = "play" /\ outputs'[o].sid = main.sid
        /\ outputs'[o].cancelled = FALSE
        /\ \A p \in Outputs \ {o} : outputs'[p] = outputs[p]
    BY <2>1 DEF OutputTable, NoOutputRec
  <2>5. main'.pc \in {"loop", "closed"} \/ (main'.pc = "respond" /\ main'.early = TRUE)
    <3>1. CASE main.early
      <4>1. main.early = TRUE
        BY <3>1 DEF Mains
      <4>. QED
        BY <2>1, <4>1, MainFields
    <3>2. CASE ~ main.early
      BY <2>1, <3>2, MainRecords
    <3>. QED
      BY <3>1, <3>2
  <2>6. Owning'
    <3>1. Holds(o)'
      BY <2>1, <2>2, <2>4, <2>5 DEF Holds, Listening
    <3>2. \A p \in Outputs \ {o} : ~ Held(p)'
      BY <2>3, <2>4 DEF Held
    <3>. QED
      BY <3>1, <3>2 DEF Owning
  <2>7. Answering'
    BY <2>5 DEF Answering, TurnOpen
  <2>8. Backed'
    BY <2>4, <2>5 DEF Backed, Held
  <2>. QED
    BY <2>6, <2>7, <2>8 DEF Order
<1>4. CASE RespondTransferred
  <2>1. PICK c \in Outcomes :
          outputs' = [outputs EXCEPT ![main.out].outcome = IF Alive(main.out) THEN c ELSE @]
    BY <1>4 DEF RespondTransferred
  <2>2. \A o \in Outputs : /\ outputs'[o].pc = outputs[o].pc
                           /\ outputs'[o].sid = outputs[o].sid
                           /\ outputs'[o].cancelled = outputs[o].cancelled
    BY <2>1 DEF OutputTable, OutputRecs
  <2>3. main.pc = "respond" /\ main'.pc \in {"loop", "closed"}
    BY <1>4, MainRecords DEF RespondTransferred
  <2>4. UNCHANGED <<session, output, broken>>
    BY <1>4 DEF RespondTransferred, sessionVars
  <2>5. Owning'
    BY <2>2, <2>3, <2>4 DEF Order, Owning, Held, Holds, Listening
  <2>6. Answering'
    BY <2>3 DEF Answering, TurnOpen
  <2>7. Backed'
    BY <2>2, <2>3, <2>4 DEF Order, Backed, Held
  <2>. QED
    BY <2>5, <2>6, <2>7 DEF Order
<1>5. CASE RespondFails
  <2>1. main'.pc = "wait" /\ main'.waiting = output /\ main'.cont = "end"
    BY <1>5, MainFields DEF RespondFails
  <2>2. CancelOutput(output) /\ UNCHANGED <<session, output, broken>>
    BY <1>5 DEF RespondFails, sessionVars
  <2>. QED
    BY <2>1, <2>2, CancelStep
<1>6. CASE CancelAll
  <2>1. main.pc = "closed" /\ UNCHANGED <<session, main, output, broken>>
    BY <1>6 DEF CancelAll, sessionVars
  <2>2. \A o \in Outputs : outputs'[o].pc = outputs[o].pc /\ outputs'[o].sid = outputs[o].sid
    BY <1>6 DEF CancelAll, OutputTable, OutputRecs
  <2>3. Owning'
    BY <2>1, <2>2 DEF Order, Owning, Held, Holds, Listening
  <2>4. Answering' /\ Backed'
    BY <2>1 DEF Answering, TurnOpen, Backed
  <2>. QED
    BY <2>3, <2>4 DEF Order
<1>7. CASE Disconnect
  <2>1. main.pc = "loop" /\ main'.pc = "closed"
    BY <1>7, TextRecords DEF Disconnect
  <2>2. Quiet
    BY <1>7, QuietCalls DEF Disconnect
  <2>3. Listening' /\ ~ TurnOpen'
    BY <2>1 DEF Listening, TurnOpen
  <2>. QED
    BY <1>7, <2>1, <2>2, <2>3, MainMoves DEF Disconnect
<1>. QED
  BY <1>1, <1>2, <1>3, <1>4, <1>5, <1>6, <1>7

-----------------------------------------------------------------------------
(* Steps of the output goroutines *)

(* What a goroutine's step leaves in its record.                            *)
LEMMA GotoFields ==
    ASSUME outputs \in OutputTable, NEW o \in Outputs, NEW pc \in OutputPCs, OutputGoto(o, pc)
    PROVE  /\ outputs'[o].pc = pc
           /\ pc # "exit" => /\ outputs'[o].cancelled = outputs[o].cancelled
                             /\ outputs'[o].sid = outputs[o].sid
           /\ \A p \in Outputs \ {o} : outputs'[p] = outputs[p]
<1>1. CASE pc = "exit"
  <2>1. outputs' = [outputs EXCEPT ![o] = Exiting] /\ Exiting.pc = "exit"
    BY <1>1 DEF OutputGoto, Exiting, NoOutputRec
  <2>. QED
    BY <1>1, <2>1 DEF OutputTable
<1>2. CASE pc # "exit"
  <2>1. outputs' = [outputs EXCEPT ![o] = [outputs[o] EXCEPT !.pc = pc]]
    BY <1>2 DEF OutputGoto
  <2>. QED
    BY <2>1 DEF OutputTable, OutputRecs
<1>. QED
  BY <1>1, <1>2

(* A goroutine that does not hold the session goes on beside the others.    *)
LEMMA OutBeside ==
    ASSUME Order, Quiet, UNCHANGED <<main, broken>>, NEW o \in Outputs,
           output' = output \/ output = o,
           ~ Held(o), ~ Held(o)', \A p \in Outputs \ {o} : outputs'[p] = outputs[p]
    PROVE  Order'
<1>1. Owning'
  BY DEF Order, Owning, Held, Holds, Listening, Quiet
<1>2. Answering'
  BY DEF Order, Answering, TurnOpen, Quiet
<1>3. Backed'
  BY DEF Order, Backed, Held, Quiet
<1>. QED
  BY <1>1, <1>2, <1>3 DEF Order

(* The one that holds it keeps it,                                          *)
LEMMA OutGoesOn ==
    ASSUME Order, Quiet, UNCHANGED <<main, output, broken>>, NEW o \in Outputs,
           Held(o), outputs[o].pc # "reset", Held(o)', outputs'[o].pc # "reset",
           outputs'[o].cancelled = outputs[o].cancelled, outputs'[o].sid = outputs[o].sid,
           \A p \in Outputs \ {o} : outputs'[p] = outputs[p]
    PROVE  Order'
<1>1. \A p \in Outputs : Held(p)' => p = o
  BY OneHolder DEF Held
<1>2. Holds(o)'
  BY DEF Order, Owning, Holds, Listening, Quiet
<1>3. Answering'
  BY DEF Order, Answering, TurnOpen, Quiet
<1>4. Backed'
  BY DEF Order, Backed, Quiet
<1>. QED
  BY <1>1, <1>2, <1>3, <1>4 DEF Order, Owning

(* or gives it back: then it speaks no longer, or the read loop knows.      *)
LEMMA OutLeaves ==
    ASSUME Order, UNCHANGED main, NEW o \in Outputs, Held(o), ~ Held(o)',
           \A p \in Outputs \ {o} : outputs'[p] = outputs[p],
           session'.output = "speaking" => session.output = "speaking",
           \/ session'.output # "speaking"
           \/ broken' # FALSE
           \/ main.pc \in {"wait", "closed"}
    PROVE  Order'
<1>1. \A p \in Outputs : ~ Held(p)'
  BY OneHolder DEF Held
<1>2. Listening
  BY DEF Order, Owning, Holds
<1>3. Answering'
  BY <1>2 DEF Answering, TurnOpen, Listening
<1>4. Backed'
  BY DEF Order, Backed
<1>. QED
  BY <1>1, <1>3, <1>4 DEF Order, Owning

(* Every step of an output goroutine keeps the order.                       *)
LEMMA OutputOrder ==
    ASSUME IInv, NEW o \in Outputs, OutputStep(o)
    PROVE  Order'
<1>0. TypeInv /\ Order /\ outputs \in OutputTable
  BY DEF IInv, TypeInv, Local
<1>. USE <1>0
<1>h. ASSUME Held(o)
      PROVE  /\ session.active = TRUE
             /\ outputs[o].pc # "reset" =>
                   session.output = "speaking" /\ State = "speaking" /\ session.id = outputs[o].sid
  BY <1>h, StateShows DEF Order, Owning, Holds
<1>1. CASE OutputCancelled(o)
  <2>0. outputs[o].pc \in {"play", "ack", "await"} /\ outputs[o].cancelled = TRUE
    BY <1>1 DEF OutputCancelled, OutputTable, OutputRecs
  <2>1. UNCHANGED <<session, main, output, broken>>
    BY <1>1 DEF OutputCancelled, sessionVars
  <2>2. Held(o) /\ main.pc \in {"wait", "closed"}
    BY <2>0 DEF Held, Order, Owning, Holds
  <2>3. CASE outputs[o].pc = "ack"
    <3>1. OutputGoto(o, "await") /\ "await" \in OutputPCs
      BY <1>1, <2>3 DEF OutputCancelled, At, OutputPCs
    <3>2. Quiet
      BY <2>1 DEF Quiet
    <3>3. Held(o)'
      BY <3>1, GotoFields DEF Held
    <3>. QED
      BY <2>1, <2>2, <2>3, <3>1, <3>2, <3>3, GotoFields, OutGoesOn
  <2>4. CASE outputs[o].pc # "ack"
    <3>1. OutputGoto(o, "exit") /\ "exit" \in OutputPCs
      BY <1>1, <2>4 DEF OutputCancelled, At, OutputPCs
    <3>2. ~ Held(o)'
      BY <3>1, GotoFields DEF Held
    <3>. QED
      BY <2>1, <2>2, <3>1, <3>2, GotoFields, OutLeaves
  <2>. QED
    BY <2>3, <2>4
<1>2. CASE \/ OutputEOF(o) \/ OutputStreamFails(o) \/ OutputCheck(o) \/ OutputAck(o)
           \/ OutputAwait(o) \/ OutputDrop(o)
  <2>1. Held(o) /\ outputs[o].pc # "reset"
    BY <1>2 DEF OutputEOF, OutputStreamFails, OutputCheck, OutputAck, OutputAwait, OutputDrop,
                At, Held
  <2>2. PICK pc \in {"check", "end", "ack", "await", "resolve", "active"} : OutputGoto(o, pc)
    BY <1>2, <1>h, <2>1
       DEF OutputEOF, OutputStreamFails, OutputCheck, OutputAck, OutputAwait, OutputDrop,
           AfterFailure
  <2>3. Quiet
    BY <1>2, QuietCalls
       DEF OutputEOF, OutputStreamFails, OutputCheck, OutputAck, OutputAwait, OutputDrop
  <2>4. UNCHANGED <<main, output, broken>>
    BY <1>2
       DEF OutputEOF, OutputStreamFails, OutputCheck, OutputAck, OutputAwait, OutputDrop
  <2>5. pc \in OutputPCs
    BY DEF OutputPCs
  <2>6. Held(o)'
    BY <2>2, <2>5, GotoFields DEF Held
  <2>. QED
    BY <2>1, <2>2, <2>3, <2>4, <2>5, <2>6, GotoFields, OutGoesOn
<1>3. CASE OutputResolve(o)
  <2>1. PICK pc \in {"idle", "drop", "active"}, a \in BOOLEAN, b \in BOOLEAN :
          outputs' = [outputs EXCEPT ![o].pc = pc, ![o].keepPreview = a, ![o].keepPending = b]
    BY <1>3 DEF OutputResolve
  <2>2. /\ outputs'[o].pc = pc /\ outputs'[o].cancelled = outputs[o].cancelled
        /\ outputs'[o].sid = outputs[o].sid
        /\ \A p \in Outputs \ {o} : outputs'[p] = outputs[p]
    BY <2>1 DEF OutputTable, OutputRecs
  <2>3. Held(o) /\ outputs[o].pc # "reset" /\ Held(o)' /\ outputs'[o].pc # "reset"
    BY <1>3, <2>2 DEF OutputResolve, At, Held
  <2>4. Quiet /\ UNCHANGED <<main, output, broken>>
    BY <1>3, QuietCalls DEF OutputResolve
  <2>. QED
    BY <2>2, <2>3, <2>4, OutGoesOn
<1>4. CASE OutputMeta(o)
  BY <1>4 DEF OutputMeta, Order, Owning, Answering, Backed, Held, Holds, Listening, TurnOpen,
     sessionVars
<1>5. CASE OutputWriteFails(o) \/ OutputIdle(o) \/ OutputActive(o) \/ OutputReset(o)
  <2>1. Held(o) /\ session.active
    BY <1>5, <1>h DEF OutputWriteFails, OutputIdle, OutputActive, OutputReset, At, Held
  <2>2. PICK pc \in {"exit", "take", "preview", "tidy"} : OutputGoto(o, pc)
    BY <1>5, <2>1 DEF OutputWriteFails, OutputIdle, OutputActive, OutputReset
  <2>3. pc \in OutputPCs
    BY DEF OutputPCs
  <2>4. ~ Held(o)'
    BY <2>2, <2>3, GotoFields DEF Held
  <2>5. session'.output = "idle" \/ (broken' = TRUE /\ UNCHANGED session)
    BY <1>5, LaneCalls DEF OutputWriteFails, OutputIdle, OutputActive, OutputReset, sessionVars
  <2>6. UNCHANGED main
    BY <1>5 DEF OutputWriteFails, OutputIdle, OutputActive, OutputReset
  <2>. QED
    BY <2>1, <2>2, <2>3, <2>4, <2>5, <2>6, GotoFields, OutLeaves
<1>6. CASE OutputEnd(o)
  <2>1. Held(o) /\ session.active = TRUE
    BY <1>6, <1>h DEF OutputEnd, At, Held
  <2>2. /\ session'.active = TRUE /\ session'.id = session.id
        /\ session'.output = "closing" /\ UNCHANGED <<main, output>>
    BY <1>6, <2>1, LaneCalls DEF OutputEnd
  <2>3. PICK pc \in {"reset", "exit"} : OutputGoto(o, pc)
    BY <1>6 DEF OutputEnd
  <2>4. pc \in OutputPCs
    BY DEF OutputPCs
  <2>5. CASE pc = "exit"
    <3>1. ~ Held(o)'
      BY <2>3, <2>4, <2>5, GotoFields DEF Held
    <3>. QED
      BY <2>1, <2>2, <2>3, <2>4, <3>1, GotoFields, OutLeaves
  <2>6. CASE pc = "reset"
    <3>1. /\ outputs'[o].pc = "reset" /\ outputs'[o].cancelled = outputs[o].cancelled
          /\ \A p \in Outputs \ {o} : outputs'[p] = outputs[p]
      BY <2>3, <2>4, <2>6, GotoFields
    <3>2. \A p \in Outputs : Held(p)' => p = o
      BY <2>1, <3>1, OneHolder DEF Held
    <3>3. Holds(o)'
      BY <2>1, <2>2, <3>1 DEF Order, Owning, Holds, Listening
    <3>4. Answering'
      <4>1. Listening
        BY <2>1 DEF Order, Owning, Holds
      <4>. QED
        BY <2>2, <4>1 DEF Answering, TurnOpen, Listening
    <3>5. Backed'
      BY <2>2 DEF Backed
    <3>. QED
      BY <3>2, <3>3, <3>4, <3>5 DEF Order, Owning
  <2>. QED
    BY <2>5, <2>6
<1>7. CASE OutputIngested(o) \/ OutputPreview(o) \/ OutputTidy(o)
  <2>1. ~ Held(o)
    BY <1>7 DEF OutputIngested, OutputPreview, OutputTidy, At, Held
  <2>2. PICK pc \in {"exit", "preview"} : OutputGoto(o, pc)
    BY <1>7 DEF OutputIngested, OutputPreview, OutputTidy
  <2>3. pc \in OutputPCs
    BY DEF OutputPCs
  <2>4. ~ Held(o)'
    BY <2>2, <2>3, GotoFields DEF Held
  <2>5. Quiet /\ UNCHANGED <<main, output, broken>>
    BY <1>7, QuietCalls DEF OutputIngested, OutputPreview, OutputTidy
  <2>. QED
    BY <2>1, <2>2, <2>3, <2>4, <2>5, GotoFields, OutBeside
<1>8. CASE OutputTake(o) \/ OutputIngest(o) \/ OutputExit(o)
  <2>1. ~ Held(o)
    BY <1>8 DEF OutputTake, OutputIngest, OutputExit, At, Held
  <2>2. /\ outputs'[o].pc \in {"ingest", "exit", "none"}
        /\ \A p \in Outputs \ {o} : outputs'[p] = outputs[p]
    <3>1. CASE OutputTake(o)
      BY <3>1 DEF OutputTake, OutputTable, OutputRecs
    <3>2. CASE OutputExit(o)
      BY <3>2 DEF OutputExit, OutputTable, NoOutputRec
    <3>3. CASE OutputIngest(o)
      <4>1. PICK r : /\ outputs' = [outputs EXCEPT ![o] = r]
                     /\ r \in {Exiting, [outputs[o] EXCEPT !.took = Tail(outputs[o].took)]}
        BY <3>3 DEF OutputIngest
      <4>2. Exiting.pc = "exit"
        BY DEF Exiting, NoOutputRec
      <4>3. [outputs[o] EXCEPT !.took = Tail(outputs[o].took)].pc = "ingest"
        BY <3>3 DEF OutputIngest, At, OutputTable, OutputRecs
      <4>. QED
        BY <4>1, <4>2, <4>3 DEF OutputTable
    <3>. QED
      BY <1>8, <3>1, <3>2, <3>3
  <2>3. ~ Held(o)'
    BY <2>2 DEF Held
  <2>4. Quiet /\ UNCHANGED <<main, broken>> /\ (output' = output \/ output = o)
    BY <1>8, QuietCalls DEF OutputTake, OutputIngest, OutputExit, ClearOutput
  <2>. QED
    BY <2>1, <2>2, <2>3, <2>4, OutBeside
<1>. QED
  BY <1>1, <1>2, <1>3, <1>4, <1>5, <1>6, <1>7, <1>8 DEF OutputStep

-----------------------------------------------------------------------------
(* The theorems *)

(* At the start nobody holds a session.                                     *)
LEMMA InitOrder == Init => Order
<1>. SUFFICES ASSUME Init PROVE Order
  OBVIOUS
<1>1. \A o \in Outputs : ~ Held(o)
  BY DEF Init, Held, NoOutputRec
<1>2. main.pc = "loop"
  BY DEF Init, AtLoop
<1>3. session.output = "idle"
  BY DEF Init, S!Init, S!idleSnapshot
<1>. QED
  BY <1>1, <1>2, <1>3 DEF Order, Owning, Answering, TurnOpen, Backed

(* Every step keeps it.                                                     *)
LEMMA NextOrder ==
    ASSUME PromptExit, ~ TurnsCrossEnd
    PROVE  IInv /\ [Next]_vars => IInv'
<1>1. ASSUME IInv, Next PROVE Order'
  BY <1>1, ReceiveOrder, WaitOrder, QuietOrder, TurnOrder, PlayOrder, OutputOrder
     DEF Next, Handle
<1>2. ASSUME IInv, UNCHANGED vars PROVE Order'
  BY <1>2 DEF IInv, Order, Owning, Answering, Backed, Held, Holds, Listening, TurnOpen, vars,
     sessionVars
<1>. QED
  BY <1>1, <1>2, NextTypes DEF IInv

(* One goroutine at a time has custody of the session: the invariant that   *)
(* the four theorems below read off.                                        *)
THEOREM GatewayOrder ==
    ASSUME PromptExit, ~ TurnsCrossEnd
    PROVE  Spec => []IInv
<1>1. Init => IInv
  BY InitTypes, InitOrder DEF IInv
<1>2. IInv /\ [Next]_vars => IInv'
  BY NextOrder
<1>. QED
  BY <1>1, <1>2, PTL DEF Spec

(* An interruption (barge-in, text, session.update, audio.out.cleared, end) *)
(* reaches every playback that is still to be stopped: a playback that      *)
(* nobody cancelled is the one that runtime.output names.                   *)
THEOREM GatewayInterruptReaches ==
    ASSUME PromptExit, ~ TurnsCrossEnd
    PROVE  Spec => []InterruptReaches
<1>1. IInv => InterruptReaches
  BY DEF IInv, Order, Owning, Holds, Held, InterruptReaches
<1>2. Spec => []IInv
  BY GatewayOrder
<1>. QED
  BY <1>1, <1>2, PTL

(* The output goroutine that brings the session back to active after its    *)
(* playback (startAudioStream) finds it speaking, in its own session, and   *)
(* never overrides the state of a later turn.                               *)
THEOREM GatewayReturnIsTimely ==
    ASSUME PromptExit, ~ TurnsCrossEnd
    PROVE  Spec => []ReturnIsTimely
<1>1. IInv => ReturnIsTimely
  BY StateShows DEF IInv, Order, Owning, Holds, Held, ReturnIsTimely
<1>2. Spec => []IInv
  BY GatewayOrder
<1>. QED
  BY <1>1, <1>2, PTL

(* While the response to a turn is prepared (emitTurnResponse, before its   *)
(* own audio starts) no earlier playback goes on uncancelled.               *)
THEOREM GatewayOneVoice ==
    ASSUME PromptExit, ~ TurnsCrossEnd
    PROVE  Spec => []OneVoice
<1>1. IInv => OneVoice
  BY DEF IInv, Order, Owning, Holds, Held, Listening, OneVoice
<1>2. Spec => []IInv
  BY GatewayOrder
<1>. QED
  BY <1>1, <1>2, PTL

(* A session that says speaking on a sound connection has somebody to take  *)
(* it out of speaking: an output goroutine of that session, or the read     *)
(* loop on its way; so commits are not refused for ever.                    *)
THEOREM GatewaySpeakingIsBacked ==
    ASSUME PromptExit, ~ TurnsCrossEnd
    PROVE  Spec => []SpeakingIsBacked
<1>1. ASSUME IInv PROVE SpeakingIsBacked
  <2>1. TypeInv /\ broken \in BOOLEAN
    BY <1>1 DEF IInv, TypeInv, Local
  <2>. SUFFICES ASSUME State = "speaking", ~ broken, main.pc # "closed",
                       main.pc \notin {"spawn", "wait", "lane", "end"}
                PROVE  \E o \in Outputs : Alive(o) /\ outputs[o].sid = session.id
    BY DEF SpeakingIsBacked
  <2>2. broken = FALSE /\ session.output = "speaking"
    BY <2>1, StateShows
  <2>3. PICK o \in Outputs : Held(o)
    BY <1>1, <2>2 DEF IInv, Order, Backed
  <2>4. Alive(o) /\ outputs[o].sid = session.id
    BY <1>1, <2>2, <2>3 DEF IInv, Order, Owning, Holds, Held, Alive
  <2>. QED
    BY <2>4
<1>2. Spec => []IInv
  BY GatewayOrder
<1>. QED
  BY <1>1, <1>2, PTL
=============================================================================
