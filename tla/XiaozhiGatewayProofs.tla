-------------------------- MODULE XiaozhiGatewayProofs --------------------------
(***************************************************************************)
(* The xiaozhi adapter, for every set of payload lengths, any number of    *)
(* frames, turns and output goroutines.                                    *)
(*                                                                         *)
(* The adapter calls nothing but the session core's methods, so what       *)
(* module RealtimeSessionProofs shows of the core holds for the adapter's  *)
(* session, its types among it (TypeInv).                                  *)
(*                                                                         *)
(* What the device is promised rests on PromptExit: a goroutine that plays *)
(* is the current output, the session says speaking all the while, and the *)
(* read loop is at its channel, closed, or waiting for that goroutine      *)
(* (Playing).  So nobody else moves the session under a playing goroutine, *)
(* and two of them never play at once.                                     *)
(***************************************************************************)
EXTENDS XiaozhiGateway, TLAPS

\* The session core, with its proofs.
Core == INSTANCE RealtimeSessionProofs WITH SessionIDs <- {SessionID}, Frames <- Bodies

-----------------------------------------------------------------------------
(* The session core, as its own proofs know it *)

(* The two instances of the session core are one: its states,              *)
LEMMA SameStates ==
    /\ S!CompatStates = Core!CompatStates /\ S!InputStates = Core!InputStates
    /\ S!OutputStates = Core!OutputStates /\ S!CloseReasons = Core!CloseReasons
    /\ S!Sessions = Core!Sessions
    /\ S!idleSnapshot = Core!idleSnapshot
BY DEF S!Sessions, Core!Sessions, S!CloseReasons, Core!CloseReasons,
       S!CompatStates, Core!CompatStates, S!InputStates, Core!InputStates,
       S!OutputStates, Core!OutputStates, S!idleSnapshot, Core!idleSnapshot

(* its methods,                                                             *)
LEMMA SameNext == S!Next <=> Core!Next
<1>0. \A s : S!WithState(s) = Core!WithState(s)
  BY Zenon DEF S!WithState, Core!WithState, S!deriveCompatState, Core!deriveCompatState
<1>. USE <1>0
<1>1. \A id : S!Start(id) <=> Core!Start(id)
  BY SameStates DEF S!Start, Core!Start, S!StartOp, Core!StartOp
<1>2. \A p : S!IngestOwnedAudioFrame(p) <=> Core!IngestOwnedAudioFrame(p)
  BY DEF S!IngestOwnedAudioFrame, Core!IngestOwnedAudioFrame, S!IngestOp, Core!IngestOp
<1>3. S!AcceptText <=> Core!AcceptText
  BY DEF S!AcceptText, Core!AcceptText, S!AcceptTextOp, Core!AcceptTextOp
<1>4. S!CommitTurn <=> Core!CommitTurn
  BY DEF S!CommitTurn, Core!CommitTurn, S!CommitTurnOp, Core!CommitTurnOp,
         S!CommittedAudio, Core!CommittedAudio
<1>5. \A st : S!SetState(st) <=> Core!SetState(st)
  BY SameStates
     DEF S!SetState, Core!SetState, S!SetStateOp, Core!SetStateOp, S!applyCompatState,
         Core!applyCompatState, S!compatInput, Core!compatInput,
         S!normalizeOutputState, Core!normalizeOutputState
<1>6. \A st : S!SetInputState(st) <=> Core!SetInputState(st)
  BY SameStates
     DEF S!SetInputState, Core!SetInputState, S!SetInputStateOp, Core!SetInputStateOp,
         S!normalizeInputState, Core!normalizeInputState
<1>7. \A st : S!SetOutputState(st) <=> Core!SetOutputState(st)
  BY SameStates
     DEF S!SetOutputState, Core!SetOutputState, S!SetOutputStateOp, Core!SetOutputStateOp,
         S!normalizeOutputState, Core!normalizeOutputState
<1>8. \A r : S!End(r) <=> Core!End(r)
  BY DEF S!End, Core!End, S!EndOp, Core!EndOp
<1>9. S!ClearTurn <=> Core!ClearTurn
  BY DEF S!ClearTurn, Core!ClearTurn, S!ClearTurnOp, Core!ClearTurnOp
<1>10. S!Reset <=> Core!Reset
  BY SameStates DEF S!Reset, Core!Reset, S!ResetOp, Core!ResetOp
<1>. QED
  BY <1>1, <1>2, <1>3, <1>4, <1>5, <1>6, <1>7, <1>8, <1>9, <1>10, SameStates
     DEF S!Next, Core!Next

(* its variables, types and initial states.                                 *)
LEMMA SameSpec ==
    /\ S!Init <=> Core!Init
    /\ S!vars = Core!vars
    /\ S!TypeOK <=> Core!TypeOK
BY SameStates DEF S!Init, Core!Init, S!vars, Core!vars, S!TypeOK, Core!TypeOK

(* A step of the core, under either name.                                   *)
LEMMA CoreStep == [S!Next]_(S!vars) => [Core!Next]_(Core!vars)
BY SameNext DEF S!vars, Core!vars

(* What the core's proofs show of it holds here at the start,               *)
LEMMA CoreInit == S!Init => Core!IInv
BY Core!InitInv, SameSpec, XiaozhiAssumption DEF NoBytes

(* and every method the adapter calls preserves it.                         *)
LEMMA CoreNext == Core!IInv /\ [S!Next]_(S!vars) => Core!IInv'
BY Core!NextInv, CoreStep, XiaozhiAssumption DEF NoBytes

-----------------------------------------------------------------------------
(* Types, and the adapter's use of the session core *)

OutputRecs == [Outputs -> [pc : OutputPCs, cancelled : BOOLEAN, ends : BOOLEAN]]

\* TypeOK without the session.
Local ==
    /\ version \in 1 .. 3
    /\ main \in Mains
    /\ outputs \in OutputRecs
    /\ output \in Outputs \cup {NoOutput} /\ tts \in Outputs \cup {NoOutput}
    /\ audioTurnOpen \in BOOLEAN /\ preview \in BOOLEAN
    /\ stalled \in BOOLEAN /\ stray \in BOOLEAN /\ connected \in BOOLEAN

(* The adapter's types are the core's and its own.                          *)
LEMMA TypeParts ==
    /\ TypeOK <=> S!TypeOK /\ Local
    /\ TypeOK' <=> S!TypeOK' /\ Local'
BY DEF TypeOK, Local, OutputRecs

(* Every record the read loop is left in is one of its states.              *)
LEMMA MainRecords ==
    ASSUME main \in Mains
    PROVE  /\ AtLoop \in Mains /\ Closed \in Mains
           /\ \A pc \in MainPCs : Goto(pc) \in Mains
           /\ \A m \in Mains : Written(m) \in Mains
<1>1. AtLoop \in Mains
  BY DEF Mains, MainPCs, AtLoop, NoOutput
<1>2. ASSUME NEW m \in Mains, NEW pc \in MainPCs PROVE [m EXCEPT !.pc = pc] \in Mains
  BY <1>2 DEF Mains
<1>3. Closed \in Mains
  BY <1>1, <1>2 DEF Closed, MainPCs
<1>. QED
  BY <1>1, <1>2, <1>3 DEF Goto, Written

(* The records a message begins with,                                       *)
LEMMA MessageRecords ==
    /\ \A msg \in {"none", "start", "detect"}, cont \in {"ensure", "loop"} :
         [AtLoop EXCEPT !.msg = msg, !.pc = "interrupt", !.cont = cont] \in Mains
    /\ \A body \in Bodies \cup {NoBytes} :
         [AtLoop EXCEPT !.msg = "binary", !.pc = "interrupt", !.cont = "ensure",
                        !.body = body] \in Mains
    /\ \A ready \in BOOLEAN :
         [AtLoop EXCEPT !.msg = "tick", !.pc = "poll", !.ready = ready] \in Mains
    /\ \A w \in Outputs \cup {NoOutput} :
         [AtLoop EXCEPT !.pc = "wait", !.waiting = w, !.cont = "end", !.msg = "timeout"]
           \in Mains
BY DEF Mains, MainPCs, AtLoop, NoOutput

(* and those of an interruption and a response.                             *)
LEMMA StepRecords ==
    ASSUME main \in Mains
    PROVE  /\ \A w \in Outputs \cup {NoOutput}, lane \in BOOLEAN :
                [main EXCEPT !.pc = "wait", !.waiting = w, !.lane = lane] \in Mains
           /\ \A audio, ends \in BOOLEAN :
                [main EXCEPT !.pc = "finalize", !.audio = audio, !.ends = ends] \in Mains
           /\ main.cont \in {"loop", "ensure", "end"} /\ main.ends \in BOOLEAN
<1>1. ASSUME NEW w \in Outputs \cup {NoOutput}, NEW lane \in BOOLEAN
      PROVE  [main EXCEPT !.pc = "wait", !.waiting = w, !.lane = lane] \in Mains
  BY <1>1 DEF Mains, MainPCs
<1>2. ASSUME NEW audio \in BOOLEAN, NEW ends \in BOOLEAN
      PROVE  [main EXCEPT !.pc = "finalize", !.audio = audio, !.ends = ends] \in Mains
  BY <1>2 DEF Mains, MainPCs
<1>3. main.cont \in {"loop", "ensure", "end"} /\ main.ends \in BOOLEAN
  BY DEF Mains
<1>. QED
  BY <1>1, <1>2, <1>3

(* Every way to set an output goroutine's record leaves it a record.        *)
LEMMA OutputRecords ==
    ASSUME outputs \in OutputRecs
    PROVE  /\ \A o \in Outputs, pc \in OutputPCs : [outputs EXCEPT ![o].pc = pc] \in OutputRecs
           /\ \A o \in Outputs : [outputs EXCEPT ![o].cancelled = TRUE] \in OutputRecs
           /\ \A o \in Outputs, ends \in BOOLEAN :
                [outputs EXCEPT ![o] = [NoOutputRec EXCEPT !.pc = "start", !.ends = ends]]
                  \in OutputRecs
           /\ \A o \in Outputs : [outputs EXCEPT ![o] = NoOutputRec] \in OutputRecs
           /\ [o \in Outputs |-> [outputs[o] EXCEPT !.cancelled = Alive(o)]] \in OutputRecs
           /\ [o \in Outputs |-> NoOutputRec] \in OutputRecs
BY DEF OutputRecs, OutputPCs, NoOutputRec, Alive

(* A frame that passes unwrapXiaozhiBinaryFrame carries a payload that was  *)
(* wrapped, in every version and however its header is damaged.             *)
LEMMA FramesAreWhole ==
    ASSUME NEW v \in 1 .. 3, NEW f \in DeviceFrames(v)
    PROVE  unwrapXiaozhiBinaryFrame(f, v) \in Bodies \cup {BadFrame}
<1>. PICK n \in Bodies : f \in {wrapXiaozhiBinaryFrame(n, v)}
            \cup IF v = 1 THEN {}
                 ELSE {[wrapXiaozhiBinaryFrame(n, v) EXCEPT !.type = 1],
                       [wrapXiaozhiBinaryFrame(n, v) EXCEPT !.size = @ + 1],
                       [wrapXiaozhiBinaryFrame(n, v) EXCEPT !.len = HeaderSize(v) - 1]}
  BY DEF DeviceFrames
<1>1. n \in Nat
  BY XiaozhiAssumption
<1>2. CASE v = 1
  BY <1>1, <1>2 DEF wrapXiaozhiBinaryFrame, unwrapXiaozhiBinaryFrame, HeaderSize
<1>3. CASE v = 2
  BY <1>1, <1>3 DEF wrapXiaozhiBinaryFrame, unwrapXiaozhiBinaryFrame, HeaderSize
<1>4. CASE v = 3
  BY <1>1, <1>4 DEF wrapXiaozhiBinaryFrame, unwrapXiaozhiBinaryFrame, HeaderSize
<1>. QED
  BY <1>2, <1>3, <1>4

(* A message of the device leaves the adapter's own state well typed.       *)
LEMMA MessageTypes ==
    ASSUME Local, Message
    PROVE  Local'
<1>. USE MainRecords DEF Local, sessionVars, deviceVars
<1>1. ASSUME NEW v \in 0 .. 3, handleHello(v) PROVE Local'
  BY <1>1 DEF handleHello, resolveXiaozhiProtocolVersion, normalizeXiaozhiProtocolVersion
<1>2. CASE ListenStart
  BY <1>2, MessageRecords DEF ListenStart, Begin, MainPCs
<1>3. CASE ListenStop
  BY <1>3 DEF ListenStop, MainPCs
<1>4. CASE ListenDetect
  BY <1>4, MessageRecords DEF ListenDetect, Begin, MainPCs
<1>5. CASE handleAbort
  BY <1>5, MessageRecords DEF handleAbort, Begin, MainPCs
<1>6. ASSUME NEW f \in DeviceFrames(version), handleBinary(f) PROVE Local'
  BY <1>6, FramesAreWhole, MessageRecords DEF handleBinary, MainPCs
<1>7. CASE Tick
  <2>1. (session.bytes > 0) \in BOOLEAN
    OBVIOUS
  <2>2. main' \in Mains
    BY <1>7, <2>1, MessageRecords DEF Tick
  <2>. QED
    BY <1>7, <2>2 DEF Tick
<1>8. CASE ReadTimeout
  BY <1>8, MessageRecords, OutputRecords DEF ReadTimeout, CancelOutput, MainPCs
<1>. QED
  BY <1>1, <1>2, <1>3, <1>4, <1>5, <1>6, <1>7, <1>8 DEF Message

(* So does a step of the read loop,                                         *)
LEMMA MainTypes ==
    ASSUME Local, MainStep
    PROVE  Local'
<1>. USE MainRecords DEF Local, sessionVars, deviceVars
<1>1. CASE Interrupt
  BY <1>1, StepRecords, OutputRecords DEF Interrupt, CancelOutput, MainPCs
<1>2. CASE InterruptWait
  BY <1>2 DEF InterruptWait, Mains, MainPCs, NoOutput, Written
<1>3. CASE InterruptLane
  BY <1>3, StepRecords DEF InterruptLane, MainPCs
<1>4. CASE Ensure
  BY <1>4 DEF Ensure, MainPCs
<1>5. CASE Decode
  BY <1>5 DEF Decode, MainPCs
<1>6. CASE Ingest
  BY <1>6 DEF Ingest, MainPCs
<1>7. CASE Push
  BY <1>7 DEF Push, MainPCs
<1>8. CASE Poll
  BY <1>8 DEF Poll, MainPCs
<1>9. CASE Consume
  BY <1>9 DEF Consume, MainPCs
<1>10. CASE Accept
  BY <1>10 DEF Accept, MainPCs
<1>11. CASE CommitTurn
  BY <1>11 DEF CommitTurn, MainPCs
<1>12. CASE RespondFails
  BY <1>12 DEF RespondFails
<1>13. ASSUME NEW audio \in BOOLEAN, NEW ends \in BOOLEAN, Respond(audio, ends) PROVE Local'
  BY <1>13, StepRecords DEF Respond
<1>14. CASE Finalize
  BY <1>14 DEF Finalize, MainPCs
<1>15. CASE Speak
  BY <1>15 DEF Speak, MainPCs
<1>16. CASE EncodeFails
  BY <1>16 DEF EncodeFails, MainPCs
<1>17. CASE Spawn
  BY <1>17, StepRecords, OutputRecords DEF Spawn
<1>18. CASE Return
  BY <1>18 DEF Return
<1>19. CASE Reset
  BY <1>19 DEF Reset
<1>20. CASE End
  BY <1>20 DEF End, MainPCs
<1>21. CASE Disconnect
  BY <1>21 DEF Disconnect
<1>22. CASE CancelAll
  BY <1>22, OutputRecords DEF CancelAll
<1>. QED
  BY <1>1, <1>2, <1>3, <1>4, <1>5, <1>6, <1>7, <1>8, <1>9, <1>10, <1>11, <1>12, <1>13,
     <1>14, <1>15, <1>16, <1>17, <1>18, <1>19, <1>20, <1>21, <1>22 DEF MainStep

(* and a step of an output goroutine.                                       *)
LEMMA OutputTypes ==
    ASSUME Local, NEW o \in Outputs, OutStep(o)
    PROVE  Local'
<1>. USE OutputRecords DEF Local, sessionVars, deviceVars, OutGoto, OutVars
<1>1. CASE OutStart(o)
  BY <1>1 DEF OutStart, OutputPCs
<1>2. CASE OutNext(o)
  BY <1>2 DEF OutNext, OutputPCs
<1>3. CASE OutWrite(o)
  BY <1>3 DEF OutWrite, OutputPCs
<1>4. CASE OutEOF(o)
  BY <1>4 DEF OutEOF, OutputPCs
<1>5. CASE OutFails(o)
  BY <1>5 DEF OutFails, OutputPCs
<1>6. CASE OutCheck(o)
  BY <1>6 DEF OutCheck, OutputPCs
<1>7. CASE OutStop(o)
  BY <1>7 DEF OutStop, OutputPCs
<1>8. CASE OutAwait(o)
  BY <1>8 DEF OutAwait, OutputPCs
<1>9. CASE OutResolve(o)
  BY <1>9 DEF OutResolve, OutputPCs
<1>10. CASE OutActive(o)
  BY <1>10 DEF OutActive, OutputPCs
<1>11. CASE OutEnd(o)
  BY <1>11 DEF OutEnd, OutputPCs
<1>12. CASE OutClose(o)
  BY <1>12 DEF OutClose, OutputPCs
<1>13. CASE OutExit(o)
  BY <1>13 DEF OutExit, OutputPCs
<1>. QED
  BY <1>1, <1>2, <1>3, <1>4, <1>5, <1>6, <1>7, <1>8, <1>9, <1>10, <1>11, <1>12, <1>13 DEF OutStep

(* Every step of the adapter makes one call of the session core's           *)
(* interface, with an argument of its domain, or none.                      *)
LEMMA SessionStep == Local /\ [Next]_vars => [S!Next]_(S!vars)
<1>. SUFFICES ASSUME Local, [Next]_vars PROVE S!Next \/ UNCHANGED S!vars
  OBVIOUS
<1>. USE DEF S!vars, sessionVars
<1>1. CASE Message
  BY <1>1 DEF Message, handleHello, ListenStart, ListenStop, ListenDetect, handleAbort,
              handleBinary, Tick, ReadTimeout, Begin
<1>2. CASE MainStep
  <2>1. main.body \in Bodies \cup {NoBytes}
    BY DEF Local, Mains
  <2>2. /\ \A st : st \in {"active", "previewing"} => st \in S!InputStates
        /\ \A st : st \in {"idle", "speaking"} => st \in S!OutputStates
        /\ "active" \in S!CompatStates
        /\ {"idle_timeout", "max_duration", "error"} \subseteq S!CloseReasons \ {""}
    BY DEF S!InputStates, S!OutputStates, S!CompatStates, S!CloseReasons
  <2>3. CASE Interrupt \/ InterruptWait \/ Decode \/ RespondFails \/ EncodeFails \/ Spawn
             \/ Disconnect \/ CancelAll \/ \E audio, ends \in BOOLEAN : Respond(audio, ends)
    BY <2>3 DEF Interrupt, InterruptWait, Decode, RespondFails, EncodeFails, Spawn,
                Disconnect, CancelAll, Respond
  <2>4. CASE InterruptLane
    BY <2>2, <2>4 DEF InterruptLane, S!Next
  <2>5. CASE Ensure
    BY <2>5 DEF Ensure, S!Next
  <2>6. CASE Ingest
    BY <2>1, <2>6 DEF Ingest, S!Next
  <2>7. CASE Push
    BY <2>2, <2>7 DEF Push, S!Next
  <2>8. CASE Poll
    BY <2>2, <2>8 DEF Poll, S!Next
  <2>9. CASE Consume
    BY <2>2, <2>9 DEF Consume, S!Next
  <2>10. CASE Accept
    BY <2>10 DEF Accept, S!Next
  <2>11. CASE CommitTurn
    BY <2>11 DEF CommitTurn, S!Next
  <2>12. CASE Finalize
    BY <2>12 DEF Finalize, S!Next
  <2>13. CASE Speak
    BY <2>2, <2>13 DEF Speak, S!Next
  <2>14. CASE Return
    BY <2>2, <2>14 DEF Return, S!Next
  <2>15. CASE Reset
    BY <2>15 DEF Reset, S!Next
  <2>16. CASE End
    BY <2>2, <2>16 DEF End, S!Next
  <2>. QED
    BY <1>2, <2>3, <2>4, <2>5, <2>6, <2>7, <2>8, <2>9, <2>10, <2>11, <2>12, <2>13,
       <2>14, <2>15, <2>16 DEF MainStep
<1>3. CASE Break
  BY <1>3 DEF Break
<1>4. ASSUME NEW o \in Outputs, OutStep(o) PROVE S!Next \/ UNCHANGED S!vars
  <2>1. CASE OutActive(o)
    BY <2>1 DEF OutActive, S!Next, S!CompatStates
  <2>2. CASE OutEnd(o)
    BY <2>2 DEF OutEnd, S!Next
  <2>. QED
    BY <1>4, <2>1, <2>2
       DEF OutStep, OutStart, OutNext, OutWrite, OutEOF, OutFails, OutCheck, OutStop,
           OutAwait, OutResolve, OutClose, OutExit
<1>5. CASE UNCHANGED vars
  BY <1>5 DEF vars
<1>. QED
  BY <1>1, <1>2, <1>3, <1>4, <1>5 DEF Next

(* What the core's proofs rest on, and the adapter's own types.             *)
TypeInv == Core!IInv /\ Local

(* The connection begins well typed.                                        *)
LEMMA InitTypes == Init => TypeInv
<1>. SUFFICES ASSUME Init PROVE TypeInv
  OBVIOUS
<1>1. version \in 1 .. 3
  BY DEF Init, normalizeXiaozhiProtocolVersion
<1>2. main \in Mains
  BY DEF Init, Mains, MainPCs, AtLoop, NoOutput
<1>3. outputs \in OutputRecs
  BY DEF Init, OutputRecs, OutputPCs, NoOutputRec
<1>. QED
  BY <1>1, <1>2, <1>3, CoreInit DEF Init, TypeInv, Local

(* Every step keeps it so.                                                  *)
LEMMA NextTypes == TypeInv /\ [Next]_vars => TypeInv'
<1>. SUFFICES ASSUME TypeInv, [Next]_vars PROVE TypeInv'
  OBVIOUS
<1>1. Core!IInv'
  BY SessionStep, CoreNext DEF TypeInv
<1>2. Local'
  <2>1. CASE Break
    BY <2>1 DEF Break, TypeInv, Local, deviceVars
  <2>2. CASE UNCHANGED vars
    BY <2>2 DEF vars, TypeInv, Local, deviceVars
  <2>. QED
    BY <2>1, <2>2, MessageTypes, MainTypes, OutputTypes DEF Next, TypeInv
<1>. QED
  BY <1>1, <1>2 DEF TypeInv

(* The core's invariant and the adapter's types, together.                  *)
THEOREM XiaozhiTypes == Spec => []TypeInv
BY InitTypes, NextTypes, PTL DEF Spec

(* Type correctness of one connection, with any number of output            *)
(* goroutines and whether or not a cancelled one ends in time.              *)
THEOREM XiaozhiTypeOK == Spec => []TypeOK
<1>1. TypeInv => TypeOK
  BY SameSpec, TypeParts DEF TypeInv, Core!IInv
<1>. QED
  BY <1>1, XiaozhiTypes, PTL

(* The adapter implements the session core's interface.                     *)
THEOREM XiaozhiRefinesSession == Spec => SessionSpec
<1>1. Init => S!Init
  BY DEF Init
<1>2. TypeInv /\ [Next]_vars => [S!Next]_(S!vars)
  BY SessionStep DEF TypeInv
<1>. QED
  BY <1>1, <1>2, XiaozhiTypes, PTL DEF Spec, SessionSpec, S!Spec

-----------------------------------------------------------------------------
(* What the device is promised, when a cancelled goroutine ends in time *)

\* The goroutine has not yet returned or reset the session.
Busy(o) == outputs[o].pc \notin {"none", "close", "exit"}

Sounding(o) == outputs[o].pc \in {"play", "write", "check", "stop"}

\* The read loop while a goroutine may be playing.
Listening == {"loop", "closed", "interrupt", "wait"}

\* The session under a goroutine that plays.
Speaking ==
    /\ session.active /\ session.id # NoID
    /\ session.output = "speaking" /\ session.input # "previewing"

\* A goroutine that plays is the current output, it is cancelled only by someone who
\* waits for it, and the session stays as it found it.
Playing ==
    \A o \in Outputs : Busy(o) =>
        /\ output = o
        /\ main.pc \in Listening
        /\ main.pc = "wait" => main.waiting = o
        /\ outputs[o].cancelled => main.pc \in {"wait", "closed"}
        /\ Speaking

\* The session of a turn that is being answered.
Answering ==
    /\ main.pc \in {"respond", "finalize", "speak", "encode"} =>
         session.active /\ session.id # NoID /\ session.input = "committed"
    /\ main.pc = "encode" => session.output = "speaking"

\* What the device was told of the goroutine that plays, and who is going to tell it
\* that the speech is over.
Told ==
    /\ \A o \in Outputs : Sounding(o) => tts = o
    /\ \A o \in Outputs : outputs[o].pc \in {"await", "resolve", "active", "end"}
                          /\ connected => tts # o
    /\ tts # NoOutput /\ connected /\ ~ stalled =>
         \/ Busy(tts)
         \/ main.pc = "closed"
         \/ main.pc = "wait" /\ main.waiting = tts

IInv ==
    /\ TypeInv
    /\ Playing
    /\ Answering
    /\ Told
    /\ AudioIsBracketed

(* The adapter's view of the session: it is speaking when the output lane   *)
(* is, and active only when that lane is idle (cloneSnapshot).              *)
LEMMA StateShows ==
    ASSUME TypeInv
    PROVE  /\ session.active <=> session.id # NoID
           /\ State = "speaking" <=> session.active /\ session.output = "speaking"
           /\ State = "active" => session.output = "idle"
BY SameStates
   DEF TypeInv, Core!IInv, Core!TypeOK, S!Sessions, S!OutputStates, State, S!SnapshotOf,
       S!deriveCompatState

(* While the read loop handles a message past its interruption nobody plays *)
(* and the device owes nothing.                                             *)
LEMMA Alone ==
    ASSUME IInv, main.pc \notin Listening
    PROVE  /\ \A o \in Outputs : ~ Busy(o)
           /\ tts = NoOutput \/ ~ connected \/ stalled
<1>1. \A o \in Outputs : ~ Busy(o)
  BY DEF IInv, Playing
<1>2. tts \in Outputs \cup {NoOutput} /\ main.pc \notin {"closed", "wait"}
  BY DEF IInv, TypeInv, Local, Listening
<1>. QED
  BY <1>1, <1>2 DEF IInv, Told

(* So a step that starts nothing only has to keep the session of a turn     *)
(* that is being answered.                                                  *)
LEMMA AloneStep ==
    ASSUME IInv, TypeInv', main.pc \notin Listening,
           UNCHANGED <<outputs, output, deviceVars>>, connected' => connected, Answering'
    PROVE  IInv'
<1>1. \A o \in Outputs : Busy(o)' = Busy(o) /\ Sounding(o)' = Sounding(o)
  BY DEF Busy, Sounding
<1>2. \A o \in Outputs : ~ Sounding(o)
                         /\ outputs[o].pc \notin {"await", "resolve", "active", "end"}
  BY Alone DEF Busy, Sounding
<1>3. Playing' /\ Told'
  BY <1>1, <1>2, Alone DEF Playing, Told, deviceVars
<1>. QED
  BY <1>3 DEF IInv, AudioIsBracketed, deviceVars

(* What a call of the core does to the lanes of the session.                *)
LEMMA Lanes ==
    ASSUME session \in S!Sessions
    PROVE  /\ S!ClearTurn => /\ session'.active = session.active /\ session'.id = session.id
                             /\ session'.input = session.input
           /\ S!SetOutputState("speaking") /\ session.active =>
                             /\ session'.active /\ session'.id = session.id
                             /\ session'.input = session.input
                             /\ session'.output = "speaking"
           /\ S!CommitTurn /\ session.active =>
                             /\ session'.active /\ session'.id = session.id
                             /\ session'.input = "committed"
<1>1. ASSUME S!ClearTurn
      PROVE  /\ session'.active = session.active /\ session'.id = session.id
             /\ session'.input = session.input
  BY <1>1 DEF S!ClearTurn, S!ClearTurnOp, S!Sessions
<1>2. ASSUME S!SetOutputState("speaking"), session.active
      PROVE  /\ session'.active /\ session'.id = session.id
             /\ session'.input = session.input /\ session'.output = "speaking"
  BY <1>2 DEF S!SetOutputState, S!SetOutputStateOp, S!normalizeOutputState, S!OutputStates,
              S!WithState, S!Sessions
<1>3. ASSUME S!CommitTurn, session.active
      PROVE  session'.active /\ session'.id = session.id /\ session'.input = "committed"
  BY <1>3 DEF S!CommitTurn, S!CommitTurnOp, S!WithState, S!Sessions
<1>. QED
  BY <1>1, <1>2, <1>3

(* The session is one of the core's.                                        *)
LEMMA SessionTyped == TypeInv => session \in S!Sessions
BY SameStates DEF TypeInv, Core!IInv, Core!TypeOK

(* The steps of a handler past its interruption, Spawn apart.               *)
LEMMA HandlerStep ==
    ASSUME IInv, TypeInv',
           \/ InterruptLane \/ Ensure \/ Decode \/ Ingest \/ Push \/ Poll \/ Consume
           \/ Accept \/ CommitTurn \/ RespondFails
           \/ \E audio, ends \in BOOLEAN : Respond(audio, ends)
           \/ Finalize \/ Speak \/ EncodeFails \/ Return \/ Reset \/ End
    PROVE  IInv'
<1>0. session \in S!Sessions /\ main \in Mains /\ Answering
      /\ (session.active <=> session.id # NoID)
  BY SessionTyped, StateShows DEF IInv, TypeInv, Local
<1>. DEFINE Quiet == /\ main.pc \notin Listening
                     /\ UNCHANGED <<outputs, output, deviceVars>> /\ (connected' => connected)
<1>. USE DEF Listening, Goto, AtLoop, Closed, Written
<1>1. CASE InterruptLane
  <2>1. Quiet /\ main'.pc \in {"loop", "ensure", "end", "closed"}
    BY <1>0, <1>1 DEF InterruptLane, Mains
  <2>. QED
    BY <2>1, AloneStep DEF Answering
<1>2. CASE Ensure \/ Decode \/ Ingest \/ Push \/ Poll \/ Consume \/ Accept
  <2>1. Quiet /\ main'.pc \in {"loop", "decode", "accept", "ingest", "push", "consume", "commit"}
    BY <1>0, <1>2 DEF Ensure, Decode, Ingest, Push, Poll, Consume, Accept, Mains
  <2>. QED
    BY <2>1, AloneStep DEF Answering
<1>3. CASE CommitTurn
  <2>1. Quiet
    BY <1>3 DEF CommitTurn
  <2>2. CASE session.active
    <3>1. main'.pc \in {"respond", "closed"}
      BY <1>0, <1>3, <2>2 DEF CommitTurn, Mains
    <3>. QED
      BY <1>0, <1>3, <2>1, <2>2, <3>1, Lanes, AloneStep DEF CommitTurn, Answering
  <2>3. CASE ~ session.active
    <3>1. main'.pc \in {"loop", "closed"}
      BY <1>3, <2>3 DEF CommitTurn
    <3>. QED
      BY <2>1, <3>1, AloneStep DEF Answering
  <2>. QED
    BY <2>2, <2>3
<1>4. CASE RespondFails \/ EncodeFails \/ Return \/ Reset \/ End
  <2>1. Quiet /\ main'.pc \in {"loop", "closed", "reset", "return"}
    BY <1>0, <1>4 DEF RespondFails, EncodeFails, Return, Reset, End, Mains
  <2>. QED
    BY <2>1, AloneStep DEF Answering
<1>5. ASSUME NEW audio \in BOOLEAN, NEW ends \in BOOLEAN, Respond(audio, ends) PROVE IInv'
  <2>1. Quiet /\ main'.pc \in {"finalize", "closed"} /\ main.pc = "respond"
        /\ UNCHANGED session
    BY <1>0, <1>5 DEF Respond, Mains, sessionVars
  <2>. QED
    BY <1>0, <2>1, AloneStep DEF Answering
<1>6. CASE Finalize
  <2>1. Quiet /\ main'.pc \in {"speak", "closed", "reset", "return"} /\ main.pc = "finalize"
    BY <1>0, <1>6 DEF Finalize, Mains
  <2>2. Answering'
    BY <1>0, <1>6, <2>1, Lanes DEF Finalize, Answering
  <2>. QED
    BY <2>1, <2>2, AloneStep
<1>7. CASE Speak
  <2>1. Quiet /\ main'.pc \in {"encode", "closed"} /\ main.pc = "speak"
    BY <1>0, <1>7 DEF Speak, Mains
  <2>2. Answering'
    BY <1>0, <1>7, <2>1, Lanes DEF Speak, Answering
  <2>. QED
    BY <2>1, <2>2, AloneStep
<1>. QED
  BY <1>1, <1>2, <1>3, <1>4, <1>5, <1>6, <1>7

(* startAudioStream: the goroutine finds the session speaking, and nobody   *)
(* else playing.                                                            *)
LEMMA SpawnStep ==
    ASSUME IInv, TypeInv', Spawn
    PROVE  IInv'
<1>0. main.pc = "encode" /\ main.pc \notin Listening /\ main'.pc = "loop"
  BY DEF Spawn, AtLoop, Listening
<1>1. PICK o \in Outputs :
        /\ outputs' = [outputs EXCEPT ![o] = [NoOutputRec EXCEPT !.pc = "start",
                                                                 !.ends = main.ends]]
        /\ output' = o
  BY DEF Spawn
<1>2. /\ outputs'[o].pc = "start" /\ outputs'[o].cancelled = FALSE
      /\ \A p \in Outputs \ {o} : outputs'[p] = outputs[p]
  BY <1>1 DEF IInv, TypeInv, Local, OutputRecs, NoOutputRec
<1>3. \A p \in Outputs : Busy(p)' <=> p = o
  BY <1>0, <1>2, Alone DEF Busy
<1>4. Playing'
  <2>1. Speaking /\ UNCHANGED session
    BY <1>0 DEF IInv, Answering, Speaking, Spawn, sessionVars
  <2>2. Speaking'
    BY <2>1 DEF Speaking
  <2>. QED
    BY <1>0, <1>1, <1>2, <1>3, <2>2 DEF Playing, Listening
<1>5. Told'
  <2>1. \A p \in Outputs : ~ Sounding(p)'
                           /\ outputs'[p].pc \notin {"await", "resolve", "active", "end"}
    BY <1>0, <1>2, Alone DEF Busy, Sounding
  <2>2. UNCHANGED <<deviceVars, connected>>
    BY DEF Spawn
  <2>. QED
    BY <1>0, <2>1, <2>2, Alone DEF Told, deviceVars
<1>6. Answering' /\ AudioIsBracketed'
  BY <1>0 DEF Answering, AudioIsBracketed, Spawn, deviceVars, IInv
<1>. QED
  BY <1>4, <1>5, <1>6 DEF IInv

(* The steps of the read loop beside a goroutine that plays: they cancel it *)
(* at most, and then wait for it.                                           *)
LEMMA BesideStep ==
    ASSUME IInv, TypeInv', main.pc \in Listening, main'.pc \in Listening,
           UNCHANGED <<sessionVars, output, deviceVars, connected>>,
           \A o \in Outputs : outputs'[o].pc = outputs[o].pc,
           \A o \in Outputs :
              Busy(o) => /\ main'.pc = "wait" => main'.waiting = o
                         /\ outputs'[o].cancelled => main'.pc \in {"wait", "closed"},
           main.pc = "closed" => main'.pc = "closed",
           main.pc = "wait" => main'.pc = "closed"
    PROVE  IInv'
<1>1. \A o \in Outputs : Busy(o)' = Busy(o) /\ Sounding(o)' = Sounding(o)
  BY DEF Busy, Sounding
<1>2. Speaking' = Speaking
  BY DEF Speaking, sessionVars
<1>3. Playing'
  BY <1>1, <1>2 DEF IInv, Playing
<1>4. Told'
  <2>1. tts \in Outputs \cup {NoOutput}
    BY DEF IInv, TypeInv, Local
  <2>2. ASSUME tts # NoOutput, connected, ~ stalled
        PROVE  Busy(tts)' \/ main'.pc = "closed"
    <3>1. Busy(tts) \/ main.pc = "closed" \/ main.pc = "wait"
      BY <2>2 DEF IInv, Told
    <3>. QED
      BY <1>1, <2>1, <2>2, <3>1 DEF deviceVars
  <2>. QED
    BY <1>1, <2>2 DEF IInv, Told, deviceVars
<1>5. Answering'
  BY DEF Answering, Listening
<1>. QED
  BY <1>3, <1>4, <1>5 DEF IInv, AudioIsBracketed, deviceVars

(* A step that leaves the goroutines alone and takes the read loop away     *)
(* from a channel at which nobody plays.                                    *)
LEMMA LeaveStep ==
    ASSUME IInv, TypeInv', main.pc \in {"loop", "interrupt"}, \A o \in Outputs : ~ Busy(o),
           UNCHANGED <<outputs, deviceVars, connected>>,
           main'.pc \in {"loop", "poll", "consume", "ensure", "end"}
    PROVE  IInv'
<1>1. \A o \in Outputs : ~ Busy(o)' /\ ~ Sounding(o)' /\ ~ Sounding(o)
                         /\ outputs[o].pc \notin {"await", "resolve", "active", "end"}
  BY DEF Busy, Sounding
<1>2. tts \in Outputs \cup {NoOutput}
  BY DEF IInv, TypeInv, Local
<1>3. tts = NoOutput \/ ~ connected \/ stalled
  BY <1>2 DEF IInv, Told
<1>4. Playing' /\ Told'
  BY <1>1, <1>3 DEF Playing, Told, deviceVars
<1>. QED
  BY <1>4 DEF IInv, AudioIsBracketed, Answering, deviceVars

(* The messages of the device, the endpoint tick and the read deadline.     *)
LEMMA MessageStep ==
    ASSUME IInv, TypeInv', Message
    PROVE  IInv'
<1>0. /\ output \in Outputs \cup {NoOutput} /\ main \in Mains
      /\ outputs \in OutputRecs /\ TypeInv
  BY DEF IInv, TypeInv, Local
<1>1. ASSUME NEW o \in Outputs, Busy(o)
      PROVE  output = o /\ State = "speaking" /\ (main.pc = "loop" => ~ outputs[o].cancelled)
  BY <1>0, <1>1, StateShows DEF IInv, Playing, Speaking
<1>. USE DEF Listening, AtLoop, Goto, sessionVars, deviceVars
<1>2. ASSUME NEW v \in 0 .. 3, handleHello(v) PROVE IInv'
  BY <1>1, <1>2, BesideStep DEF handleHello
<1>3. CASE ListenStart \/ ListenDetect \/ handleAbort
  BY <1>1, <1>3, BesideStep DEF ListenStart, ListenDetect, handleAbort, Begin
<1>4. ASSUME NEW f \in DeviceFrames(version), handleBinary(f) PROVE IInv'
  BY <1>1, <1>4, BesideStep DEF handleBinary
<1>5. CASE ListenStop
  <2>1. CASE main' = main
    BY <1>1, <1>5, <2>1, BesideStep DEF ListenStop
  <2>2. CASE main' # main
    <3>1. State = "active" /\ main' = Goto("consume") /\ main.pc = "loop"
      BY <1>5, <2>2 DEF ListenStop
    <3>2. main'.pc = "consume"
      BY <1>0, <3>1 DEF Mains
    <3>. QED
      BY <1>1, <1>5, <3>1, <3>2, LeaveStep DEF ListenStop
  <2>. QED
    BY <2>1, <2>2
<1>6. CASE Tick
  BY <1>1, <1>6, LeaveStep DEF Tick
<1>7. CASE ReadTimeout
  <2>1. /\ main.pc = "loop" /\ main'.pc = "wait" /\ main'.waiting = output
        /\ UNCHANGED <<sessionVars, output, deviceVars, connected>>
    BY <1>7 DEF ReadTimeout
  <2>2. \A o \in Outputs : outputs'[o].pc = outputs[o].pc
    BY <1>0, <1>7 DEF ReadTimeout, CancelOutput, OutputRecs
  <2>. QED
    BY <1>1, <2>1, <2>2, BesideStep
<1>. QED
  BY <1>2, <1>3, <1>4, <1>5, <1>6, <1>7 DEF Message

(* interruptSpeaking: cancel, wait, tell the device.  A goroutine that was  *)
(* waited for does not play any more (PromptExit).                          *)
LEMMA InterruptStep ==
    ASSUME PromptExit, IInv, TypeInv', Interrupt \/ InterruptWait
    PROVE  IInv'
<1>0. /\ output \in Outputs \cup {NoOutput} /\ main \in Mains
      /\ outputs \in OutputRecs /\ TypeInv /\ tts \in Outputs \cup {NoOutput}
      /\ NoOutput \notin Outputs
  BY DEF IInv, TypeInv, Local, Outputs, NoOutput
<1>1. CASE Interrupt /\ State # "speaking" /\ output = NoOutput
  <2>1. \A o \in Outputs : ~ Busy(o)
    BY <1>0, <1>1 DEF IInv, Playing
  <2>2. main'.pc \in {"loop", "ensure", "end"} /\ main.pc = "interrupt"
        /\ UNCHANGED <<outputs, deviceVars, connected>>
    BY <1>0, <1>1 DEF Interrupt, Goto, Mains
  <2>. QED
    BY <2>1, <2>2, LeaveStep
<1>2. CASE Interrupt /\ ~ (State # "speaking" /\ output = NoOutput)
  <2>1. /\ main.pc = "interrupt" /\ main'.pc = "wait" /\ main'.waiting = output
        /\ UNCHANGED <<sessionVars, output, deviceVars, connected>>
    BY <1>0, <1>2 DEF Interrupt, Mains
  <2>2. \A o \in Outputs : outputs'[o].pc = outputs[o].pc
    BY <1>0, <1>2 DEF Interrupt, CancelOutput, OutputRecs
  <2>3. \A o \in Outputs : Busy(o) => output = o
    BY DEF IInv, Playing
  <2>. QED
    BY <2>1, <2>2, <2>3, BesideStep DEF Listening
<1>3. CASE InterruptWait
  <2>1. \A o \in Outputs : ~ Busy(o)
    BY <1>0, <1>3 DEF InterruptWait, StreamDone, Alive, Busy, IInv, Playing
  <2>2. \A o \in Outputs : ~ Busy(o)' /\ ~ Sounding(o)'
                           /\ outputs'[o].pc \notin {"await", "resolve", "active", "end"}
    BY <1>3, <2>1 DEF InterruptWait, Busy, Sounding
  <2>3. main'.pc \in {"lane", "loop", "ensure", "end", "closed"}
    BY <1>0, <1>3 DEF InterruptWait, Written, Closed, AtLoop, Mains
  <2>4. tts' = NoOutput \/ ~ connected' \/ stalled'
    <3>1. CASE tts = NoOutput \/ ~ connected \/ stalled
      BY <1>3, <3>1 DEF InterruptWait
    <3>2. CASE tts # NoOutput /\ connected /\ ~ stalled
      <4>1. main.waiting = tts
        BY <1>0, <1>3, <2>1, <3>2 DEF InterruptWait, IInv, Told
      <4>. QED
        BY <1>3, <3>2, <4>1 DEF InterruptWait, StopsDevice
    <3>. QED
      BY <3>1, <3>2
  <2>. QED
    BY <1>3, <2>2, <2>3, <2>4
       DEF IInv, Playing, Told, Answering, AudioIsBracketed, InterruptWait
<1>. QED
  BY <1>1, <1>2, <1>3

(* The end of the connection.                                               *)
LEMMA CloseStep ==
    ASSUME IInv, TypeInv', Disconnect \/ CancelAll \/ Break
    PROVE  IInv'
<1>0. outputs \in OutputRecs
  BY DEF IInv, TypeInv, Local
<1>1. CASE Disconnect
  BY <1>1, BesideStep DEF Disconnect, Closed, AtLoop, Listening
<1>2. CASE CancelAll
  <2>1. \A o \in Outputs : outputs'[o].pc = outputs[o].pc
    BY <1>0, <1>2 DEF CancelAll, OutputRecs
  <2>. QED
    BY <1>2, <2>1, BesideStep DEF CancelAll, Listening
<1>3. CASE Break
  BY <1>3 DEF Break, IInv, Playing, Answering, Told, AudioIsBracketed, Speaking, Busy,
              Sounding, sessionVars, deviceVars
<1>. QED
  BY <1>1, <1>2, <1>3

(* What setting the place of one goroutine leaves alone.                    *)
LEMMA OutMoves ==
    ASSUME outputs \in OutputRecs, NEW o \in Outputs, NEW pc, OutGoto(o, pc)
    PROVE  /\ outputs'[o].pc = pc /\ outputs'[o].cancelled = outputs[o].cancelled
           /\ \A p \in Outputs \ {o} : outputs'[p] = outputs[p]
BY DEF OutGoto, OutputRecs

(* A goroutine that plays does so alone: when it goes on, the session and   *)
(* the read loop are as they were.                                          *)
LEMMA OutGoesOn ==
    ASSUME IInv, TypeInv', NEW o \in Outputs, Busy(o), NEW pc, OutGoto(o, pc),
           UNCHANGED <<sessionVars, output, main, connected>>,
           Busy(o)', Sounding(o)' => tts' = o,
           pc \in {"await", "resolve", "active", "end"} /\ connected => tts' # o,
           tts' \in {tts, o, NoOutput}, stalled' = stalled \/ tts' = o, ~ stray'
    PROVE  IInv'
<1>1. /\ outputs'[o].pc = pc /\ outputs'[o].cancelled = outputs[o].cancelled
      /\ \A p \in Outputs \ {o} : outputs'[p] = outputs[p]
  BY OutMoves DEF IInv, TypeInv, Local
<1>2. \A p \in Outputs : Busy(p) => p = o
  BY DEF IInv, Playing
<1>3. \A p \in Outputs : Busy(p)' <=> p = o
  BY <1>1, <1>2 DEF Busy
<1>4. Playing'
  <2>1. Speaking' = Speaking
    BY DEF Speaking, sessionVars
  <2>. QED
    BY <1>1, <1>3, <2>1 DEF IInv, Playing
<1>5. Told'
  <2>1. \A p \in Outputs \ {o} : ~ Sounding(p)'
                  /\ outputs'[p].pc \notin {"await", "resolve", "active", "end"}
    BY <1>3 DEF Busy, Sounding
  <2>2. ASSUME tts' # NoOutput, connected', ~ stalled'
        PROVE  \/ Busy(tts)'
               \/ main'.pc = "closed"
               \/ main'.pc = "wait" /\ main'.waiting = tts'
    <3>1. CASE tts' = o
      BY <3>1 DEF Busy
    <3>2. CASE tts' # o
      <4>1. tts' = tts /\ ~ stalled /\ connected /\ tts \in Outputs \cup {NoOutput}
        BY <2>2, <3>2 DEF IInv, TypeInv, Local
      <4>2. ~ Busy(tts)
        BY <1>2, <2>2, <3>2, <4>1
      <4>. QED
        <5>1. tts # NoOutput /\ main' = main
          BY <2>2, <4>1
        <5>2. main.pc = "closed" \/ (main.pc = "wait" /\ main.waiting = tts)
          BY <4>1, <4>2, <5>1 DEF IInv, Told
        <5>. QED
          BY <4>1, <5>1, <5>2
    <3>. QED
      BY <3>1, <3>2
  <2>. QED
    BY <1>1, <2>1, <2>2 DEF Told
<1>6. Answering' /\ AudioIsBracketed'
  BY DEF IInv, Answering, AudioIsBracketed, sessionVars
<1>. QED
  BY <1>4, <1>5, <1>6 DEF IInv

(* When it is done with the session, nobody plays, and either the device    *)
(* has been told or someone is there to tell it.                            *)
LEMMA OutLeaves ==
    ASSUME IInv, TypeInv', NEW o \in Outputs, Busy(o), NEW pc \in {"close", "exit"},
           OutGoto(o, pc), UNCHANGED <<output, main, connected, tts, stray>>,
           tts = o /\ connected /\ ~ stalled' => outputs[o].cancelled,
           stalled => stalled'
    PROVE  IInv'
<1>1. /\ outputs'[o].pc = pc
      /\ \A p \in Outputs \ {o} : outputs'[p] = outputs[p]
  BY OutMoves DEF IInv, TypeInv, Local
<1>2. /\ \A p \in Outputs : Busy(p) => p = o
      /\ outputs[o].cancelled => main.pc \in {"wait", "closed"}
      /\ main.pc = "wait" => main.waiting = o
      /\ main.pc \in Listening
  BY DEF IInv, Playing
<1>3. \A p \in Outputs : ~ Busy(p)'
  BY <1>1, <1>2 DEF Busy
<1>4. \A p \in Outputs : ~ Sounding(p)'
                /\ outputs'[p].pc \notin {"await", "resolve", "active", "end"}
  BY <1>3 DEF Busy, Sounding
<1>5. ASSUME tts' # NoOutput, connected', ~ stalled'
      PROVE  main'.pc = "closed" \/ (main'.pc = "wait" /\ main'.waiting = tts')
  <2>1. tts = o \/ ~ Busy(tts)
    BY <1>2, <1>5 DEF IInv, TypeInv, Local
  <2>. QED
    BY <1>2, <1>5, <2>1 DEF IInv, Told
<1>6. Answering'
  BY <1>2 DEF Answering, Listening
<1>. QED
  BY <1>3, <1>4, <1>5, <1>6 DEF IInv, Playing, Told, AudioIsBracketed

(* The steps of an output goroutine.                                        *)
LEMMA OutputStep ==
    ASSUME IInv, TypeInv', NEW o \in Outputs, OutStep(o)
    PROVE  IInv'
<1>0. /\ outputs \in OutputRecs /\ output \in Outputs \cup {NoOutput}
      /\ o # NoOutput /\ tts \in Outputs \cup {NoOutput} /\ AudioIsBracketed
      /\ stalled \in BOOLEAN /\ connected \in BOOLEAN /\ stray \in BOOLEAN
  BY DEF IInv, TypeInv, Local, Outputs, NoOutput
<1>1. /\ Sounding(o) => tts = o
      /\ outputs[o].pc \in {"await", "resolve", "active", "end"} /\ connected => tts # o
  BY DEF IInv, Told
<1>2. \A pc : OutGoto(o, pc) => outputs'[o].pc = pc
  BY <1>0, OutMoves
<1>. USE DEF At, OutVars, Busy, Sounding, AudioIsBracketed, deviceVars, sessionVars
<1>3. CASE OutStart(o)
  <2>1. CASE connected
    BY <1>0, <1>2, <1>3, <2>1, OutGoesOn DEF OutStart
  <2>2. CASE ~ connected
    BY <1>0, <1>3, <2>2, OutLeaves DEF OutStart
  <2>. QED
    BY <2>1, <2>2
<1>4. CASE OutNext(o)
  <2>1. CASE outputs[o].cancelled
    BY <1>0, <1>4, <2>1, OutLeaves DEF OutNext
  <2>2. CASE ~ outputs[o].cancelled
    BY <1>0, <1>1, <1>2, <1>4, <2>2, OutGoesOn DEF OutNext
  <2>. QED
    BY <2>1, <2>2
<1>5. CASE OutWrite(o)
  <2>1. CASE connected
    BY <1>0, <1>1, <1>2, <1>5, <2>1, OutGoesOn DEF OutWrite
  <2>2. CASE ~ connected
    BY <1>0, <1>5, <2>2, OutLeaves DEF OutWrite
  <2>. QED
    BY <2>1, <2>2
<1>6. CASE OutEOF(o)
  BY <1>0, <1>1, <1>2, <1>6, OutGoesOn DEF OutEOF
<1>7. CASE OutFails(o)
  BY <1>0, <1>7, OutLeaves DEF OutFails
<1>8. CASE OutCheck(o)
  <2>1. CASE outputs[o].cancelled
    BY <1>0, <1>8, <2>1, OutLeaves DEF OutCheck
  <2>2. CASE ~ outputs[o].cancelled
    BY <1>0, <1>1, <1>2, <1>8, <2>2, OutGoesOn DEF OutCheck
  <2>. QED
    BY <2>1, <2>2
<1>9. CASE OutStop(o)
  BY <1>0, <1>1, <1>2, <1>9, OutGoesOn DEF OutStop
<1>10. CASE OutAwait(o)
  <2>1. CASE OutGoto(o, IF outputs[o].ends THEN "end" ELSE "resolve")
    BY <1>0, <1>1, <1>2, <1>10, <2>1, OutGoesOn DEF OutAwait
  <2>2. CASE outputs[o].cancelled /\ OutGoto(o, "exit")
    BY <1>0, <1>10, <2>2, OutLeaves DEF OutAwait
  <2>. QED
    BY <1>10, <2>1, <2>2 DEF OutAwait
<1>11. CASE OutResolve(o)
  BY <1>0, <1>1, <1>2, <1>11, OutGoesOn DEF OutResolve
<1>12. CASE OutActive(o)
  BY <1>0, <1>1, <1>12, OutLeaves DEF OutActive
<1>13. CASE OutEnd(o)
  BY <1>0, <1>1, <1>13, OutLeaves DEF OutEnd
<1>14. CASE OutClose(o) \/ OutExit(o)
  <2>1. ~ Busy(o) /\ ~ Busy(o)' /\ \A p \in Outputs \ {o} : outputs'[p] = outputs[p]
    BY <1>0, <1>14 DEF OutClose, OutExit, OutGoto, OutputRecs, NoOutputRec
  <2>2. /\ UNCHANGED <<session, main, tts, stalled, stray>>
        /\ connected' => connected
        /\ \A p \in Outputs \ {o} : output = p => output' = p
    BY <1>14 DEF OutClose, OutExit
  <2>3. \A p \in Outputs : Busy(p)' <=> Busy(p)
    BY <2>1
  <2>4. Playing'
    <3>1. Speaking' = Speaking
      BY <2>2 DEF Speaking
    <3>. QED
      BY <2>1, <2>2, <2>3, <3>1 DEF IInv, Playing
  <2>5. Told'
    BY <1>0, <2>1, <2>2 DEF IInv, Told
  <2>. QED
    BY <2>2, <2>4, <2>5 DEF IInv, Answering
<1>. QED
  BY <1>3, <1>4, <1>5, <1>6, <1>7, <1>8, <1>9, <1>10, <1>11, <1>12, <1>13, <1>14 DEF OutStep

(* The connection begins quiet.                                             *)
LEMMA InitInv == Init => IInv
<1>. SUFFICES ASSUME Init PROVE IInv
  OBVIOUS
<1>1. \A o \in Outputs : outputs[o].pc = "none"
  BY DEF Init, NoOutputRec
<1>2. main.pc = "loop" /\ tts = NoOutput /\ ~ stray
  BY DEF Init, AtLoop
<1>. QED
  BY <1>1, <1>2, InitTypes DEF IInv, Playing, Answering, Told, AudioIsBracketed, Busy, Sounding

(* Every step preserves the invariant, if a cancelled goroutine ends in     *)
(* time.                                                                    *)
LEMMA NextInv == PromptExit /\ IInv /\ [Next]_vars => IInv'
<1>. SUFFICES ASSUME PromptExit, IInv, [Next]_vars PROVE IInv'
  OBVIOUS
<1>1. TypeInv'
  BY NextTypes DEF IInv
<1>2. CASE Message
  BY <1>1, <1>2, MessageStep
<1>3. CASE MainStep
  BY <1>1, <1>3, HandlerStep, SpawnStep, InterruptStep, CloseStep DEF MainStep
<1>4. CASE Break
  BY <1>1, <1>4, CloseStep
<1>5. ASSUME NEW o \in Outputs, OutStep(o) PROVE IInv'
  BY <1>1, <1>5, OutputStep
<1>6. CASE UNCHANGED vars
  BY <1>1, <1>6 DEF vars, IInv, Playing, Answering, Told, AudioIsBracketed, Speaking, Busy,
                    Sounding, sessionVars, deviceVars
<1>. QED
  BY <1>2, <1>3, <1>4, <1>5, <1>6 DEF Next

(* The inductive invariant of the playback.                                 *)
THEOREM XiaozhiInvariant ==
    ASSUME PromptExit
    PROVE  Spec => []IInv
<1>1. IInv /\ [Next]_vars => IInv'
  BY NextInv
<1>. QED
  BY <1>1, InitInv, PTL DEF Spec

(* Audio is sent only between its own tts.start and tts.stop, whatever      *)
(* interrupts it and whatever is played next.                               *)
THEOREM XiaozhiBrackets ==
    ASSUME PromptExit
    PROVE  Spec => []AudioIsBracketed
<1>1. IInv => AudioIsBracketed
  BY DEF IInv
<1>. QED
  BY <1>1, XiaozhiInvariant, PTL

(* Back at its channel, the read loop leaves no speech that the device      *)
(* still takes to be playing, unless its stream or the network failed.      *)
THEOREM XiaozhiStops ==
    ASSUME PromptExit
    PROVE  Spec => []SpeechIsStopped
<1>1. IInv => SpeechIsStopped
  BY DEF IInv, Told, SpeechIsStopped, Busy, Alive
<1>. QED
  BY <1>1, XiaozhiInvariant, PTL

(* A goroutine that returns the session finds it as it left it: nobody has  *)
(* heard the user and no newer turn is under way.                           *)
THEOREM XiaozhiHearsNothing ==
    ASSUME PromptExit
    PROVE  Spec => []NothingHeardWhileSpeaking
<1>1. IInv => NothingHeardWhileSpeaking
  BY DEF IInv, Playing, Speaking, Busy, NothingHeardWhileSpeaking
<1>. QED
  BY <1>1, XiaozhiInvariant, PTL
=============================================================================
