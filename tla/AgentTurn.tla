------------------------------- MODULE AgentTurn -------------------------------
(***************************************************************************)
(* The agent runtime (internal/agent): the LLM turn executor with its      *)
(* bounded tool loop, the in-process memory store and the prewarm cache,   *)
(* as the native gateway drives it.  Three parties write the memory of a   *)
(* turn: the session orchestrator before and after the turn is executed,   *)
(* the executor itself, and the output goroutine when the playback ends.   *)
(* A prewarm goroutine reads it whenever it likes.                         *)
(*                                                                         *)
(* Data: a user text is known by what the executor does with it, and in a  *)
(* record by whether it is a command; a text that was produced by the      *)
(* number of its pieces; a heard text as nothing, a part or all.  All      *)
(* sessions are of one device, which may have had others before.  A        *)
(* context is what its records say was heard: summary, facts and messages  *)
(* are functions of that.  The base of a model name is what it begins with *)
(* and the numbers it ends with (lamp_on_2: lamp_on, 2).  The session of a *)
(* failed turn is over (terminateWithError), and its id is not used again. *)
(***************************************************************************)
EXTENDS Integers, Sequences, FiniteSets

CONSTANTS
    Sessions,       \* SessionID
    Voice,          \* the sessions with a microphone and a preview; the others type
    Device,         \* DeviceID, the same for all of them
    Catalog,        \* ListTools: the names, each with its base, makeModelToolName
    maxTurns,       \* NewInMemoryMemoryStore
    MaxSteps,       \* defaultToolLoopMaxSteps (6)
    MaxCalls,       \* bound: tool calls of one model answer
    MaxTurns        \* bound: turns altogether

ASSUME AgentAssumption ==
    /\ Device \notin Sessions /\ Voice \subseteq Sessions
    /\ Catalog \in Seq([name : STRING, base : [stem : STRING, suffix : Seq(Nat)]])
    /\ {maxTurns, MaxSteps, MaxCalls} \subseteq Nat \ {0} /\ MaxTurns \in Nat

VARIABLES
    store,      \* InMemoryMemoryStore.recordsByScope
    prewarm,    \* llmPrewarmState.bySession
    warm,       \* the prewarm goroutine of a session
    turn,       \* the turn a session's read loop is in
    orch,       \* SessionOrchestrator.turn
    previous    \* SessionOrchestrator.lastPlaybackOutcome is set

vars == <<store, prewarm, warm, turn, orch, previous>>

-----------------------------------------------------------------------------
(* User texts.                                                              *)

\* parseBootstrapMemoryCommand, parseBootstrapToolCommand: /memory and /tool.
Commands == {"command"}
\* A preview may settle on "ask" before the user goes on and says "more".
Prefixes == {"ask"}
Spoken == Prefixes \cup {"more"}
Texts == Commands \cup Spoken \cup {"continue"}
NoText == "none"

shouldPersistTurn(text) == text \notin Commands

\* deterministicPlaybackFollowUpText: a short request to continue is answered from the
\* context of the last playback.
FollowUp(text, metadata) == text = "continue" /\ metadata

-----------------------------------------------------------------------------
(* The memory store.                                                        *)

TurnIDs == 1 .. MaxTurns
Earlier == -1
MemoryRecords ==
    [turn : TurnIDs \cup {Earlier}, command : BOOLEAN, response : Nat,
     heard : {"none", "part", "all"}, completed : BOOLEAN]

Scopes == Sessions \cup {Device}

\* Mutant: a record of the turn that is there already is not replaced.
AppendRecord(records, r) == Append(records, r)

\* The record of the same turn is replaced where it stands.
Upsert(records, r) ==
    IF \E i \in DOMAIN records : records[i].turn = r.turn
    THEN [i \in DOMAIN records |-> IF records[i].turn = r.turn THEN r ELSE records[i]]
    ELSE Append(records, r)

LastOf(records, n) ==
    SubSeq(records, IF Len(records) > n THEN Len(records) - n + 1 ELSE 1, Len(records))

SaveTurn(s, r) ==
    store' = [k \in Scopes |-> IF k \in {s, Device}
                               THEN LastOf(Upsert(store[k], r), maxTurns) ELSE store[k]]

memoryAssistantText(r) ==
    IF r.heard # "none" THEN r.heard
    ELSE IF r.completed /\ r.response > 0 THEN "all" ELSE "none"

\* What the user heard in the last turns.
recentMessages(records) ==
    [i \in DOMAIN records |-> [turn |-> records[i].turn,
                               assistant |-> memoryAssistantText(records[i])]]

recentTurnSpan == IF maxTurns < 4 THEN maxTurns ELSE 4

\* The first scope that has records: the session's before the device's.
LoadTurnContext(s) ==
    LET scope == IF store[s] # <<>> THEN s ELSE Device
    IN  [scope |-> scope, recent |-> recentMessages(LastOf(store[scope], recentTurnSpan))]

NoContext == [scope |-> Device, recent |-> <<>>]
ContextTurns(c) == {c.recent[i].turn : i \in DOMAIN c.recent}

-----------------------------------------------------------------------------
(* Tools.                                                                   *)

\* Mutant: no suffix.
bareName(base, count) == base

\* The name of a tool whose base is the name of count tools before it; a suffix is
\* part of the name.
suffixedName(base, count) ==
    IF count > 0 THEN [base EXCEPT !.suffix = Append(@, count + 1)] ELSE base

\* buildModelToolDefinitions: the names the model sees.  A use is counted under the
\* name that was given, with its suffix, so a third tool of a base is named as the
\* second, and a base may be the name that another tool was given.
modelName[i \in DOMAIN Catalog] ==
    LET base == Catalog[i].base
    IN  suffixedName(base, Cardinality({j \in 1 .. i - 1 : modelName[j] = base}))

\* toolAliasSet.actualName: modelToActual holds the last tool of that name.
actualName(m) ==
    LET named == {i \in DOMAIN Catalog : modelName[i] = m}
    IN  Catalog[CHOOSE i \in named : \A j \in named : j <= i].name

\* The model asks for the tool at i; the tool message names what was called.  The ID of
\* a call is its place among the calls of the answer.
Answer(i, id) == [tool |-> actualName(modelName[i]), id |-> id]

-----------------------------------------------------------------------------
(* State.                                                                   *)

TurnPCs == {"idle", "consume", "load", "route", "model", "tools", "save", "prepare",
            "deliver", "ended"}
Executing == {"consume", "load", "route", "model", "tools", "save"}

\* metadata: the signature of the turn's metadata is not empty; hit: it uses a prewarm;
\* out: outputText; said: history, the pieces the sink got; early: AudioStreamTransferred.
NoTurn == [pc |-> "idle", id |-> 0, text |-> NoText, metadata |-> FALSE, followed |-> FALSE,
           hit |-> FALSE, context |-> NoContext, step |-> 0, out |-> 0, said |-> 0,
           asked |-> <<>>, answers |-> <<>>, early |-> FALSE]

NoCandidate == [text |-> NoText, context |-> NoContext]
\* last: lastPrewarmText of the preview that is open; a turn closes it.
NoWarm == [pc |-> "none", candidate |-> NoCandidate, last |-> NoText]

NoOrch == [turn |-> 0, command |-> FALSE, response |-> 0, heard |-> "none",
           completed |-> FALSE, playing |-> FALSE]

Contexts == [scope : Scopes, recent : Seq([turn : TurnIDs \cup {Earlier},
                                           assistant : {"none", "part", "all"}])]
Turns ==
    [pc : TurnPCs, id : TurnIDs \cup {0}, text : Texts \cup {NoText}, metadata : BOOLEAN,
     followed : BOOLEAN, hit : BOOLEAN, context : Contexts, step : 0 .. MaxSteps, out : Nat,
     said : Nat, asked : Seq(DOMAIN Catalog), answers : Seq([tool : STRING, id : Nat]),
     early : BOOLEAN]
Candidates == [text : Spoken \cup {NoText}, context : Contexts]
Warms == [pc : {"none", "load", "store"}, candidate : Candidates, last : Spoken \cup {NoText}]
Orchs == [turn : TurnIDs \cup {0}, command : BOOLEAN, response : Nat,
          heard : {"none", "part", "all"}, completed : BOOLEAN, playing : BOOLEAN]

Count == Cardinality({i \in TurnIDs : \E s \in Sessions :
             \/ turn[s].id >= i
             \/ \E r \in DOMAIN store[s] : store[s][r].turn >= i})

TypeOK ==
    /\ store \in [Scopes -> Seq(MemoryRecords)]
    /\ \A k \in Scopes : Len(store[k]) <= maxTurns
    /\ prewarm \in [Sessions -> Candidates] /\ warm \in [Sessions -> Warms]
    /\ turn \in [Sessions -> Turns] /\ orch \in [Sessions -> Orchs]
    /\ previous \in [Sessions -> BOOLEAN]

\* A turn of a session that is over.
EarlierRecord == [turn |-> Earlier, command |-> FALSE, response |-> 1, heard |-> "all",
                  completed |-> TRUE]

Init ==
    /\ \E past \in {<<>>, <<EarlierRecord>>} :
         store = [k \in Scopes |-> IF k = Device THEN past ELSE <<>>]
    /\ prewarm = [s \in Sessions |-> NoCandidate] /\ warm = [s \in Sessions |-> NoWarm]
    /\ turn = [s \in Sessions |-> NoTurn] /\ orch = [s \in Sessions |-> NoOrch]
    /\ previous = [s \in Sessions |-> FALSE]

-----------------------------------------------------------------------------
(* The orchestrator's side of a turn.                                       *)

\* persistLocked
Persist(s, o) ==
    SaveTurn(s, [turn |-> o.turn, command |-> o.command, response |-> o.response,
                 heard |-> o.heard, completed |-> o.completed])

\* PrepareTurn: the same turn is brought up to date, another one replaces it.
PrepareTurn(s, id, text, response) ==
    LET o == [IF orch[s].turn = id THEN orch[s] ELSE NoOrch EXCEPT
                !.turn = id, !.command = (text \in Commands), !.response = response]
    IN  orch' = [orch EXCEPT ![s] = o] /\ Persist(s, o)

\* captureLastPlaybackOutcomeLocked, and the turn is forgotten.
Finish(s, heard, completed) ==
    /\ Persist(s, [orch[s] EXCEPT !.heard = heard, !.completed = completed])
    /\ previous' = [previous EXCEPT ![s] = TRUE]
    /\ orch' = [orch EXCEPT ![s] = NoOrch]

Playing(s) == [orch EXCEPT ![s].playing = TRUE, ![s].heard = "none", ![s].completed = FALSE]

-----------------------------------------------------------------------------
(* emitTurnResponse: a turn begins and is prepared                          *)

\* The text is typed, or the preview's transcription; the transcription of a spoken turn
\* always adds metadata.
BeginTurn(s, text, spoken) ==
    /\ turn[s].pc = "idle" /\ ~ orch[s].playing /\ Count < MaxTurns
    /\ spoken => text \in Spoken /\ s \in Voice
    /\ PrepareTurn(s, Count + 1, text, 0)
    /\ turn' = [turn EXCEPT ![s] = [NoTurn EXCEPT
                  !.pc = "consume", !.id = Count + 1, !.text = text,
                  !.metadata = spoken \/ previous[s], !.followed = previous[s]]]
    /\ warm' = [warm EXCEPT ![s].last = NoText]
    /\ UNCHANGED <<prewarm, previous>>

-----------------------------------------------------------------------------
(* LLMTurnExecutor.StreamTurn                                               *)

\* Mutant: the metadata signature is not compared.
MatchesText(s, c) == c.text = turn[s].text

Matches(s, c) == c.text = turn[s].text /\ ~ turn[s].metadata

\* consumeMatch: the candidate is taken in any case; one older than llmPrewarmTTL does
\* not count.
Consume(s, expired) ==
    /\ turn[s].pc = "consume"
    /\ LET hit == prewarm[s] # NoCandidate /\ ~ expired /\ Matches(s, prewarm[s])
       IN  turn' = [turn EXCEPT ![s].hit = hit,
                                ![s].pc = IF hit THEN "route" ELSE "load",
                                ![s].context = IF hit THEN prewarm[s].context ELSE NoContext]
    /\ prewarm' = [prewarm EXCEPT ![s] = NoCandidate]
    /\ UNCHANGED <<store, warm, orch, previous>>

Load(s) ==
    /\ turn[s].pc = "load"
    /\ turn' = [turn EXCEPT ![s].context = LoadTurnContext(s), ![s].pc = "route"]
    /\ UNCHANGED <<store, prewarm, warm, orch, previous>>

\* The locals of a turn that is over, or past the executor, are gone.
Over(s, pc) == [NoTurn EXCEPT !.pc = pc, !.id = turn[s].id, !.said = turn[s].said]

\* The turn fails: emitting a delta, the model, an empty answer, or the budget.
Failed(s) == turn' = [turn EXCEPT ![s] = Over(s, "ended")]

\* streamBootstrapOutput and emitBootstrapTextOutput: a command or a follow-up is
\* answered with one text; a tool that fails is a text too.
Bootstrap(s) ==
    /\ turn[s].pc = "route"
    /\ turn[s].text \in Commands \/ FollowUp(turn[s].text, turn[s].followed)
    /\ \/ turn' = [turn EXCEPT ![s].pc = "save", ![s].said = 1, ![s].out = 1]
       \/ Failed(s)
    /\ UNCHANGED <<store, prewarm, warm, orch, previous>>

ToModel(s) ==
    /\ turn[s].pc = "route"
    /\ ~ (turn[s].text \in Commands \/ FollowUp(turn[s].text, turn[s].followed))
    /\ turn' = [turn EXCEPT ![s].pc = "model"]
    /\ UNCHANGED <<store, prewarm, warm, orch, previous>>

\* Mutant: the text of the last step only.
LastStepText(out, piece) == piece

\* runModelStep writes every piece to the sink and to outputText.
outputText(out, piece) == out + piece

ModelStep(s, piece, calls) ==
    /\ turn[s].pc = "model" /\ turn[s].step < MaxSteps
    /\ LET out == outputText(turn[s].out, piece)
       IN  IF calls = <<>> /\ out = 0 THEN Failed(s)
           ELSE turn' = [turn EXCEPT ![s].pc = IF calls = <<>> THEN "save" ELSE "tools",
                                     ![s].out = out, ![s].said = @ + piece,
                                     ![s].asked = calls, ![s].answers = <<>>]
    /\ UNCHANGED <<store, prewarm, warm, orch, previous>>

\* An error of the model or of the sink; the tool step budget is used up.
ModelFails(s) ==
    /\ turn[s].pc \in {"model", "tools"}
    /\ Failed(s)
    /\ UNCHANGED <<store, prewarm, warm, orch, previous>>

\* Mutant: the loop does not count its steps.
NextStep0(step) == step

NextStep(step) == step + 1

\* executeToolCalls: one call; an error of the invoker is a result like any other.
InvokeTool(s) ==
    /\ turn[s].pc = "tools"
    /\ LET n == Len(turn[s].answers) + 1
           last == n = Len(turn[s].asked)
       IN  turn' = [turn EXCEPT ![s].answers = Append(@, Answer(turn[s].asked[n], n)),
                                ![s].pc = IF last THEN "model" ELSE @,
                                ![s].step = IF last THEN NextStep(@) ELSE @]
    /\ UNCHANGED <<store, prewarm, warm, orch, previous>>

\* The executor's record knows no playback.
SaveOutput(s) ==
    /\ turn[s].pc = "save"
    /\ IF shouldPersistTurn(turn[s].text)
       THEN SaveTurn(s, [turn |-> turn[s].id, command |-> FALSE, response |-> turn[s].out,
                         heard |-> "none", completed |-> FALSE])
       ELSE UNCHANGED store
    /\ turn' = [turn EXCEPT ![s].pc = "prepare", ![s].context = NoContext, ![s].hit = FALSE,
                            ![s].step = 0]
    /\ UNCHANGED <<prewarm, warm, orch, previous>>

-----------------------------------------------------------------------------
(* The response is delivered                                                *)

\* StartResponseAudio, while the executor is still at work.
StartEarlyAudio(s) ==
    /\ turn[s].pc \in Executing \cup {"prepare"}
    /\ turn[s].said > 0 /\ ~ turn[s].early /\ orch[s].turn = turn[s].id
    /\ turn' = [turn EXCEPT ![s].early = TRUE]
    /\ orch' = Playing(s)
    /\ UNCHANGED <<store, prewarm, warm, previous>>

PrepareAgain(s) ==
    /\ turn[s].pc = "prepare"
    /\ PrepareTurn(s, turn[s].id, turn[s].text, turn[s].out)
    /\ turn' = [turn EXCEPT ![s].pc = "deliver"]
    /\ UNCHANGED <<prewarm, warm, previous>>

\* UpdatePlayback of an early playback persists; otherwise finalizeTurnResponse starts
\* one, or the text alone counts as heard (FinalizeTextResponse).
DeliverEarly(s) ==
    /\ turn[s].pc = "deliver" /\ turn[s].early
    /\ IF orch[s].turn = 0 THEN UNCHANGED store ELSE Persist(s, orch[s])
    /\ turn' = [turn EXCEPT ![s] = Over(s, "idle")]
    /\ UNCHANGED <<prewarm, warm, orch, previous>>

DeliverAudio(s) ==
    /\ turn[s].pc = "deliver" /\ ~ turn[s].early
    /\ orch' = Playing(s)
    /\ turn' = [turn EXCEPT ![s] = Over(s, "idle")]
    /\ UNCHANGED <<store, prewarm, warm, previous>>

DeliverText(s) ==
    /\ turn[s].pc = "deliver" /\ ~ turn[s].early
    /\ Finish(s, "all", TRUE)
    /\ turn' = [turn EXCEPT ![s] = Over(s, "idle")]
    /\ UNCHANGED <<prewarm, warm>>

\* ObservePlaybackChunk does not persist.
PlayChunk(s) ==
    /\ orch[s].playing /\ orch[s].heard = "none" /\ turn[s].pc # "ended"
    /\ orch' = [orch EXCEPT ![s].heard = "part"]
    /\ UNCHANGED <<store, prewarm, warm, turn, previous>>

\* The output goroutine: the speech of an early response ends after the executor has
\* returned, which need not be after the read loop has noticed.
CompletePlayback(s) ==
    /\ orch[s].playing /\ turn[s].pc \in {"prepare", "deliver", "idle"}
    /\ Finish(s, "all", TRUE)
    /\ UNCHANGED <<prewarm, warm, turn>>

\* The read loop, when the user interrupts.
InterruptPlayback(s) ==
    /\ orch[s].playing /\ turn[s].pc = "idle"
    /\ Finish(s, orch[s].heard, FALSE)
    /\ UNCHANGED <<prewarm, warm, turn>>

-----------------------------------------------------------------------------
(* maybePrewarm and PrewarmTurn, in a goroutine of their own.  The metadata *)
(* of a prewarm is about the preview only: its signature is empty.          *)

LaunchPrewarm(s, text) ==
    /\ s \in Voice /\ turn[s].pc = "idle" /\ warm[s].pc = "none" /\ warm[s].last # text
    /\ warm' = [warm EXCEPT ![s] = [pc |-> "load", last |-> text,
                                    candidate |-> [NoCandidate EXCEPT !.text = text]]]
    /\ UNCHANGED <<store, prewarm, turn, orch, previous>>

PrewarmLoad(s) ==
    /\ warm[s].pc = "load"
    /\ warm' = [warm EXCEPT ![s].pc = "store", ![s].candidate.context = LoadTurnContext(s)]
    /\ UNCHANGED <<store, prewarm, turn, orch, previous>>

PrewarmStore(s) ==
    /\ warm[s].pc = "store"
    /\ prewarm' = [prewarm EXCEPT ![s] = warm[s].candidate]
    /\ warm' = [warm EXCEPT ![s].pc = "none", ![s].candidate = NoCandidate]
    /\ UNCHANGED <<store, turn, orch, previous>>

-----------------------------------------------------------------------------

\* The calls of one answer.
CallLists == UNION {[1 .. n -> DOMAIN Catalog] : n \in 0 .. MaxCalls}

Execute(s) ==
    \/ \E expired \in BOOLEAN : Consume(s, expired)
    \/ Load(s) \/ Bootstrap(s) \/ ToModel(s) \/ ModelFails(s) \/ InvokeTool(s)
    \/ \E piece \in {0, 1}, calls \in CallLists : ModelStep(s, piece, calls)
    \/ SaveOutput(s) \/ PrepareAgain(s)
    \/ DeliverEarly(s) \/ DeliverAudio(s) \/ DeliverText(s)

Next ==
    \E s \in Sessions :
        \/ \E text \in Texts, spoken \in BOOLEAN : BeginTurn(s, text, spoken)
        \/ Execute(s)
        \/ StartEarlyAudio(s) \/ PlayChunk(s) \/ CompletePlayback(s) \/ InterruptPlayback(s)
        \/ \E text \in Prefixes : LaunchPrewarm(s, text)
        \/ PrewarmLoad(s) \/ PrewarmStore(s)

Spec == Init /\ [][Next]_vars

\* The model and the tools answer, and the read loop runs.
FairSpec == Spec /\ \A s \in Sessions : WF_vars(Execute(s))

-----------------------------------------------------------------------------
(* Properties.                                                              *)

\* However often the orchestrator, the executor and the output goroutine save a turn, a
\* scope holds it once, and a session's turns stand in the order they were made.
OneRecordPerTurn ==
    /\ \A k \in Scopes : \A i, j \in DOMAIN store[k] :
         i # j => store[k][i].turn # store[k][j].turn
    /\ \A s \in Sessions : \A i, j \in DOMAIN store[s] :
         i < j => store[s][i].turn < store[s][j].turn

\* A prewarm may be read long before it is used, and stored after the turn it was meant
\* for.  A turn that uses one still knows every earlier turn of its session.
PrewarmHidesNothing ==
    \A s \in Sessions : turn[s].hit /\ turn[s].pc \in Executing =>
        \A i \in DOMAIN store[s] :
            store[s][i].turn \in ContextTurns(turn[s].context) \cup {turn[s].id}

\* When the model is asked again, each of its calls has been answered in order, by the
\* tool it meant.
ToolsAnswered ==
    \A s \in Sessions : turn[s].pc = "model" =>
        /\ Len(turn[s].answers) = Len(turn[s].asked)
        /\ \A i \in DOMAIN turn[s].asked :
             /\ turn[s].answers[i].id = i
             /\ turn[s].answers[i].tool = Catalog[turn[s].asked[i]].name

\* What memory keeps as the answer of a turn is what was said in it, over all the steps
\* of the loop.
SaidIsSaved ==
    \A s \in Sessions : turn[s].pc \in {"deliver", "idle"} =>
        \A k \in {s, Device} : \A i \in DOMAIN store[k] :
            store[k][i].turn = turn[s].id => store[k][i].response = turn[s].said

\* A turn ends, in an answer or in an error, however many tools the model asks for.
TurnReturns ==
    \A s \in Sessions : turn[s].pc \in Executing ~> turn[s].pc \in {"idle", "ended"}

\* What the architecture guide says: control commands are not kept in turn memory.
CommandsLeaveNoTrace ==
    \A k \in Scopes : \A i \in DOMAIN store[k] : ~ store[k][i].command

\* What the voice ADR says: what the user heard of a response is persisted.  It is not
\* lost again.
HeardStays ==
    [][ \A s \in Sessions : \A i \in DOMAIN store[s], j \in DOMAIN store'[s] :
          store[s][i].turn = store'[s][j].turn /\ store[s][i].heard # "none" =>
              store'[s][j].heard # "none" ]_vars

\* What the architecture guide says of the memory of a device: a new session's first
\* turn finds it.
DeviceIsRemembered ==
    \A s \in Sessions :
        turn[s].pc = "model" /\ Len(store[Device]) > Len(store[s]) /\ Len(store[s]) = 1 =>
            ContextTurns(turn[s].context) \ {turn[s].id} # {}
=============================================================================
