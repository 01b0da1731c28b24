---------------------------- MODULE DeltaWindow ----------------------------
(***************************************************************************)
(* The delta history of engine.GlobalOrdering.  Model and tool deltas      *)
(* share ConversationDeltaBuffer; a response and a tool batch are each a   *)
(* window (start, count) into it.  Every tick accepts one delta, writes it *)
(* (UpdateWorldHistory), trims and compacts the settled prefix             *)
(* (settleHistory), and lets the subsystems move the model window.         *)
(*                                                                         *)
(* The responses, batches and user turns that reach the ticks are the      *)
(* environment: in a turn-based loop one response or one batch is live at  *)
(* a time, in a duplex session they overlap.  Indices are the code's: 0    *)
(* is the first delta of the buffer.                                       *)
(***************************************************************************)
EXTENDS Integers, Sequences, SequencesExt

CONSTANTS
    SettledHistoryLimit,    \* the code's 4096
    SystemDeltas,           \* deltas of the system prompt that seeds history
    MaxDeltas,              \* bound on the accepted deltas
    MaxStream,              \* bound on the deltas of one response or batch
    MaxControls             \* bound on interrupts and calls of Execute

ASSUME WindowAssumption ==
    /\ {SettledHistoryLimit, SystemDeltas, MaxDeltas, MaxControls} \subseteq Nat
    /\ MaxStream \in Nat \ {0}

ModelKind == {"part", "end", "ack"}
ToolKind == {"start", "part", "end", "err"}

(* A delta: its actor, its kind, its GlobalIndex, and whether it still has *)
(* its audio.                                                              *)
Delta == [actor : {"model", "tool", "user"}, kind : ModelKind \cup ToolKind,
          id : 0..MaxDeltas, pcm : BOOLEAN]

VARIABLES
    mode,           \* "turn" or "duplex"
    loop,           \* "running" or "stopped"
    h,              \* the delta history and its windows
    modelLive,      \* turn-based: a response is expected
    batches,        \* tool batches whose deltas are still accepted
    toolOpen,       \* MESSAGE.START of the first of them was accepted
    nextID,         \* NextGlobalIndex
    controls,       \* interrupts and calls of Execute so far
    \* the inputs of the latest tick, and what it made of them
    modelInput, toolInput,  \* the delta the latest tick accepted, if any
    modelMade, toolMade     \* the deltas it rebuilt a message from, if any

envVars == <<modelLive, batches, toolOpen, controls>>
tickVars == <<modelInput, toolInput, modelMade, toolMade>>
vars == <<mode, loop, h, envVars, nextID, tickVars>>

Fresh(actor, kind) == [actor |-> actor, kind |-> kind, id |-> nextID, pcm |-> TRUE]

Init ==
    /\ mode \in {"turn", "duplex"}
    /\ loop = IF mode = "turn" THEN "stopped" ELSE "running"
    /\ h = [buffer |-> [i \in 1..SystemDeltas |->
                           [actor |-> "user", kind |-> "part", id |-> 0, pcm |-> TRUE]],
            modelStart |-> 0, modelCount |-> 0,
            toolStart |-> 0, toolCount |-> 0, toolBatchActive |-> FALSE,
            settledCompacted |-> 0]
    /\ modelLive = (mode = "duplex") /\ batches = 0 /\ toolOpen = FALSE
    /\ nextID = 1 /\ controls = 0
    /\ modelInput = <<>> /\ toolInput = <<>>
    /\ modelMade = <<>> /\ toolMade = <<>>

-----------------------------------------------------------------------------
(* Operations on the history record g                                      *)

(* modelDeltasForCurrentResponse and toolDeltasForCurrentBatch.            *)
Slice(g, start, count) ==
    IF start + count <= Len(g.buffer)
    THEN SubSeq(g.buffer, start + 1, start + count) ELSE <<>>

ModelWindow(g) == Slice(g, g.modelStart, g.modelCount)
ToolWindow(g) == Slice(g, g.toolStart, g.toolCount)

IsModelHistoryDelta(d) == d.actor = "model"

(* dropStaleModelDeltas                                                    *)
DropStaleModelDeltas(g) ==
    LET end == g.modelStart + g.modelCount
        stale == {i \in (end + 1)..Len(g.buffer) : IsModelHistoryDelta(g.buffer[i])}
        rest == SubSeq(g.buffer, end + 1, Len(g.buffer))
    IN IF stale = {} THEN g
       ELSE [g EXCEPT
               !.buffer = SubSeq(g.buffer, 1, end)
                          \o SelectSeq(rest, LAMBDA d : ~IsModelHistoryDelta(d)),
               !.toolStart = @ - Cardinality({i \in stale : i <= g.toolStart})]

(* Mutant: a model delta inserted before the batch does not move it.       *)
ShiftNothing(g, insertedAt) == g

(* shiftToolDeltaStart                                                     *)
ShiftToolDeltaStart(g, insertedAt) ==
    IF (g.toolBatchActive \/ g.toolCount > 0) /\ insertedAt <= g.toolStart
    THEN [g EXCEPT !.toolStart = @ + 1] ELSE g

(* Mutant: the model delta is appended after whatever the buffer holds.    *)
AppendModelDelta(g, d) ==
    [g EXCEPT !.buffer = Append(@, d), !.modelCount = @ + 1]

(* UpdateWorldHistory for a model delta: it continues its window, before   *)
(* any tool deltas that follow the window.                                 *)
WriteModelDelta(g, d) ==
    LET idx == g.modelStart + g.modelCount
        written ==
          IF idx >= Len(g.buffer)
          THEN [g EXCEPT !.buffer = Append(@, d)]
          ELSE IF IsModelHistoryDelta(g.buffer[idx + 1])
          THEN [g EXCEPT !.buffer[idx + 1] = d]
          ELSE ShiftToolDeltaStart([g EXCEPT !.buffer = InsertAt(@, idx + 1, d)], idx)
    IN DropStaleModelDeltas([written EXCEPT !.modelCount = @ + 1])

(* UpdateWorldHistory for a tool delta.                                    *)
WriteToolDelta(g, d) ==
    [g EXCEPT !.buffer = Append(@, d), !.toolCount = @ + 1]

(* Mutant: a batch in progress does not hold back the settled prefix.      *)
SettledPastBatch(g) == Min({g.modelStart, Len(g.buffer)})

(* The prefix no live window can still need.                               *)
Settled(g) ==
    LET s == Min({g.modelStart, Len(g.buffer)}) IN
    IF g.toolBatchActive THEN Min({s, g.toolStart}) ELSE s

(* Mutant: the window of a batch that is over moves like a live one.       *)
DropMovingAny(g, n) ==
    [g EXCEPT
       !.buffer = SubSeq(@, n + 1, Len(@)),
       !.modelStart = @ - n,
       !.settledCompacted = @ - n,
       !.toolStart = @ - n]

(* The oldest n deltas go, and every index moves with the rest.            *)
Drop(g, n) ==
    [g EXCEPT
       !.buffer = SubSeq(@, n + 1, Len(@)),
       !.modelStart = @ - n,
       !.settledCompacted = @ - n,
       !.toolStart = IF @ >= n THEN @ - n ELSE 0,
       !.toolCount = IF g.toolStart >= n THEN @ ELSE 0]

(* settleHistory: settled deltas lose their audio, and a settled prefix    *)
(* past the limit loses its oldest half.                                   *)
SettleHistory(g) ==
    LET settled == Settled(g)
        compacted ==
          [g EXCEPT
             !.buffer = [i \in DOMAIN @ |->
                IF i > g.settledCompacted /\ i <= settled
                THEN [@[i] EXCEPT !.pcm = FALSE] ELSE @[i]],
             !.settledCompacted = IF @ > settled THEN @ ELSE settled]
    IN IF settled <= SettledHistoryLimit THEN compacted
       ELSE Drop(compacted, settled - SettledHistoryLimit \div 2)

(* resetModelDeltaWindow                                                   *)
ResetModelDeltaWindow(g) ==
    [g EXCEPT !.modelStart = Len(g.buffer), !.modelCount = 0]

-----------------------------------------------------------------------------
(* Ticks                                                                   *)

(* A tick without a delta.                                                 *)
NoInput ==
    /\ modelInput' = <<>> /\ toolInput' = <<>>
    /\ modelMade' = <<>> /\ toolMade' = <<>>

(* A tick that accepts a model delta; MaxStream bounds the response.       *)
ReadModel(kind) ==
    /\ loop = "running" /\ modelLive /\ nextID <= MaxDeltas
    /\ modelInput' = <<Fresh("model", kind)>> /\ toolInput' = <<>>
    /\ toolMade' = <<>>
    /\ nextID' = nextID + 1
    /\ UNCHANGED <<mode, loop, controls, toolOpen>>

TickModelPart ==
    /\ ReadModel("part") /\ h.modelCount < MaxStream
    /\ modelMade' = <<>>
    /\ h' = SettleHistory(WriteModelDelta(h, modelInput'[1]))
    /\ UNCHANGED <<modelLive, batches>>

(* Acknowledgement output is forwarded and never kept.                     *)
TickModelAck ==
    /\ ReadModel("ack") /\ mode = "duplex"
    /\ modelMade' = <<>>
    /\ h' = SettleHistory(h)
    /\ UNCHANGED <<modelLive, batches>>

(* REASONING.END and MESSAGE.END rebuild a message; dispatchModelOutputs   *)
(* then resets the window.                                                 *)
Rebuild ==
    /\ modelMade' = Append(ModelWindow(h), modelInput'[1])
    /\ h' = ResetModelDeltaWindow(SettleHistory(WriteModelDelta(h, modelInput'[1])))

TickReasoningEnd ==
    /\ ReadModel("part")
    /\ Rebuild
    /\ UNCHANGED <<modelLive, batches>>

(* A response with tool calls dispatches a batch.                          *)
TickModelCalls ==
    /\ ReadModel("end") /\ batches < 2
    /\ Rebuild
    /\ batches' = batches + 1
    /\ modelLive' = (mode = "duplex")

(* A final response ends a turn-based turn.                                *)
TickModelFinal ==
    /\ ReadModel("end")
    /\ Rebuild
    /\ modelLive' = (mode = "duplex")
    /\ UNCHANGED batches

(* A terminal ERROR truncates the buffer at the response and ends the      *)
(* loop; UpdateWorldHistory does not run.                                  *)
TickModelError ==
    /\ loop = "running" /\ modelLive
    /\ h' = [h EXCEPT !.buffer = SubSeq(@, 1, Min({h.modelStart, Len(@)})),
                      !.modelCount = 0]
    /\ loop' = "stopped"
    /\ batches' = 0 /\ toolOpen' = FALSE /\ modelLive' = FALSE
    /\ NoInput
    /\ UNCHANGED <<mode, controls, nextID>>

ReadTool(kind) ==
    /\ loop = "running" /\ batches > 0 /\ nextID <= MaxDeltas
    /\ toolInput' = <<Fresh("tool", kind)>> /\ modelInput' = <<>>
    /\ modelMade' = <<>>
    /\ nextID' = nextID + 1
    /\ UNCHANGED <<mode, loop, controls>>


(* Mutant: the count of the batch before is kept.                          *)
OpenBatchKeepingCount(g) ==
    [g EXCEPT !.toolStart = Len(g.buffer), !.toolBatchActive = TRUE]

(* MESSAGE.START of a batch marks where its deltas begin.                  *)
OpenBatch(g) ==
    [g EXCEPT !.toolStart = Len(g.buffer), !.toolCount = 0, !.toolBatchActive = TRUE]

TickToolStart ==
    /\ ~toolOpen /\ ReadTool("start")
    /\ h' = SettleHistory(WriteToolDelta(OpenBatch(h), toolInput'[1]))
    /\ toolOpen' = TRUE /\ toolMade' = <<>>
    /\ UNCHANGED <<modelLive, batches>>

TickToolPart ==
    /\ toolOpen /\ ReadTool("part") /\ h.toolCount < MaxStream
    /\ h' = SettleHistory(WriteToolDelta(h, toolInput'[1]))
    /\ toolMade' = <<>>
    /\ UNCHANGED <<modelLive, batches, toolOpen>>

(* MESSAGE.END of a batch, which has a result; if one is rebuilt,          *)
(* dispatchToolOutputs resets the model window for the continuation.       *)
TickToolEnd ==
    LET ended == SettleHistory(WriteToolDelta(
                    [h EXCEPT !.toolBatchActive = FALSE], toolInput'[1]))
        results == \E d \in ToSet(ToolWindow(h)) : d.actor = "tool" /\ d.kind = "part"
    IN
    /\ toolOpen /\ ReadTool("end") /\ h.toolCount > 1
    /\ toolMade' = Append(ToolWindow(h), toolInput'[1])
    /\ h' = IF results THEN ResetModelDeltaWindow(ended) ELSE ended
    /\ batches' = batches - 1 /\ toolOpen' = FALSE /\ modelLive' = TRUE

(* A failed batch is one nonterminal ERROR; it ends a turn-based turn.     *)
TickToolError ==
    /\ ~toolOpen /\ ReadTool("err")
    /\ h' = SettleHistory(WriteToolDelta(h, toolInput'[1]))
    /\ batches' = batches - 1 /\ toolMade' = <<>>
    /\ UNCHANGED <<modelLive, toolOpen>>

(* A user turn while nothing is open starts a response.  In a duplex       *)
(* session a turn that is held resets nothing, but its new pass retires    *)
(* the batches under way.                                                  *)
TickUser ==
    /\ loop = "running" /\ batches = 0
    /\ mode = "turn" => ~modelLive
    /\ h' = ResetModelDeltaWindow(SettleHistory(h))
    /\ modelLive' = TRUE
    /\ NoInput
    /\ UNCHANGED <<mode, loop, batches, toolOpen, controls, nextID>>

TickUserHeldDuplex ==
    /\ loop = "running" /\ mode = "duplex" /\ batches > 0
    /\ h' = SettleHistory(h)
    /\ batches' = 0 /\ toolOpen' = FALSE
    /\ NoInput
    /\ UNCHANGED <<mode, loop, modelLive, controls, nextID>>

(* InterruptHandler: the pass moves on, so the response and the batches    *)
(* under way are retired, and a new response starts.                       *)
TickInterrupt ==
    /\ loop = "running" /\ controls < MaxControls
    /\ controls' = controls + 1
    /\ h' = ResetModelDeltaWindow(SettleHistory(h))
    /\ modelLive' = TRUE /\ batches' = 0 /\ toolOpen' = FALSE
    /\ NoInput
    /\ UNCHANGED <<mode, loop, nextID>>

(* Execute on a loop that is not running: AddMessages appends the user     *)
(* message's deltas and the initial inference request resets the window.   *)
Execute ==
    /\ loop = "stopped" /\ mode = "turn" /\ controls < MaxControls
    /\ controls' = controls + 1
    /\ h' = ResetModelDeltaWindow([h EXCEPT !.buffer =
                                      Append(@, [Fresh("user", "part") EXCEPT !.id = 0])])
    /\ loop' = "running" /\ modelLive' = TRUE
    /\ NoInput
    /\ UNCHANGED <<mode, batches, toolOpen, nextID>>

(* The loop ends without an error: its turn is over, or it is cancelled.   *)
Stop ==
    /\ loop = "running" /\ loop' = "stopped"
    /\ modelLive' = FALSE /\ batches' = 0 /\ toolOpen' = FALSE
    /\ NoInput
    /\ UNCHANGED <<mode, h, controls, nextID>>

Next ==
    \/ TickModelPart \/ TickModelAck \/ TickReasoningEnd \/ TickModelCalls
    \/ TickModelFinal \/ TickModelError
    \/ TickToolStart \/ TickToolPart \/ TickToolEnd \/ TickToolError
    \/ TickUser \/ TickUserHeldDuplex \/ TickInterrupt \/ Execute \/ Stop

Spec == Init /\ [][Next]_vars
-----------------------------------------------------------------------------
(* Properties                                                              *)

TypeOK ==
    /\ mode \in {"turn", "duplex"} /\ loop \in {"running", "stopped"}
    /\ h.buffer \in Seq(Delta)
    /\ {h.modelStart, h.modelCount, h.toolStart, h.toolCount,
        h.settledCompacted} \subseteq Nat
    /\ h.modelStart + h.modelCount <= Len(h.buffer)
    /\ toolOpen => h.toolStart < Len(h.buffer)
    /\ {modelLive, toolOpen, h.toolBatchActive} \subseteq BOOLEAN
    /\ batches \in 0..2 /\ nextID \in 1..(MaxDeltas + 1)
    /\ controls \in 0..MaxControls
    /\ \A s \in {modelInput, toolInput, modelMade, toolMade} : s \in Seq(Delta)

DeltaOf(actor, kinds) ==
    [actor : {actor}, kind : kinds, id : 1..MaxDeltas, pcm : {TRUE}]

(* The response window implements a delta stream of its own: every         *)
(* response is rebuilt from exactly the model deltas accepted since the    *)
(* last boundary, audio included, although tool deltas share the buffer    *)
(* and its settled prefix is compacted and trimmed.                        *)
ModelStream == INSTANCE DeltaStream WITH
    Delta <- DeltaOf("model", {"part", "end"}), Aside <- DeltaOf("model", {"ack"}),
    window <- ModelWindow(h), accepted <- modelInput, made <- modelMade

ResponsesRebuiltWhole == ModelStream!Spec

TurnBased(s) == IF mode = "turn" THEN s ELSE <<>>

(* In a turn-based loop so does the batch window: tool results are rebuilt *)
(* from exactly the tool deltas of their batch, after interrupts, failed   *)
(* runs and reuse of the loop by Execute.                                  *)
ToolStream == INSTANCE DeltaStream WITH
    Delta <- DeltaOf("tool", {"start", "part", "end"}), Aside <- DeltaOf("tool", {"err"}),
    window <- TurnBased(IF toolOpen THEN ToolWindow(h) ELSE <<>>),
    accepted <- TurnBased(toolInput), made <- TurnBased(toolMade)

BatchesRebuiltWhole == ToolStream!Spec

IsBatch(w) ==
    /\ w # <<>> /\ w[1].kind = "start"
    /\ \A i \in DOMAIN w : w[i].actor = "tool" /\ w[i].pcm
    /\ \A i \in 2..Len(w) : w[i].kind \in {"part", "end"} /\ w[i].id > w[i - 1].id

(* In either mode the open batch keeps its deltas in one piece as long as  *)
(* no response boundary has fallen inside it: model deltas are inserted    *)
(* before it and move it as a whole, and trimming leaves it alone.         *)
OpenBatchInOnePiece ==
    toolOpen /\ h.modelStart <= h.toolStart =>
        IsBatch(ToolWindow(h)) /\ Len(ToolWindow(h)) = h.toolCount

(* Tool results are rebuilt from tool deltas of one batch only: what       *)
(* UpdateWorldHistory's comment promises of every tool batch.              *)
ToolMessageWhole == toolMade = <<>> \/ IsBatch(toolMade)

(* The settled history before the next response is within the limit.       *)
HistoryBounded ==
    ~h.toolBatchActive /\ h.modelCount > 0 => h.modelStart <= SettledHistoryLimit

(* The compacted prefix has no audio left and ends before both windows.    *)
CompactedPrefix ==
    /\ h.settledCompacted <= Len(h.buffer)
    /\ h.settledCompacted <= h.modelStart
    /\ toolOpen => h.settledCompacted <= h.toolStart
    /\ \A i \in 1..h.settledCompacted : ~h.buffer[i].pcm

(* settleHistory keeps a long session small without touching what is still *)
(* needed: outside a batch the settled history is bounded once the next    *)
(* response has begun, its audio is gone, and neither audio nor delta of a *)
(* message that is still to be rebuilt is lost with it.                    *)
HistorySettled == HistoryBounded /\ CompactedPrefix
=============================================================================
