------------------------------ MODULE TurnLoop ------------------------------
(***************************************************************************)
(* The conversation core of go-agent-loop: the engine's tick goroutine     *)
(* (engine.GlobalOrdering, then the subsystems InterruptHandler,           *)
(* Coordinator and CoordinatorDelta), the ModelRunner, the ToolRunner and  *)
(* the caller that sends user turns.                                       *)
(*                                                                         *)
(* One tick takes one item from one participant's outbox and runs every    *)
(* subsystem over it under loopMu, so a tick is one action.  The runners   *)
(* are goroutines of their own; each of their channel operations is one    *)
(* action.  A message is its role, the user turn or tool call it is about, *)
(* and the tool calls it makes; a delta is its pass, its kind and the call *)
(* it completes.                                                           *)
(***************************************************************************)
EXTENDS Naturals, Sequences, FiniteSets, SequenceFilter

CONSTANTS
    Duplex,         \* LoopState.Mode = DuplexSession
    Shapes,         \* the model's possible responses, as sequences of part kinds
    RepeatIDs,      \* the provider may repeat call IDs it already used
    ToolsMayFail,   \* a tool may return an error without being cancelled
    MaxTurns,       \* bound on the user turns sent
    MaxInterrupts,  \* bound on the calls of SendInterrupt
    MaxCalls,       \* bound on the distinct tool call IDs
    MaxReplies,     \* bound on the responses of a duplex provider
    OutCap,         \* capacity of both DeltaOutboxes
    InboxCap,       \* capacity of ModelInbox
    ToolCap         \* capacity of ToolInbox

PartKind == {"start", "text", "think", "rend", "call", "end", "err"}

NumCalls(shape) == Cardinality({i \in DOMAIN shape : shape[i] = "call"})

(* A response ends with its first MESSAGE.END or terminal ERROR, and some  *)
(* response makes no call, so the bound on calls never stops the model.    *)
ASSUME TurnAssumption ==
    /\ {Duplex, RepeatIDs, ToolsMayFail} \subseteq BOOLEAN
    /\ {MaxTurns, MaxInterrupts, MaxCalls, MaxReplies} \subseteq Nat
    /\ {OutCap, InboxCap, ToolCap} \subseteq Nat \ {0}
    /\ \A s \in Shapes :
         /\ s \in Seq(PartKind) /\ s # <<>>
         /\ \A i \in DOMAIN s : s[i] \in {"end", "err"} <=> i = Len(s)
    /\ \E s \in Shapes : NumCalls(s) = 0

VARIABLES
    \* LoopState.History and the coordinator's fields
    hist,           \* ConversationBuffer
    held,           \* HeldUserMessages
    passID,         \* CurrentPassID
    window,         \* the model deltas from ModelDeltaStartIndex
    toolWin,        \* the tool deltas from ToolDeltaStartIndex
    open,           \* modelResponseOpen
    outstanding,    \* toolBatchesOutstanding
    needsInf,       \* heldTurnNeedsInference
    kernel,         \* the full messages recorded on the kernel stream
    engine,         \* "running", or how the hot loop ended
    \* the channels
    modelInbox, modelOut,
    toolInbox,      \* with the batch a blocked tick waits to write, if any
    toolOut, userOut,
    \* the runners and the environment
    model,          \* the ModelRunner's goroutine
    tool,           \* the ToolRunner's goroutine
    nextTurn, interrupts, nextCall, replies,
    \* history variables
    seen,           \* calls of the model deltas the engine accepted
    asked,          \* user turns of the last inference request
    settled,        \* user turns whose exchange ended: with a final response,
                    \* or with the turn end that a failed tool causes
    begun,          \* calls given to the tool executor, in order
    dropped         \* calls whose results were dropped as stale

convVars == <<hist, held, passID, window, toolWin, open, outstanding,
              needsInf, kernel>>
modelVars == <<modelInbox, modelOut, model, nextCall, replies>>
toolVars == <<toolInbox, toolOut, tool, begun>>
userVars == <<userOut, nextTurn, interrupts>>
traceVars == <<seen, asked, settled, dropped>>
vars == <<convVars, engine, modelVars, toolVars, userVars, traceVars>>

User(t) == [role |-> "user", id |-> t, calls |-> <<>>]
Assistant(cs) == [role |-> "assistant", id |-> 0, calls |-> cs]
Result(c) == [role |-> "tool", id |-> c, calls |-> <<>>]
Cancelled(c) == [role |-> "cancelled", id |-> c, calls |-> <<>>]

Map(Op(_), s) == [i \in DOMAIN s |-> Op(s[i])]

IsUser(m) == m.role = "user"
IsResult(m) == m.role \in {"tool", "cancelled"}
Id(m) == m.id
UserIds(h) == Map(Id, Only(h, {m \in Elems(h) : IsUser(m)}))

IsCall(d) == d.kind = "call"
CallOf(d) == d.call

(* ReconstructModelMessageFromDeltas, as far as tool calls go.             *)
CallsIn(w) == Map(CallOf, Only(w, {d \in Elems(w) : IsCall(d)}))

NoModel == [pc |-> "idle", pass |-> 0, todo |-> <<>>]
NoTool == [pc |-> "idle", pass |-> 0, calls |-> <<>>, todo |-> <<>>,
           cancelled |-> FALSE]

Init ==
    /\ hist = <<>> /\ held = <<>> /\ kernel = <<>>
    /\ passID = 0 /\ window = <<>> /\ toolWin = <<>>
    /\ open = FALSE /\ outstanding = 0 /\ needsInf = FALSE
    /\ engine = "running"
    /\ modelInbox = <<>> /\ modelOut = <<>> /\ model = NoModel
    /\ toolInbox = <<>> /\ toolOut = <<>> /\ tool = NoTool
    /\ userOut = <<>> /\ nextTurn = 0 /\ interrupts = 0
    /\ nextCall = 0 /\ replies = 0
    /\ seen = {} /\ asked = {} /\ settled = {} /\ begun = <<>>
    /\ dropped = {}

-----------------------------------------------------------------------------
(* The caller: AgentLoop.Send, SendInterrupt and the session close control *)

Send ==
    /\ engine = "running" /\ nextTurn < MaxTurns
    /\ nextTurn' = nextTurn + 1
    /\ userOut' = Append(userOut, [kind |-> "turn", id |-> nextTurn + 1])
    /\ UNCHANGED <<convVars, engine, modelVars, toolVars, interrupts, traceVars>>

(* The follow-up, if any, is the next user turn; id 0 is a bare interrupt. *)
SendInterrupt ==
    /\ engine = "running" /\ ~Duplex /\ interrupts < MaxInterrupts
    /\ interrupts' = interrupts + 1
    /\ \/ /\ userOut' = Append(userOut, [kind |-> "interrupt", id |-> 0])
          /\ UNCHANGED nextTurn
       \/ /\ nextTurn < MaxTurns
          /\ nextTurn' = nextTurn + 1
          /\ userOut' = Append(userOut, [kind |-> "interrupt", id |-> nextTurn + 1])
    /\ UNCHANGED <<convVars, engine, modelVars, toolVars, traceVars>>

SendClose ==
    /\ engine = "running" /\ Duplex
    /\ \A i \in DOMAIN userOut : userOut[i].kind # "close"
    /\ userOut' = Append(userOut, [kind |-> "close", id |-> 0])
    /\ UNCHANGED <<convVars, engine, modelVars, toolVars, nextTurn, interrupts,
                   traceVars>>

-----------------------------------------------------------------------------
(* The ModelRunner                                                         *)

(* The deltas of a response whose tool calls are base+1, base+2, ...       *)
Response(pass, shape, base) ==
    [i \in DOMAIN shape |->
        [pass |-> pass, kind |-> shape[i],
         call |-> IF shape[i] = "call"
                  THEN base + NumCalls(SubSeq(shape, 1, i))
                  ELSE 0]]

(* The provider answers with some response, on new call IDs or old ones.   *)
Answer(pass, pc) ==
    \E shape \in Shapes :
      \E base \in IF RepeatIDs THEN 0..nextCall ELSE {nextCall} :
        LET last == base + NumCalls(shape) IN
        /\ last <= MaxCalls
        /\ nextCall' = IF last > nextCall THEN last ELSE nextCall
        /\ model' = [pc |-> pc, pass |-> pass, todo |-> Response(pass, shape, base)]

(* runInference reads a request; until it has stored execCancel an         *)
(* interrupt cannot cancel the execution.                                  *)
ModelTake ==
    /\ ~Duplex /\ engine = "running" /\ model.pc = "idle" /\ modelInbox # <<>>
    /\ modelInbox' = Tail(modelInbox)
    /\ Answer(Head(modelInbox).pass, "taken")
    /\ UNCHANGED <<convVars, engine, modelOut, replies, toolVars, userVars,
                   traceVars>>

ModelArm ==
    /\ engine = "running" /\ model.pc = "taken"
    /\ model' = [model EXCEPT !.pc = "stream"]
    /\ UNCHANGED <<convVars, engine, modelInbox, modelOut, nextCall, replies,
                   toolVars, userVars, traceVars>>

(* Mutant: writeDelta does not wait for capacity.                          *)
ModelEmitPastCap ==
    /\ engine = "running" /\ model.pc = "stream"
    /\ modelOut' = Append(modelOut, Head(model.todo))
    /\ model' = IF Len(model.todo) = 1
                THEN NoModel
                ELSE [model EXCEPT !.todo = Tail(model.todo)]
    /\ UNCHANGED <<convVars, engine, modelInbox, nextCall, replies, toolVars,
                   userVars, traceVars>>

(* drainStream and emitSyntheticDeltas: writeDelta waits for capacity.     *)
ModelEmit ==
    /\ engine = "running" /\ model.pc = "stream" /\ Len(modelOut) < OutCap
    /\ modelOut' = Append(modelOut, Head(model.todo))
    /\ model' = IF Len(model.todo) = 1
                THEN NoModel
                ELSE [model EXCEPT !.todo = Tail(model.todo)]
    /\ UNCHANGED <<convVars, engine, modelInbox, nextCall, replies, toolVars,
                   userVars, traceVars>>

(* In a duplex session the runner forwards the request to the provider,    *)
(* which responds when it likes; session deltas carry no pass.             *)
SessionTake ==
    /\ Duplex /\ engine = "running" /\ modelInbox # <<>>
    /\ modelInbox' = Tail(modelInbox)
    /\ UNCHANGED <<convVars, engine, modelOut, model, nextCall, replies, toolVars,
                   userVars, traceVars>>

SessionRespond ==
    /\ Duplex /\ engine = "running" /\ model.pc = "idle" /\ replies < MaxReplies
    /\ replies' = replies + 1
    /\ Answer(0, "stream")
    /\ UNCHANGED <<convVars, engine, modelInbox, modelOut, toolVars, userVars,
                   traceVars>>

(* CancelCurrentExecution of the model.  drainStream then writes a         *)
(* terminal ERROR, after the delta it may already be writing.              *)
CancelModel ==
    IF model.pc # "stream" THEN UNCHANGED model
    ELSE LET head == Head(model.todo)
             err == [pass |-> model.pass, kind |-> "err", call |-> 0]
         IN model' \in {[model EXCEPT !.todo = <<err>>],
                        [model EXCEPT !.todo = IF Len(model.todo) = 1
                                               THEN <<head>>
                                               ELSE <<head, err>>]}

-----------------------------------------------------------------------------
(* The ToolRunner                                                          *)

ToolTake ==
    /\ engine = "running" /\ tool.pc = "idle" /\ toolInbox # <<>>
    /\ toolInbox' = Tail(toolInbox)
    /\ tool' = [NoTool EXCEPT !.pc = "taken", !.pass = Head(toolInbox).pass,
                              !.calls = Head(toolInbox).calls]
    /\ UNCHANGED <<convVars, engine, modelVars, toolOut, begun, userVars,
                   traceVars>>

(* Mutant: every call is admitted, whatever ran before.                    *)
AdmitAll(calls) == calls

(* admitCalls: a call ID reaches the executor once.                        *)
AdmitCalls(calls) == Only(calls, Elems(calls) \ Elems(begun))

CancelledIn(h) == {m.id : m \in {x \in Elems(h) : x.role = "cancelled"}}

(* Tick stores execCancel and executeBatch starts the admitted calls.      *)
(* A batch with none returns at once and emits nothing.                    *)
ToolStart ==
    LET calls == AdmitCalls(tool.calls) IN
    /\ engine = "running" /\ tool.pc = "taken"
    /\ tool' = IF calls = <<>> THEN NoTool
               ELSE [tool EXCEPT !.pc = "run", !.calls = calls]
    /\ begun' = begun \o calls
    /\ UNCHANGED <<convVars, engine, modelVars, toolInbox, toolOut, userVars,
                   traceVars>>

ToolDelta(k, c) == [pass |-> tool.pass, kind |-> k, call |-> c]

(* Every call returned: emitResultDeltas writes one delta per result       *)
(* between MESSAGE.START and MESSAGE.END.                                  *)
ToolReturn ==
    /\ engine = "running" /\ tool.pc = "run"
    /\ tool' = [tool EXCEPT !.pc = "emit", !.todo =
                   <<ToolDelta("start", 0)>>
                   \o Map(LAMBDA c : ToolDelta("result", c), tool.calls)
                   \o <<ToolDelta("end", 0)>>]
    /\ UNCHANGED <<convVars, engine, modelVars, toolInbox, toolOut, begun,
                   userVars, traceVars>>

(* A call failed, or returned because its context was cancelled: one       *)
(* nonterminal ERROR stands for the batch.                                 *)
ToolFail ==
    /\ engine = "running" /\ tool.pc = "run"
    /\ ToolsMayFail \/ tool.cancelled
    /\ tool' = [tool EXCEPT !.pc = "emit", !.todo = <<ToolDelta("err", 0)>>]
    /\ UNCHANGED <<convVars, engine, modelVars, toolInbox, toolOut, begun,
                   userVars, traceVars>>

ToolEmit ==
    /\ engine = "running" /\ tool.pc = "emit" /\ Len(toolOut) < OutCap
    /\ toolOut' = Append(toolOut, Head(tool.todo))
    /\ tool' = IF Len(tool.todo) = 1
               THEN NoTool
               ELSE [tool EXCEPT !.todo = Tail(tool.todo)]
    /\ UNCHANGED <<convVars, engine, modelVars, toolInbox, begun, userVars,
                   traceVars>>

(* CancelCurrentExecution of the tools: a no-op unless a batch is running. *)
CancelTool ==
    tool' = IF tool.pc = "run" THEN [tool EXCEPT !.cancelled = TRUE] ELSE tool

-----------------------------------------------------------------------------
(* The tick goroutine                                                      *)

(* A tick runs unless the previous one still waits for ToolInbox capacity. *)
Ticking == engine = "running" /\ Len(toolInbox) <= ToolCap

(* Mutant: the ordering layer keeps deltas of superseded passes.           *)
StaleNever(d) == FALSE

Stale(d) == d.pass > 0 /\ d.pass < passID

(* ModelInbox.Write does not wait: a full inbox drops the request.         *)
Dispatch(conv, bare) ==
    /\ modelInbox' =
         IF Len(modelInbox) < InboxCap
         THEN Append(modelInbox, [pass |-> passID', conv |-> conv, bare |-> bare])
         ELSE modelInbox
    /\ asked' = Elems(UserIds(conv))

(* A request over what history holds after the tick.                       *)
DispatchInference(conv) == passID' = passID + 1 /\ Dispatch(conv, FALSE)

(* Mutants: the held turns are lost with the exchange they waited for; or  *)
(* the kernel stream does not record them.                                 *)
PlaceNothing(h, k) == hist' = h /\ kernel' = k /\ held' = <<>>
PlaceUnrecorded(h, k) == hist' = h \o held /\ kernel' = k /\ held' = <<>>

(* PlaceHeldUserMessages, after h in history and k on the kernel stream.   *)
PlaceHeld(h, k) ==
    /\ hist' = h \o held
    /\ kernel' = k \o held
    /\ held' = <<>>

KeepHeld(h, k) == hist' = h /\ kernel' = k /\ UNCHANGED held

(* Mutants: a user turn waits only for a streaming response, or only for a *)
(* tool batch.                                                             *)
HoldingResponseOnly(o, n) == o
HoldingBatchOnly(o, n) == n > 0

(* holdingUserTurns, for the given open and outstanding.                   *)
Holding(o, n) == o \/ n > 0

(* nextToolBatchPass and nextToolContinuationPass.                         *)
NextToolPass ==
    IF Duplex THEN IF passID = 0 THEN 1 ELSE passID ELSE passID + 1

ReadModel(kinds) ==
    /\ Ticking /\ modelOut # <<>> /\ ~Stale(Head(modelOut))
    /\ Head(modelOut).kind \in kinds
    /\ UNCHANGED <<model, nextCall, replies, toolOut, tool, begun, userVars,
                   dropped>>

(* consumeModelDelta drops a delta of a superseded pass.                   *)
TickStaleModel ==
    /\ Ticking /\ modelOut # <<>> /\ Stale(Head(modelOut))
    /\ modelOut' = Tail(modelOut)
    /\ UNCHANGED <<convVars, engine, modelInbox, model, nextCall, replies, toolVars,
                   userVars, traceVars>>

(* REASONING.END makes a message only of reasoning that the window holds.  *)
EndsReasoning(d) == d.kind = "rend" /\ \E e \in Elems(window) : e.kind = "think"

(* A content delta joins the response's window and opens the response.     *)
TickModelPart ==
    /\ ReadModel({"start", "text", "think", "rend", "call"})
    /\ ~EndsReasoning(Head(modelOut))
    /\ modelOut' = Tail(modelOut)
    /\ window' = Append(window, Head(modelOut))
    /\ open' = TRUE
    /\ seen' = seen \cup Elems(CallsIn(<<Head(modelOut)>>))
    /\ UNCHANGED <<hist, held, passID, toolWin, outstanding, needsInf, kernel,
                   engine, modelInbox, toolInbox, asked, settled>>

(* REASONING.END: the reasoning so far becomes a message of its own, and   *)
(* dispatchModelOutputs resets the window.                                 *)
TickReasoningEnd ==
    /\ ReadModel({"rend"}) /\ EndsReasoning(Head(modelOut))
    /\ modelOut' = Tail(modelOut)
    /\ KeepHeld(Append(hist, Assistant(<<>>)), Append(kernel, Assistant(<<>>)))
    /\ window' = <<>>
    /\ open' = TRUE
    /\ UNCHANGED <<passID, toolWin, outstanding, needsInf, engine, modelInbox,
                   toolInbox, seen, asked, settled>>

(* MESSAGE.END of a response with tool calls: the batch goes to the tool   *)
(* runner, the tick waiting for capacity.                                  *)
TickModelCalls ==
    LET calls == CallsIn(window) IN
    /\ ReadModel({"end"}) /\ calls # <<>>
    /\ modelOut' = Tail(modelOut)
    /\ KeepHeld(Append(hist, Assistant(calls)), Append(kernel, Assistant(calls)))
    /\ window' = <<>>
    /\ open' = FALSE
    /\ passID' = NextToolPass
    /\ toolInbox' = Append(toolInbox, [pass |-> passID', calls |-> calls])
    /\ outstanding' = outstanding + 1
    /\ UNCHANGED <<toolWin, needsInf, engine, modelInbox, seen, asked, settled>>

(* Mutant: a final response ends the turn although another one waits.      *)
ResumeNever == FALSE

(* The held turns are answered once the response they waited for is over.  *)
Resume == ~Holding(FALSE, outstanding) /\ held # <<>> /\ needsInf

(* MESSAGE.END of a final response.  Held turns that wait for nothing more *)
(* are placed and, turn-based, settled; otherwise a turn-based loop ends  *)
(* its turn, which places them too.                                        *)
TickModelFinal ==
    LET h == Append(hist, Assistant(<<>>))
        k == Append(kernel, Assistant(<<>>))
        waiting == Holding(FALSE, outstanding)
    IN
    /\ ReadModel({"end"}) /\ CallsIn(window) = <<>>
    /\ modelOut' = Tail(modelOut)
    /\ window' = <<>>
    /\ open' = FALSE
    /\ IF Duplex /\ waiting THEN KeepHeld(h, k) ELSE PlaceHeld(h, k)
    /\ IF Resume
       THEN needsInf' = FALSE /\ DispatchInference(hist')
       ELSE UNCHANGED <<needsInf, passID, modelInbox, asked>>
    /\ settled' = settled \cup asked
    /\ UNCHANGED <<toolWin, outstanding, engine, toolInbox, seen>>

(* Mutant: an exit outside a tick leaves the held turns where they are.    *)
SettleNothing == UNCHANGED <<hist, held, kernel>>

(* settleHeldUserMessages when the loop exits outside a tick: history      *)
(* gains the held turns, the kernel stream those it has room for.          *)
SettleHeld ==
    /\ hist' = hist \o held
    /\ held' = <<>>
    /\ \E kept \in SUBSET Elems(held) :
         kernel' = kernel \o Only(held, kept)

(* A terminal ERROR rolls the response back, drains the outbox and ends    *)
(* the hot loop.                                                           *)
TickModelError ==
    /\ ReadModel({"err"})
    /\ modelOut' = <<>>
    /\ window' = <<>>
    /\ engine' = "failed"
    /\ SettleHeld
    /\ UNCHANGED <<passID, toolWin, open, outstanding, needsInf, modelInbox,
                   toolInbox, seen, asked, settled>>

ReadTool(kinds) ==
    /\ Ticking /\ toolOut # <<>> /\ ~Stale(Head(toolOut))
    /\ Head(toolOut).kind \in kinds
    /\ toolOut' = Tail(toolOut)
    /\ UNCHANGED <<engine, modelOut, model, nextCall, replies, toolInbox, tool,
                   begun, userVars, seen, dropped>>

(* consumeToolDelta drops a delta of a superseded pass.                    *)
TickStaleTool ==
    /\ Ticking /\ toolOut # <<>> /\ Stale(Head(toolOut))
    /\ toolOut' = Tail(toolOut)
    /\ dropped' = IF Head(toolOut).kind = "result"
                  THEN dropped \cup {Head(toolOut).call} ELSE dropped
    /\ UNCHANGED <<convVars, engine, modelVars, toolInbox, tool, begun,
                   userVars, seen, asked, settled>>

(* MESSAGE.START opens the batch's window, a result joins it.              *)
TickToolPart ==
    /\ ReadTool({"start", "result"})
    /\ toolWin' = IF Head(toolOut).kind = "start" THEN <<>>
                  ELSE Append(toolWin, Head(toolOut))
    /\ UNCHANGED <<hist, held, passID, window, open, outstanding, needsInf, kernel,
                   modelInbox, asked, settled>>

(* MESSAGE.END of a batch: its results join history, held turns that wait  *)
(* for nothing more follow them, and a request for the continuation goes   *)
(* out; a duplex provider already has the held turns.                      *)
TickToolEnd ==
    LET results == Map(LAMBDA d : Result(d.call), toolWin)
        n == IF outstanding > 0 THEN outstanding - 1 ELSE 0
        place == ~Holding(open, n)
        h == hist \o results
    IN
    /\ ReadTool({"end"})
    /\ outstanding' = n
    /\ window' = <<>>
    /\ passID' = NextToolPass
    /\ IF place THEN PlaceHeld(h, kernel \o results)
                ELSE KeepHeld(h, kernel \o results)
    /\ needsInf' = IF place /\ held # <<>> THEN FALSE ELSE needsInf
    /\ Dispatch(IF Duplex THEN h ELSE hist', FALSE)
    /\ UNCHANGED <<toolWin, open, settled>>

(* A failed batch ends a turn-based turn and leaves a duplex session open. *)
TickToolError ==
    /\ ReadTool({"err"})
    /\ IF Duplex
       THEN KeepHeld(hist, kernel) /\ UNCHANGED settled
       ELSE /\ PlaceHeld(hist, kernel)
            /\ settled' = settled \cup asked \cup Elems(UserIds(held))
    /\ UNCHANGED <<passID, window, toolWin, open, outstanding, needsInf,
                   modelInbox, asked>>

ReadUser(kind) ==
    /\ Ticking /\ userOut # <<>> /\ Head(userOut).kind = kind
    /\ userOut' = Tail(userOut)
    /\ UNCHANGED <<engine, modelOut, nextCall, replies, toolInbox, toolOut, begun,
                   nextTurn, interrupts, seen, settled, dropped>>

(* dispatchUserOutputs while nothing is open.                              *)
TickUser ==
    LET m == User(Head(userOut).id) IN
    /\ ReadUser("turn") /\ ~Holding(open, outstanding)
    /\ KeepHeld(Append(hist, m), Append(kernel, m))
    /\ window' = <<>>
    /\ DispatchInference(hist')
    /\ UNCHANGED <<toolWin, open, outstanding, needsInf, model, tool>>

(* dispatchUserOutputs while a response or a batch is open.                *)
TickUserHeld ==
    /\ ReadUser("turn") /\ Holding(open, outstanding)
    /\ held' = Append(held, User(Head(userOut).id))
    /\ IF Duplex
       THEN DispatchInference(hist \o held') /\ UNCHANGED needsInf
       ELSE needsInf' = TRUE /\ UNCHANGED <<passID, modelInbox, asked>>
    /\ UNCHANGED <<hist, window, toolWin, open, outstanding, kernel, model, tool>>

(* Mutant: calls cut off by an interrupt get no results.                   *)
NoCancelledResults(h) == <<>>

(* cancelledToolResults: for the calls of the latest assistant message     *)
(* with calls that have no result after it, unless a user turn follows it. *)
CancelledResults(h) ==
    LET calling == {i \in DOMAIN h : h[i].calls # <<>>}
        latest == CHOOSE i \in calling : \A j \in calling : j <= i
        after == SubSeq(h, latest + 1, Len(h))
        done == {m.id : m \in {x \in Elems(after) : IsResult(x)}}
    IN IF calling = {} \/ \E m \in Elems(after) : IsUser(m) THEN <<>>
       ELSE Map(Cancelled, Only(h[latest].calls, Elems(h[latest].calls) \ done))

(* The partial response the interrupt saves, if it has content.            *)
Partial ==
    IF \E i \in DOMAIN window : window[i].kind \in {"text", "think", "call"}
    THEN <<Assistant(CallsIn(window))>> ELSE <<>>

(* InterruptHandler.Execute, then trackOpenExchange on the same tick.      *)
TickInterrupt ==
    LET id == Head(userOut).id
        saved == hist \o Partial
        results == CancelledResults(saved)
        follow == IF id = 0 THEN <<>> ELSE <<User(id)>>
    IN
    /\ ReadUser("interrupt")
    /\ CancelModel /\ CancelTool
    /\ hist' = saved \o results \o held \o follow
    /\ kernel' = kernel \o results \o held
    /\ held' = <<>>
    /\ window' = <<>>
    /\ passID' = passID + 1
    /\ Dispatch(hist', id = 0)
    /\ open' = FALSE /\ outstanding' = 0 /\ needsInf' = FALSE
    /\ UNCHANGED toolWin

(* A session_close or stop control: TerminateLoop places held turns.       *)
TickClose ==
    /\ ReadUser("close")
    /\ PlaceHeld(hist, kernel)
    /\ UNCHANGED <<passID, window, toolWin, open, outstanding, needsInf, model,
                   tool, modelInbox, asked>>

(* The loop context ends: a waiting tick is released and the loop exits.   *)
Stop ==
    /\ engine = "running"
    /\ engine' = "stopped"
    /\ SettleHeld
    /\ UNCHANGED <<passID, window, toolWin, open, outstanding, needsInf, modelVars,
                   toolVars, userVars, traceVars>>

Caller == Send \/ SendInterrupt \/ SendClose
ModelStep == ModelTake \/ ModelArm \/ ModelEmit \/ SessionTake \/ SessionRespond
ToolStep == ToolTake \/ ToolStart \/ ToolReturn \/ ToolFail \/ ToolEmit
Tick ==
    \/ TickStaleModel \/ TickModelPart \/ TickReasoningEnd \/ TickModelCalls
    \/ TickModelFinal \/ TickModelError
    \/ TickStaleTool \/ TickToolPart \/ TickToolEnd \/ TickToolError
    \/ TickUser \/ TickUserHeld \/ TickInterrupt \/ TickClose

Next == Caller \/ ModelStep \/ ToolStep \/ Tick \/ Stop

Spec == Init /\ [][Next]_vars

(* The engine keeps ticking while an outbox has an item, and the runners'  *)
(* goroutines run whenever they can.  The caller owes nothing, and neither *)
(* does a duplex provider.                                                 *)
FairSpec == Spec /\ WF_vars(Tick) /\ WF_vars(ModelStep) /\ WF_vars(ToolStep)
-----------------------------------------------------------------------------
(* Properties                                                              *)

Message == [role : {"user", "assistant", "tool", "cancelled"},
            id : 0..(MaxTurns + MaxCalls), calls : Seq(1..MaxCalls)]

TypeOK ==
    /\ \A m \in Elems(hist \o held \o kernel) : m \in Message
    /\ passID \in Nat /\ outstanding \in Nat
    /\ open \in BOOLEAN /\ needsInf \in BOOLEAN
    /\ engine \in {"running", "failed", "stopped"}
    /\ Len(modelInbox) <= InboxCap /\ Len(toolInbox) <= ToolCap + 1
    /\ Len(modelOut) <= OutCap /\ Len(toolOut) <= OutCap
    /\ model.pc \in {"idle", "taken", "stream"}
    /\ tool.pc \in {"idle", "taken", "run", "emit"}
    /\ nextTurn \in 0..MaxTurns /\ interrupts \in 0..MaxInterrupts
    /\ nextCall \in 0..MaxCalls /\ replies \in 0..MaxReplies

(* The results that directly follow the calls of message i answer exactly  *)
(* those calls, in order.                                                  *)
AnswersFollow(h, i) ==
    LET cs == h[i].calls IN
    /\ i + Len(cs) <= Len(h)
    /\ \A j \in DOMAIN cs : IsResult(h[i + j]) /\ h[i + j].id = cs[j]
    /\ i + Len(cs) = Len(h) \/ ~IsResult(h[i + Len(cs) + 1])

(* Every request a turn-based loop sends to the model is one providers     *)
(* accept: each tool call is directly followed by its one result, real or  *)
(* cancelled, no result stands without its call, and the request does not  *)
(* end on an assistant message unless a bare interrupt asked for that.     *)
RequestWellFormed ==
    \A r \in Elems(modelInbox) :
        LET h == r.conv IN
        /\ \A i \in DOMAIN h : h[i].calls # <<>> => AnswersFollow(h, i)
        /\ \A i \in DOMAIN h :
             IsResult(h[i]) => i > 1 /\ (IsResult(h[i - 1]) \/ h[i - 1].calls # <<>>)
        /\ h # <<>> /\ h[Len(h)].role = "assistant" => r.bare

(* Every user turn the caller sent is, exactly once and in the order of    *)
(* sending, in history, held, or still in the user outbox, whatever ended  *)
(* the exchange it met.                                                    *)
UserTurnsInOrder ==
    LET sent == Only(userOut, {u \in Elems(userOut) : u.id > 0}) IN
    UserIds(hist) \o UserIds(held) \o Map(Id, sent) = [i \in 1..nextTurn |-> i]

(* A held turn always has an open response or batch to wait for, and in a  *)
(* turn-based loop its inference is still owed: no turn is held by an      *)
(* exchange that is already over.                                          *)
HeldTurnsAwaited ==
    held # <<>> => /\ engine = "running"
                   /\ open \/ outstanding > 0
                   /\ needsInf \/ Duplex

(* A tool call that the engine accepted from the model is not lost: until  *)
(* the loop ends it is in the response's window or in history.             *)
CallsKept ==
    engine = "running" =>
        seen \subseteq Elems(CallsIn(window))
                       \cup UNION {Elems(m.calls) : m \in Elems(hist)}

(* History never holds two results for one call, although an interrupt's   *)
(* cancelled result and the batch's own may both be under way.             *)
OneResultPerCall ==
    \A i, j \in DOMAIN hist :
        IsResult(hist[i]) /\ IsResult(hist[j]) /\ hist[i].id = hist[j].id => i = j

(* The results of a batch are dropped as stale only if the conversation    *)
(* already has cancelled results for its calls.                            *)
ResultsKept == dropped \subseteq CancelledIn(hist)

(* A provider that repeats a call ID does not make the tool run twice.     *)
ExecutedOnce == \A i, j \in DOMAIN begun : begun[i] = begun[j] => i = j

(* The full-message stream and history agree while the loop runs.          *)
KernelAgrees == engine = "running" => kernel = hist

(* A user turn that was sent is routed to the model and its exchange ends, *)
(* with a final response or a failed tool's turn end, unless the loop ends *)
(* first.                                                                  *)
EveryTurnSettled ==
    \A t \in 1..MaxTurns :
        (nextTurn >= t) ~> (t \in settled \/ engine # "running")
=============================================================================
