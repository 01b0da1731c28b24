# TLA+ verification of go-agent-harness

go-agent-harness is a runtime for voice and text agents. Its core is the module
`go-agent-loop`: a tick-driven loop that takes user turns, model stream deltas
and tool results from concurrent participants, builds the conversation, and
decides what to send where. This directory models that core, model-checks it
with TLC, and proves most of its safety properties with TLAPS.

## 1. Inventory

Paths are relative to `src/go-agent-loop/pkg`.

| Component | State | Operations | Hard parts | Module |
|---|---|---|---|---|
| Session outbox (`participants/model_runner_session_outbox.go`) | `pending`, `overflow`, `writing`, pump goroutine, `DeltaOutbox` | `write`, `abandonLocked`, `writeAbandoned`, `pump`, `flush` | session, pump, reader and cancellation interleave; overflow; shutdown with a dead reader | SessionOutbox |
| Coordinator (`subsystems/coordinator.go`, `coordinator_delta.go`) | `modelResponseOpen`, `toolBatchesOutstanding`, `heldTurnNeedsInference`, `HeldUserMessages`, `CurrentPassID` | route user, model and tool outputs; hold and place user turns | a user turn in the middle of a response or a tool batch | TurnLoop |
| Interrupt handler (`subsystems/interrupt_handler.go`) | history, pass | save partial, cancel, synthesise results, resume | cancellation races what is queued or not yet armed | TurnLoop |
| Global ordering (`engine/ordering.go`, `ordering_history.go`) | `ConversationDeltaBuffer`, two (start, count) windows, compaction mark, stale-pass filter | one input per tick, insertion, reconstruction, compaction, trimming, terminal errors | late deltas of a superseded pass; index arithmetic shared by two streams | TurnLoop, DeltaWindow |
| Engine (`engine/engine.go`) | run state, participants | hot loop, tick, settle held turns, stop participants | exit outside a tick, order of stops | TurnLoop, LoopRun |
| Kernel runner, user runner (`participants/kernel_runner.go`, `runner.go`) | `DeltaInbox`, event channel, unbuffered output | dispatch, close by LOOP.END or shutdown | a send that does not watch its context; reuse by the next call | LoopRun |
| Agent loop facade (`agentloop/agent_loop.go`, `execute_input.go`) | contexts, forwarding worker, `Deltas()` | `Execute`, `Run`, `Send`, `SendInterrupt`, session inputs | publication barrier, cancellation with an absent reader | LoopRun, TurnLoop, SessionControl |
| Tool runner (`participants/tool_runner.go`) | admitted IDs, `execCancel` | take, admit, execute, emit, fail, cancel | repeated IDs, failure, cancel before arming | TurnLoop |
| Turn-based model runner (`participants/model_runner_inference.go`) | `execCancel`, current pass | take, arm, drain stream | cancel against a pending write | TurnLoop |
| Session ingress (`participants/model_runner_ingress.go`) | ordered queue, cancel lane, `queuedControls`, tool event count, stop channel | admit, send, give up, consume, stop, restart | a counter read outside the lock, a parked admission that holds the lock | SessionIngress |
| Session model runner (`participants/model_runner*.go`) | held onset audio, deferred events, continuation flag | observe provider messages, forward audio and controls, barge-in, tool results, end | nested handlers; provider messages that cross requests on the wire | SessionControl |
| Session state (`participants/internal/sessionstate`) | response, continuation and acknowledgement phases, response ID ledger, onset detector | start, cancel, retire, end, defer, replay | cancel against end, stale output, bounded memory of IDs | SessionControl |
| Tool result forwarder (`subsystems/tool_result_forwarder.go`) | forwarded call IDs | results, then one RESPONSE.CREATE per batch | its events and the coordinator's request use different queues | SessionControl |
| Typed buffers (`messages/buffers.go`) | bounded channels | non-blocking, waiting and terminal writes | full buffers | SessionOutbox, TurnLoop, LoopRun |
| go-agent-runtime services (sessions, rooms, recording, replay, devices, RTC) | - | - | room lifecycle, media gate | not modelled |
| go-llm-gateway, go-audio, go-device-gateway, agent-cli, factory, tools | - | - | wire formats, signal processing, I/O | not modelled |

How they interact: participants are goroutines that own an inbox and an outbox
(bounded channels). The engine's tick goroutine selects one item from one
outbox, appends it to history and runs the subsystems in tick-group order
(InterruptHandler -1, Coordinator 1, CoordinatorDelta 5); subsystems write to
the inboxes. A request and the deltas that answer it carry a pass ID; deltas of
an older pass are dropped. What the tick produces for the caller goes through
the kernel runner's inbox and event channel to `Execute`, or through a worker to
`Deltas()`. In a duplex session the model runner is a session goroutine: input
reaches it through the session ingress, tool results through the forwarder, and
its deltas, which carry no pass, reach `DeltaOutbox` through the session outbox.

What makes each part correct:

- session outbox: production order, no must-deliver delta lost while session
  and queue are sound, bounded queue, complete accounting, shutdown that never
  waits for a reader;
- conversation: requests that providers accept, every user turn kept once and
  in order, every accepted call kept, one result per call, every turn answered;
- delta history: each response and each batch is rebuilt from exactly its own
  deltas, and trimming touches nothing that is still needed;
- publication: what the kernel publishes arrives whole and in order, a call
  leaves no goroutine behind, and a cancelled call returns;
- session control: audio in order, one cancel per response and none meant for a
  tool continuation, no output after a cancel, every tool event and failure settled;
- ingress: admission order, exact counters, no stranded caller.

The hazards behind these properties are listed, with their lines, in
`PROJECT.json`.

## 2. Modules

**SessionOutbox** - four actors: the session goroutine (`sess`), the pump
(`pump`), the reader (`consumer`) and whoever cancels the context (`ctxLive`).
What runs under `q.mu` is one action (`Write`, `PumpTake`, `PumpPop`); every
channel operation is an action of its own (`PumpWrite`, `PumpStopped` and
`PumpCancelled` are the three cases of one `select`, `SessPush`/`SessEvict` and
`PumpPush`/`PumpEvict` the two selects of `WriteTerminal`). A delta is its
production number and its class (ordinary, must-deliver, terminal). `delivered`,
`shed` and `lost` are history variables: received by the reader, counted in
`drops`, given up without being counted.

**SequenceFilter** - `Only(s, T)`, the loop that goes over a slice and keeps what
passes a test. **SequenceLemmas** - what `Append`, `Tail`, `\o`, `Only`, prefixes
and repetition-free sequences do to each other.

**SessionOutboxProofs**, **SessionIngressProofs**, **LoopRunProofs**,
**DeltaWindowProofs**, **TurnLoopProofs** and the chain **SessionControlProofs**,
**SessionControlResponseProofs** - the theorems about the module they are named
after (section 5).

**TurnLoop** - the tick goroutine, the model runner, the tool runner and the
caller. A tick runs under `loopMu` and is one action per kind of input and of
outcome (`TickModelPart`, `TickReasoningEnd`, `TickModelCalls`,
`TickModelFinal`, `TickModelError`, `TickToolPart`, `TickToolEnd`,
`TickToolError`, `TickUser`, `TickUserHeld`, `TickInterrupt`, `TickClose`, and
the two stale drops), including everything the subsystems do in that tick. A
runner's read of its inbox, the storing of `execCancel`, and each write to its
outbox are separate actions, so an interrupt can fall between any two of them.
`toolInbox` has one slot more than `ToolCap`: the batch a tick is waiting to
write. While it is used no tick runs, as in the code. A user tick may be chosen
although a delta is ready: the second `select` of `receiveTickInput` may find a
delta that arrived after the first. The model's answers are the sequences in
`Shapes`; a "call" part is a completed tool call, "rend" is REASONING.END,
"start" is a delta without content; a "rend" with no "think" in the window makes
no message (`EndsReasoning`). `Duplex` selects the mode: a duplex provider
responds when it likes, one response at a time.

**DeltaStream** - the abstract specification of one participant's deltas: a
delta extends the stream, begins a new one, or completes it, and a message is
made of exactly the deltas since the last boundary.

**DeltaWindow** - the data structure behind it: one buffer, a model window and a
tool window given by start and count, `WriteModelDelta` (overwrite, insert with
`ShiftToolDeltaStart`, or append, then `DropStaleModelDeltas`),
`WriteToolDelta`, and `SettleHistory` with compaction and trimming. Indices are
the code's, from 0. One action per kind of tick, plus `Execute` (which appends
the user message's deltas and resets the window) and `Stop`. Which deltas arrive
is the environment's choice within what a turn-based loop or a duplex session
allows; `modelInput`, `toolInput`, `modelMade` and `toolMade` record what the
latest tick took and made. `ResponsesRebuiltWhole` and `BatchesRebuiltWhole` are
`ModelStream!Spec` and `ToolStream!Spec`: two instances of DeltaStream under the
mapping window <- the slice the code would rebuild from. The second holds for
turn-based loops only; section 4 says what happens in a duplex session, and
`OpenBatchInOnePiece` what remains true there.

**LoopRun** - publication and shutdown: the goroutine in `Run` or `Execute`
(`main`), the engine with its tick, exit, settle and stop steps, the kernel
runner, the forwarding worker, the user runner and the caller. The ticks'
records come from scripts (`RunScripts`, `TurnScripts`) of four kinds: droppable
delta, must-deliver delta, full message, LOOP.END. `KernelWrite` and
`KernelWriteDropped` are the outcomes of `WriteKernelDelta`; `KernelSend` waits
for the event channel and for nothing else, as `dispatchDelta` does. `DeltaInbox`
outlives a call of `Execute`; contexts and event channel are new per call.

**SessionControl** - the session goroutine, its callers, the forwarder and the
provider. Handlers of the runner call each other (a response end replays
deferred events; a continuation first drains `Receive`, which may end another
response), so the pending calls are an explicit stack, `agenda`, and each action
is the handler on top. `st` is `sessionstate.State`; `Observe` is what a provider
message does to it. The provider is external: it opens responses on request or
by itself, may replace one it names, rejects a request while a response is
active and repeats it later, refuses sends, and closes; requests wait in `wire`
and messages in `receive`, so each side acts on what the other did earlier. A
barge-in cancel on `wire` is marked with the response it is meant for. The
provider does not see the mark and ends what plays; `stops` is the history of
what such cancels were meant for and what they hit.
`scenario` bounds the environment and says whether the provider names its
responses and echoes the purpose of a continuation. Onset detection counts loud
and quiet frames.

**SessionIngress** - callers of `EnqueueSessionInput` at the grain of single
atomics and channel operations (`Begin` reads the counter and the stop flag,
`CountControl`, `Lock`, `SendOrdered` or `GiveUp`, `Uncount`), the two queues and
the goroutine that drains them, stops and starts again. `gen` is the identity of
the stop channel. What the goroutine does with an input is SessionControl's
subject; there, admission is one step, which is what this module justifies.

**MC modules** - constants for TLC. Operators whose comment says "Mutant" are
wrong variants of the definition that follows them; they show that the property
they are paired with in `PROJECT.json` would notice.

## 3. Runs

| Run | Checks | Bounds |
|---|---|---|
| `outbox` | `InProductionOrder`, `MustDeliverKept`, `Accounted`, `QueueBounded`, `QuietAfterFlush`, `SessionFinishes`, `PumpDrains`, `TypeOK` | outbox 2, queue 2, 6 deltas: overflow, eviction, abandonment with the head in flight and deferred failures after the terminal record all happen |
| `turns` | `RequestWellFormed`, `UserTurnsInOrder`, `HeldTurnsAwaited`, `CallsKept`, `OneResultPerCall`, `ResultsKept`, `TypeOK` | 2 turns, 2 interrupts, 2 calls, outboxes of 2; text, two-call, reasoning-then-call and failing responses |
| `turns_settle` | `EveryTurnSettled` | 3 turns, 1 interrupt, 2 calls, outboxes of 1 |
| `turns_duplex` | `KernelAgrees`, `ExecutedOnce` | 2 turns, 2 responses, 2 call IDs that may repeat, failing tools; reasoning with and without content |
| `delta_window` | `ResponsesRebuiltWhole`, `BatchesRebuiltWhole`, `OpenBatchInOnePiece`, `HistorySettled`, `TypeOK` | limit 2 (the code's 4096), 1 system delta, 7 deltas, streams of 2, 2 interrupts or calls of Execute, both modes: trimming happens several times and during a batch |
| `loop_run` | `PublishedInOrder`, `WholeTurn`, `QuietBetweenCalls`, `CallEnds`, `TypeOK` | all channels of 1, scripts of up to 5 records, 2 calls of Execute |
| `session_control` | `AudioInOrder`, `ToolEventsCounted`, `OneCancelPerResponse`, `ContinuationSpared`, `NoOutputAfterCancel`, `ResultsBeforeRequest`, `FailuresReported`, `Settled`, `TypeOK` | eleven scenarios (`MCScenarios`) with up to 3 frames, 2 responses of the provider's own, 2 batches, a control, an acknowledgement, a refused send and an ending, for providers with and without response IDs; ingress 3, lane 1, ledger 2 |
| `session_ingress` | `AdmissionOrder`, `CountsExact`, `AdmissionsEnd` | 2 callers, 3 inputs of four kinds, queue 1, lane 1, one stop and restart |

The four violation runs are in section 4. Each bound is the smallest at which
two exchanges overlap in every way the code distinguishes: two turns give one
that runs and one that is held, two calls give a batch with two results or two
batches, two interrupts give one that meets the leftovers of the other, and
capacities of one make every full-buffer branch reachable. Deadlock is not
checked because a caller who has sent everything lets the system rest; the
properties `EveryTurnSettled`, `CallEnds`, `AdmissionsEnd` and `Settled` say what
must hold or happen before it may.

Fairness. Every goroutine that can run eventually does (weak fairness of the
pump, of ticks, of each runner, of the worker). In SessionOutbox the session
goroutine notices an overflow or an ended context after a bounded burst of
writes, because `runSession` tests both at the top of its loop; nothing is
assumed of the reader, and `PumpDrains` states its own assumption. In TurnLoop
nothing is assumed of the caller or of a duplex provider; a turn-based
inferencer and a tool eventually return, which is what their contexts and
deadlines are for. In LoopRun ticks are not fair, except that an engine whose
context ended exits, since `receiveTickInput` watches the context; a caller that
has not stopped reading `Deltas()` keeps reading. In SessionIngress taking the
lock is strongly fair per caller: `sync.Mutex` hands itself to a waiter that
starves.

## 4. What the code does against its own documentation

Each of these is a run that TLC ends with a counterexample.

- `tool_failure_strands_turns`: a failed tool batch never sends MESSAGE.END,
  so `toolBatchesOutstanding` stays positive and every later user turn of a
  turn-taking loop is held for good (an interrupt frees them).
- `tool_window_torn`: in a duplex session a response boundary inside a tool
  batch moves `ModelDeltaStartIndex` behind `ToolDeltaStartIndex`. The next model
  deltas are written into the batch's window without moving it, so the tool
  message is rebuilt from model deltas and misses its own last ones.
- `run_hangs_on_cancel`: a caller that stops reading and cancels makes the
  forwarding worker return; the kernel runner then blocks for good in its send
  to the full event channel, the engine in stopping it, and `Run` in waiting for
  the engine. `CallEnds` shows that this is the only way a call fails to end.
- `batch_asked_twice`: `sessionToolContinuation` is one flag; when two batches'
  boundaries are forwarded before the first of their two coordinator requests is
  read, the second request sends the user's text again.

Found while modelling, without a run of their own (TLC produced each as a
counterexample of an instance that is not kept, or it follows from the lines
named):

- Outbox. The terminal record of a fatal session error is given up when the
  context ends between `endSession`'s look at it and the direct write, although
  `model_runner_control.go:262-268` calls it "still delivered"; a queued terminal
  record can be abandoned by a must-deliver delta written after it.
- Turns. With failing tools `RequestWellFormed` is false: the failed batch leaves
  its calls unanswered and a held user turn is placed behind them, after which
  `cancelledToolResults` (`interrupt_handler.go:216`) passes them over and the
  request of an interrupt contains calls without results. Reasoning that ends
  after a tool call resets the window the call waits in, and the call is lost
  (`coordinator.go:185`). A batch still queued, or read but not
  armed, when an interrupt reports its calls as cancelled is executed afterwards
  (`tool_runner.go:88`). A duplex user turn during a tool batch raises the pass,
  and the batch's results are dropped as stale (`coordinator.go:269`). The end
  of a tool batch resets the window of the duplex response that is open at that
  moment; its calls are lost (`coordinator.go:115`). With `InboxCap = 1` and
  three turns `EveryTurnSettled` fails, because a full ModelInbox drops the
  newest request after its pass has made the queued ones stale (the default
  capacity is 64); with `RepeatIDs = TRUE` a turn-based loop stalls, because a
  batch of already admitted calls emits nothing. The partial response and the
  follow-up of an interrupt are not recorded on the kernel stream, so
  `KernelAgrees` is stated for loops without interrupts.
- History. An interrupt inside a batch leaves `toolBatchActive` set, so nothing
  behind that batch is trimmed until the next batch opens; `HistorySettled`
  therefore speaks of the time outside a batch.
- Publication. `Deltas()` carries nothing after the first LOOP.END of a `Run`,
  because the kernel forgets the event channel there. A must-deliver record of a
  cancelled call that was written after the kernel drained its inbox reaches the
  next `Execute`; `WholeTurn` excludes such calls. `StreamingExecuteResult.Messages`
  blocks when the stream ends without a message (`execute_result.go:334`).
- Session control. Speech can end a continuation, contrary to
  `model_runner.go:154-158`, although the runner never means it: RESPONSE.CANCEL
  names no response (`session_events.go:298-302` of the openai provider). A
  continuation requested while a response of the provider's own is active is
  rejected and kept for retry. Speech cancels that response; it ends before the
  cancel arrives; the adapter sends the continuation again
  (`session_response_state.go:364-373`), and the cancel ends the continuation.
  `ContinuationSpared` says what holds: no automatic cancel is meant for a
  continuation, and one that ends a continuation was meant for an earlier
  response. Other cases are outside its hypotheses. A deferred continuation can be suppressed in place of a later
  batch's (`rejected` is not tied to a batch); without purposes from the provider
  a response it opens by itself may be taken for the continuation, which is why
  `ContinuationSpared` asks for `echo`. Even then the runner can mean a cancel for
  a continuation: until the provider has
  echoed a purpose once, a response of its own that starts and ends first is
  taken for the continuation; an acknowledgement requested next claims the start
  of the real one, because `tagSessionAcknowledgement` overwrites the purpose the
  provider gave it (`model_runner_session.go:351`), so it is never bound.
  `ContinuationSpared` therefore speaks of sessions without acknowledgements. It
  also ends with the session: a close by the provider resets the binding
  (`model_runner_session.go:194`), and a cancel sent after it reaches nobody. The
  last case of `forwardQueuedSessionEvent` cannot be reached, so a refused
  continuation leaves the flag unset and the coordinator's request sends the user's text; deferred
  tool events stay counted when the session ends and is run again.
- Ingress. An input admitted after a cancel that took the priority lane can be
  forwarded before it: the runner looks at the lane, the cancel and then the
  input are admitted, and the runner reads the ordered queue. `AdmissionOrder`
  allows this one case; the comment at `model_runner_ingress.go:102` does not
  mention it. Inputs and cancels still queued when a session stops are forwarded
  by the next one.

## 5. Proofs

The theorems hold for every value of the constants that the module's `ASSUME`
admits: capacities are positive, bounds on the environment are numbers. Two
assumptions say more. `RunAssumption` (LoopRun): LOOP.END is the last record of
the script of a call of `Execute`, which is so because the coordinator emits it
on the tick that sets the terminal state. `TurnAssumption` (TurnLoop): a response
ends with its only terminator, and some response has no calls. A theorem that
needs more of the environment says so in its `ASSUME`; these hypotheses are
values of the constants with which the runs of section 3 run too.

| Module | Theorem: property | Inductive invariant |
|---|---|---|
| SessionOutboxProofs | `TypeCorrect`, `Bounded`, `Kept`, `Quiet`, `Ordered`: `InProductionOrder`, `AllSettled`: `Accounted` | `CoreInv`, `LengthInv`, `KeptInv`, `OrderInv`, `AccountInv` |
| SessionIngressProofs | `Counted`: `CountsExact`; `InAdmissionOrder`: `AdmissionOrder` | `TypeInv`, `CountInv`, `FreshInv`, `OrderInv` |
| LoopRunProofs | `TypeCorrect`; `Quiet`: `QuietBetweenCalls`; `Published`: `PublishedInOrder`; `TurnWhole`: `WholeTurn` | `CoreInv`, `FlowInv`, `StampInv`, `TurnInv` |
| DeltaWindowProofs | `TypeCorrect`; `OpenBatchWhole`; `Compaction`: `HistorySettled`; `ResponsesWhole`, `BatchesWhole`: the refinements of DeltaStream | `IInv` (theorem `Invariance`) |
| TurnLoopProofs | `TypeCorrect`; `Awaited`: `HeldTurnsAwaited`; `TurnsInOrder`: `UserTurnsInOrder`; `StreamAgrees`: `KernelAgrees` (duplex); `StartedOnce`: `ExecutedOnce`; `Kept`: `CallsKept` (turn-based, `ReasoningFirst`); `OneAnswer`: `OneResultPerCall`; `DroppedAnswered`: `ResultsKept`; `RequestsAccepted`: `RequestWellFormed` (the last three turn-based and with no repeated IDs, the last also without failing tools) | `TypeInv`, `NoInterrupts`, `StreamInv`, `BatchInv`, `PhaseInv`, `FreshInv`, `AdmitInv`, `LiveInv`, `HistOK`, `StaleInv`, `FormInv` |
| SessionControlProofs | `TypeCorrect`; `CountCorrect`: `ToolEventsCounted`; `ResultsFirst`: `ResultsBeforeRequest`; `FailuresKept`: `FailuresReported`; `FramesInOrder`: `AudioInOrder`; `ContinuationsKept`: `ContinuationSpared` | `TypeInv`; `CountInv`, `BatchInv`; `FramesInv`; `SparedInv`, `AimInv` |
| SessionControlResponseProofs | `CancelledOnce`: `OneCancelPerResponse`; `CancelledSilent`: `NoOutputAfterCancel`; `NothingLeft`: `Settled` | `StreamInv`, `CutInv`, `CancelInv`; `LedgerInv`, `LateInv`, `KnownInv`; `OpenInv`, `OngoingInv`, `AckInv`, `DeferInv`, `RejectInv`, `OverInv` |

**Session outbox.** `CoreInv` adds to the type invariant how control and data
correspond (`ControlInv`): the pump has an entry exactly where it is about to
write one, `writing` holds exactly then, an empty pump leaves an empty queue, a
terminal record exists only after the failure was decided. `LengthInv` bounds
the queue together with where the session is, since the one entry past the limit
needs a session that will write no further terminal record. `KeptInv` says that
the pump reaches its give-up and evict steps only after an overflow or an ended
context; without it neither eviction can be excluded. `OrderInv` splits the path
delivered - outbox - in flight - queued into ordered pieces, each below the next
and all at most `produced`, because the property on the concatenation alone is
not preserved. `AccountInv` says that every number up to `produced` is in exactly
one of the places `Accounted` counts.

**Session ingress.** A counter is changed by one goroutine and the queue it
counts by another, so `CountInv` states `CountsExact` over sets (the positions of
a queue, the callers between two of their steps) that gain or lose one member at
a time. `OrderInv` says where each unsent input that was admitted earlier still
is: before this one in its queue, in the cancel lane, or in the runner's hand.
`FreshInv` (an admission under way is known to nobody else) lets an append keep
that.

**Publication.** `FlowInv`: what the kernel sent is seen, public, in the worker's
hand or in the event channel, in this order, until the worker gives up; from then
on the caller has a prefix of it. `TurnInv` proves `WholeTurn` by a case on the
event stream. While it is open the hot loop runs, nothing the call accepted has
been lost on its way (`PathInv`: leftovers of earlier calls, then exactly what
this call accepted), and accepted plus pending is what the script has produced,
less droppable deltas and full messages (`MustInv`). When it is closed, either
LOOP.END of this call closed it, and everything before it was sent, or an earlier
call's leftovers did, which `WholeTurn` excepts. `StampInv` ties each record to
the call that wrote it.

**Delta history.** `IInv`: the response window lies behind the compacted prefix
and no model delta follows it (`WellFormed`); until a response boundary falls
inside it, an open batch is one piece, at the end of the buffer and behind the
response window (`OpenIn`); in a turn-based loop no boundary ever does
(`ControlInv`). The second part is what insertion in the middle of the buffer
needs: `ShiftToolDeltaStart` is right because everything after the response
window is the batch. From `IInv` every step maps to a step of DeltaStream or a
stutter, once for the model window in both modes and once for the tool window of
a turn-based loop.

**Conversation.** Three layers.
(1) Types, and user turns: the turns in history, held and queued form one line,
and every action keeps it (`TurnsInOrder`).
(2) Calls. Model deltas are on one path, window - outbox - runner (`Stream`).
`StreamInv` says that each response on it is whole but for its beginning, with
rising call IDs up to its terminator, and that the window holds deltas of the
current pass only. From it no batch names a call twice (`BatchInv`), for any
provider. `PhaseInv` is the heart of a turn-based loop: it waits for the one batch
of the current pass and all model deltas are stale, or it waits for none and all
tool deltas are stale. `CallsKept` needs `ReasoningFirst`: a provider that went
back to reasoning after a call would lose that call, since REASONING.END resets
the window. In a duplex session it is false (section 4).
(3) Results. `LiveInv`: until the batch of the current pass is over, the last
message of history asked for it, the batch is in exactly one place (inbox,
runner, or deltas on their way back), and its results arrive framed and in the
order of its calls, or as one error. `FreshInv` and `AdmitInv` say that calls
under way, admitted and in history do not mix; this needs a provider that does
not repeat IDs. `StaleInv`: what a superseded pass still has under way is
answered by cancelled results in history, which is why dropping it is harmless.
`FormInv`: history is well formed, or is but for the calls of the batch that is
out. A tool runner that fails leaves its calls unanswered, so `RequestsAccepted`
assumes that tools report every result; section 4 says what request can follow
otherwise.

**Session control.** Four layers, the first two in SessionControlProofs, the others
in SessionControlResponseProofs.
(1) The stack. `IdleLast`: the calls on `agenda` that wait for input are below
all others, so a handler only takes input when nothing else is under way.
(2) The line. What T follows (tool events, frames) is read off the deferred
events, the `agenda` and the ingress, in this order: `Line(T)`. Each handler
leaves the line, drops its head, turns the head into another task or appends to
it (`LineSteps`); replaying deferred events, holding a continuation and the
detour through `syncProviderMessages` leave it as it is. `CountInv` is its
length. `BatchInv`: its keys (result, then continuation of each batch) rise and
lie below the forwarder's position, so that what is asked for, or was refused, has
left it. `FramesInv` is the same for held and queued audio. `SparedInv` ties the
continuation binding to the current response, so that none that is a continuation
was ever counted as cancelled; `AimInv` carries that along the wire: a cancel on
it, or one that has ended a response, was meant for a response so counted, and
what it ended is no older.
(3) The order of the provider's messages. `StreamInv`: any two messages in
`Receive` are in an order the provider may send them in (`Before`), and all of
them come after the start of the current response. From it a cancelled response
is never current again (`CutInv`), and a response ID that leaves the ledger is too
old to be heard of: the ledger is sorted, whatever is still to come is among the
last `Retention` responses (`LateInv`), and of a cancelled response the ledger
still knows the ID or its start is still to come (`KnownInv`).
(4) Rest. A response the runner takes for open is played, or its end, or the
start of the response that replaced it, is on its way (`OngoingInv`, which needs
`OpenInv`: a response that may still start is not closed); a request for an
acknowledgement or its answer is on its way while one is outstanding (`AckInv`);
deferred events wait for one of the two (`DeferInv`); and as long as a refused
result is unreported, a continuation is still to come that will report it
(`RejectInv`).
`SessionAssumption` asks for `Retention > 1` (`ResponseIDRetention` is 128,
`sessionstate/state.go:287`) and for scenarios that start without refused sends.
The external provider sends late output only for the last `Retention` responses
(`Opens`): with older output `NoOutputAfterCancel` would be false, since the
ledger has forgotten the response.

The provers have no induction over data, since the library's induction theorems
take an operator. SequenceLemmas has the induction it needs over sets instead:
`SetInduction` (a set of numbers that holds 0 and is closed under successor holds
every number) and `AppendInduction` (the same for finite sequences and `Append`).
That is why the modules filter with `Only(s, T)`, whose test is a set, and not
with `SelectSeq`: `OnlyAppend`, `OnlyConcat` and `OnlyElems` are proved there.

Only model-checked:

- liveness, which is outside this prover's reach: `SessionFinishes`,
  `PumpDrains`, `EveryTurnSettled`, `CallEnds`, `AdmissionsEnd`;
- the violations of section 4, which are facts about one behaviour each.

Nothing is claimed beyond the hypotheses of the theorems about calls and
results: with failing tools `RequestWellFormed` is false, in a duplex session
`CallsKept` is (section 4); the run `turns_duplex` checks what holds there.

## 6. Abstractions and what is not modelled

- Payloads, token usage, logging, recorders and interaction events; audio is a
  frame number, or a flag that a delta still has its bytes.
- `WriteStreamDelta` to a reader that takes a delta in the middle of the call is
  covered by the reader stepping before or after it.
- TurnLoop: provider responses that overlap each other (`modelResponses`,
  `modelResponsesOverlap`), loops without a tool executor, interrupts of a
  duplex session. The user outbox is unbounded up to `MaxTurns`; `Send` reports a
  full one to its caller. KernelDeltaInbox always accepts while the loop runs
  (LoopRun has its bounds); at exit it may refuse any of the held turns.
- DeltaWindow: user deltas come from `AddMessages` only, as in the code's
  non-interactive paths; at most two batches are live.
- LoopRun: `ExecuteStreaming` and its message stream; the tool and model
  participants stop between kernel and user and are not separate steps.
- SessionControl: interruption of local playback (`model_runner.go:186`),
  refused commits, messages and acknowledgements, image results (which the
  runner sends itself), full-duplex providers, output a provider tags as
  acknowledgement (no adapter does), the rewriting of an interrupted MESSAGE.END
  and the initial configuration. `AwaitRequest` is the coordinator's request for
  a batch whose results the forwarder delivers; requests with plain user text,
  with results that are not found and with results whose sending failed
  (`model_runner_session_tools.go:49-57`) are left out: user text reaches the
  provider through `ForwardMessage` alone. One result stands for all results of a batch.
- The rest of the repository. Of its roughly 246,000 lines of implementation
  about 3,300 are modelled: the loop, where processes interleave and state is
  shared. What remains is for the larger part the command line with its browser
  bridge and probes (`agent-cli`), provider wire formats and transports
  (`go-llm-gateway`), signal processing (`go-audio`), operating system devices
  (`go-device-gateway`), transcripts, evidence files and reports
  (`pkg/transcript`, `pkg/probe`), and tooling. These are parsing, formatting,
  numeric code and I/O around calls that this project treats as the environment.
  Parts of go-agent-runtime do have concurrent state of their own (room
  lifecycle, media gate, recording); they are the next candidates.

## 7. Plan

1. SessionOutbox, SessionIngress, LoopRun, DeltaWindow, TurnLoop and
   SessionControl: modelled, checked, and every safety property of their passing
   runs proved.
2. Overlapping duplex responses in the coordinator.
3. Room lifecycle and media gate of go-agent-runtime.
