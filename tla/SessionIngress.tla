--------------------------- MODULE SessionIngress ---------------------------
(***************************************************************************)
(* Admission to the session ingress: any number of callers of              *)
(* EnqueueSessionInput, the admission lock, the ordered queue, the         *)
(* priority lane of RESPONSE.CANCEL, the two counters that both sides      *)
(* read, and the session goroutine that drains both queues, stops and is   *)
(* started again.  Each action is one atomic or channel operation; what    *)
(* the goroutine does with an input is the subject of SessionControl.      *)
(***************************************************************************)
EXTENDS Integers, Sequences, FiniteSets

CONSTANTS
    Callers,        \* goroutines that admit input
    Offers,         \* kinds of input and whether their admission waits
    IngressCap,     \* sessionIngressCapacity
    LaneCap,        \* sessionCancelLaneCapacity
    MaxInputs,      \* bound on the admissions of a behaviour
    MaxStops        \* bound on the ends of runSession

ASSUME IngressAssumption ==
    /\ {IngressCap, LaneCap} \subseteq Nat \ {0}
    /\ {MaxInputs, MaxStops} \subseteq Nat
    /\ Offers \subseteq [kind : {"audio", "control", "tool", "cancel"}, waits : BOOLEAN]

Ids == 1..MaxInputs
NoInput == [id |-> 0, kind |-> "audio"]

VARIABLES
    caller,         \* each caller's admission
    locked,         \* sessionIngress.mu is held
    ordered, lane,  \* the two queues
    queuedControls, \* controls admitted, or being admitted, and not consumed
    toolEvents,     \* pendingToolEvents.count
    stopped,        \* sessionIngressStop.closed
    gen,            \* how often the stop channel was made anew
    runner,         \* the session goroutine
    begun,          \* admissions so far
    \* history variables
    unsent,         \* inputs admitted and not yet forwarded
    ahead,          \* for each input, those unsent when its admission began
    overtaken       \* pairs forwarded against that order

queues == <<ordered, lane>>
counts == <<queuedControls, toolEvents>>
history == <<unsent, ahead, overtaken>>
vars == <<caller, locked, queues, counts, stopped, gen, runner, begun, history>>

IsControl(input) == input.kind # "audio"
IsTool(input) == input.kind = "tool"
Idle == [pc |-> "idle", input |-> NoInput, waits |-> FALSE, ctxDone |-> FALSE, ch |-> 0]

Init ==
    /\ caller = [c \in Callers |-> Idle] /\ locked = FALSE
    /\ ordered = <<>> /\ lane = <<>>
    /\ queuedControls = 0 /\ toolEvents = 0
    /\ stopped = FALSE /\ gen = 0 /\ begun = 0
    /\ runner = [pc |-> "lane", input |-> NoInput, handled |-> FALSE]
    /\ unsent = {} /\ ahead = [i \in Ids |-> {}] /\ overtaken = {}
-----------------------------------------------------------------------------
(* Callers                                                                 *)

At(c, pc) == caller[c].pc = pc
Goto(c, pc) == caller' = [caller EXCEPT ![c].pc = pc]
Admitted(c) ==
    /\ caller' = [caller EXCEPT ![c] = Idle]
    /\ unsent' = unsent \cup {caller[c].input.id}

(* Mutant: the lane is taken whatever is queued.                           *)
AnythingAhead == TRUE

NothingAhead == queuedControls = 0

(* admitPriorityCancel: the lane is for a cancel with no control ahead of  *)
(* it, while the session runs; everything else goes to the ordered queue.  *)
Begin(c) ==
    /\ At(c, "idle") /\ begun < MaxInputs
    /\ \E o \in Offers :
         caller' = [caller EXCEPT ![c] =
             [Idle EXCEPT !.input = [id |-> begun + 1, kind |-> o.kind], !.waits = o.waits,
                !.pc = CASE o.kind = "cancel" /\ NothingAhead /\ ~stopped -> "lane"
                         [] o.kind = "audio" -> "lock" [] OTHER -> "count"]]
    /\ begun' = begun + 1
    /\ ahead' = [ahead EXCEPT ![begun + 1] = unsent]
    /\ UNCHANGED <<locked, queues, counts, stopped, gen, runner, unsent, overtaken>>

(* The context of an admission that waits ends.  (One that does not wait   *)
(* and finds its context ended fails as it does on a full queue.)          *)
CancelContext(c) ==
    /\ caller[c].pc \in {"lock", "send"} /\ caller[c].waits /\ ~caller[c].ctxDone
    /\ caller' = [caller EXCEPT ![c].ctxDone = TRUE]
    /\ UNCHANGED <<locked, queues, counts, stopped, gen, runner, begun, history>>

(* A full lane falls back to the ordered queue.                            *)
SendPriority(c) ==
    /\ At(c, "lane")
    /\ IF Len(lane) < LaneCap
       THEN lane' = Append(lane, caller[c].input) /\ Admitted(c)
       ELSE Goto(c, "count") /\ UNCHANGED <<lane, unsent>>
    /\ UNCHANGED <<locked, ordered, counts, stopped, gen, runner, begun, ahead,
                   overtaken>>

(* A control is counted before it waits for the lock.                      *)
CountControl(c) ==
    /\ At(c, "count") /\ Goto(c, "lock")
    /\ queuedControls' = queuedControls + 1
    /\ UNCHANGED <<locked, queues, toolEvents, stopped, gen, runner, begun, history>>

(* push, up to the send: an ended context gives up; a waiting admission    *)
(* looks at stop and takes hold of its channel.                            *)
Lock(c) ==
    LET refused == caller[c].ctxDone \/ (caller[c].waits /\ stopped) IN
    /\ At(c, "lock") /\ ~locked /\ locked' = ~refused
    /\ caller' = [caller EXCEPT ![c].pc = IF refused THEN "uncount" ELSE "send",
                                ![c].ch = gen]
    /\ toolEvents' = IF IsTool(caller[c].input) /\ ~refused THEN toolEvents + 1
                     ELSE toolEvents
    /\ UNCHANGED <<queues, queuedControls, stopped, gen, runner, begun, history>>

SendOrdered(c) ==
    /\ At(c, "send") /\ Len(ordered) < IngressCap
    /\ ordered' = Append(ordered, caller[c].input)
    /\ locked' = FALSE /\ Admitted(c)
    /\ UNCHANGED <<lane, counts, stopped, gen, runner, begun, ahead, overtaken>>

(* Mutant: stopping does not release the admissions that wait.             *)
ReleasesNone(c) == FALSE

(* The stop channel a waiting admission holds is closed; it stays closed   *)
(* when a later runSession makes a new one.                                *)
Released(c) == caller[c].waits /\ (caller[c].ch < gen \/ stopped)

Refused(c) ==
    \/ caller[c].ctxDone \/ Released(c)
    \/ ~caller[c].waits /\ Len(ordered) = IngressCap

(* The send is given up, and with it the count of a tool event.            *)
GiveUp(c) ==
    /\ At(c, "send") /\ Refused(c)
    /\ Goto(c, "uncount") /\ locked' = FALSE
    /\ toolEvents' = IF IsTool(caller[c].input) /\ toolEvents > 0 THEN toolEvents - 1
                     ELSE toolEvents
    /\ UNCHANGED <<queues, queuedControls, stopped, gen, runner, begun, history>>

(* Mutant: an admission that failed stays counted.                         *)
StayCounted(input) == queuedControls

Uncounted(input) == IF IsControl(input) THEN queuedControls - 1 ELSE queuedControls

Uncount(c) ==
    /\ At(c, "uncount") /\ caller' = [caller EXCEPT ![c] = Idle]
    /\ queuedControls' = Uncounted(caller[c].input)
    /\ ahead' = [ahead EXCEPT ![caller[c].input.id] = {}]
    /\ UNCHANGED <<locked, queues, toolEvents, stopped, gen, runner, begun, unsent,
                   overtaken>>

Admit(c) ==
    \/ SendPriority(c) \/ CountControl(c) \/ SendOrdered(c) \/ GiveUp(c) \/ Uncount(c)
-----------------------------------------------------------------------------
(* The session goroutine                                                   *)

(* The history of an input that is forwarded to the provider.  A cancel    *)
(* that took the lane may pass audio, and may itself be passed.            *)
Forwarded(input, fromLane) ==
    LET passed == {x \in ahead[input.id] \cap unsent :
                     ~(fromLane /\ \E i \in DOMAIN ordered :
                         ordered[i].id = x /\ ~IsControl(ordered[i]))
                     /\ ~(\E i \in DOMAIN lane : lane[i].id = x /\ ~fromLane)} IN
    /\ unsent' = unsent \ {input.id}
    /\ ahead' = [i \in Ids |-> IF i = input.id THEN {} ELSE ahead[i] \ {input.id}]
    /\ overtaken' = overtaken \cup {<<x, input.id>> : x \in passed}

RunnerGoto(pc) == runner' = [runner EXCEPT !.pc = pc]

ForwardPriority ==
    /\ lane # <<>> /\ lane' = Tail(lane) /\ Forwarded(Head(lane), TRUE)
    /\ UNCHANGED <<caller, locked, ordered, counts, stopped, gen, begun>>

TakeOrdered ==
    /\ ordered # <<>> /\ ordered' = Tail(ordered)
    /\ runner' = [pc |-> "consume", input |-> Head(ordered), handled |-> TRUE]
    /\ UNCHANGED <<caller, locked, lane, counts, stopped, gen, begun, history>>

RunnerIdleStep ==
    UNCHANGED <<caller, locked, queues, counts, stopped, gen, begun, history>>

(* forwardPendingSessionInputs: cancels first, then one ordered input.     *)
PendingCancels ==
    /\ runner.pc = "lane"
    /\ IF lane # <<>> THEN ForwardPriority /\ runner' = [runner EXCEPT !.handled = TRUE]
       ELSE RunnerGoto("ordered") /\ RunnerIdleStep

PendingOrdered ==
    /\ runner.pc = "ordered"
    /\ IF ordered # <<>> THEN TakeOrdered
       ELSE /\ runner' = [runner EXCEPT !.pc = IF runner.handled THEN "lane" ELSE "await",
                                        !.handled = FALSE]
            /\ RunnerIdleStep

(* awaitSessionStep selects either queue.                                  *)
AwaitCancel == runner.pc = "await" /\ ForwardPriority /\ RunnerGoto("lane")
AwaitOrdered == runner.pc = "await" /\ TakeOrdered

(* sessionIngress.consumed, then the input reaches the provider and a tool *)
(* event is no longer pending.                                             *)
Consume ==
    /\ runner.pc = "consume" /\ RunnerGoto("forward")
    /\ queuedControls' = Uncounted(runner.input)
    /\ UNCHANGED <<caller, locked, queues, toolEvents, stopped, gen, begun, history>>

Forward ==
    /\ runner.pc = "forward" /\ runner' = [runner EXCEPT !.pc = "lane", !.input = NoInput]
    /\ Forwarded(runner.input, FALSE)
    /\ toolEvents' = IF IsTool(runner.input) /\ toolEvents > 0 THEN toolEvents - 1
                     ELSE toolEvents
    /\ UNCHANGED <<caller, locked, queues, queuedControls, stopped, gen, begun>>

(* runSession returns (its context, or the provider) and is run again.     *)
StopSession ==
    /\ runner.pc = "await" /\ gen < MaxStops
    /\ runner' = [pc |-> "over", input |-> NoInput, handled |-> FALSE] /\ stopped' = TRUE
    /\ UNCHANGED <<caller, locked, queues, counts, gen, begun, history>>

StartSession ==
    /\ runner.pc = "over" /\ RunnerGoto("lane")
    /\ stopped' = FALSE /\ gen' = gen + 1
    /\ UNCHANGED <<caller, locked, queues, counts, begun, history>>

RunnerStep ==
    PendingCancels \/ PendingOrdered \/ AwaitCancel \/ AwaitOrdered \/ Consume \/ Forward

Next ==
    \/ \E c \in Callers : Begin(c) \/ CancelContext(c) \/ Lock(c) \/ Admit(c)
    \/ RunnerStep \/ StopSession \/ StartSession

Spec == Init /\ [][Next]_vars

(* Every goroutine runs on; the lock is not handed past a caller for ever  *)
(* (sync.Mutex's starvation mode).                                         *)
FairSpec ==
    /\ Spec /\ WF_vars(RunnerStep)
    /\ \A c \in Callers : WF_vars(Admit(c)) /\ SF_vars(Lock(c))
-----------------------------------------------------------------------------
(* Properties                                                              *)

(* Inputs reach the provider in admission order: what was admitted before  *)
(* an admission began is forwarded first, except that a cancel in the lane *)
(* passes queued audio, never a control, and may be passed itself.         *)
AdmissionOrder == overtaken = {}

(* Both counters are exact at every instant, failed and waiting admissions *)
(* and the goroutine's own hand included, so neither a cancel nor a tool   *)
(* continuation is ever decided on a stale count.                          *)
CountsExact ==
    LET controls == {i \in DOMAIN ordered : IsControl(ordered[i])}
        tools == {i \in DOMAIN ordered : IsTool(ordered[i])}
        admitting == {c \in Callers : /\ IsControl(caller[c].input)
                                      /\ caller[c].pc \in {"lock", "send", "uncount"}}
        offering == {c \in Callers : IsTool(caller[c].input) /\ At(c, "send")} IN
    /\ queuedControls = Cardinality(controls) + Cardinality(admitting)
         + (IF runner.pc = "consume" /\ IsControl(runner.input) THEN 1 ELSE 0)
    /\ toolEvents = Cardinality(tools) + Cardinality(offering)
         + (IF runner.pc \in {"consume", "forward"} /\ IsTool(runner.input) THEN 1 ELSE 0)

(* No caller is stranded: an admission ends while the session runs, and    *)
(* after it has stopped, whoever holds the lock and however full the       *)
(* queue is.                                                               *)
AdmissionsEnd == \A c \in Callers : ~At(c, "idle") ~> At(c, "idle")
=============================================================================
