--------------------------- MODULE SessionControl ---------------------------
(***************************************************************************)
(* The session model runner: one goroutine that observes the provider's    *)
(* messages, user input from the ordered ingress and its priority lane,    *)
(* the coordinator's requests and the held-onset timer, and decides what   *)
(* reaches the provider and when.  Handlers call each other (the end of a  *)
(* response replays deferred events, a continuation first drains Receive,  *)
(* which may end another response), so the goroutine's pending calls are   *)
(* kept as a stack, agenda.  The provider runs concurrently and sees what  *)
(* was sent, and the runner sees what the provider did, only later.        *)
(***************************************************************************)
EXTENDS Naturals, Sequences, SequenceFilter

CONSTANTS
    FailKinds,      \* the kinds of send the provider may refuse
    Scenarios,      \* the kind of provider, and bounds on the environment
    MaxResponses,   \* bound on the responses of a behaviour
    MaxBatches,     \* bound on the tool batches of a behaviour
    IngressCap,     \* sessionIngressCapacity
    LaneCap,        \* sessionCancelLaneCapacity
    Retention,      \* ResponseIDRetention
    MinSpeech,      \* BargeInConfig.MinSpeech, in frames
    Hangover        \* BargeInConfig.Hangover, in frames

Audio == {"loud", "quiet", "plain"}     \* plain: the policy does not interrupt
ToolEvent == {"result", "cont", "ack"}  \* TOOLCALL.END and RESPONSE.CREATE
Input == [t : Audio \cup ToolEvent \cup {"commit", "cancel", "message"}, n : Nat]

ASSUME SessionAssumption ==
    /\ FailKinds \subseteq {"audio", "result", "cont", "cancel"}
    /\ {IngressCap, LaneCap, Retention, MinSpeech, Hangover, MaxResponses}
         \subseteq Nat \ {0}
    /\ Retention > 1 /\ MaxBatches \in Nat
    /\ Scenarios \subseteq [frames : Nat, controls : Nat, batches : 0..MaxBatches,
                            acks : Nat, vad : Nat, fails : Nat, ends : Nat,
                            tagged : BOOLEAN, echo : BOOLEAN, refused : {{}},
                            acked : {FALSE}]

VARIABLES
    scenario,       \* the provider, and what the environment may still do
    ordered,        \* sessionIngress.ordered
    lane,           \* RESPONSE.CANCELs in sessionIngress.priority
    toolEvents,     \* pendingToolEvents.count
    inbox,          \* ModelRunner.Inbox: batches whose request waits there
    forwarder,      \* ToolResultForwarder: what it has enqueued of a batch
    wire,           \* requests on their way to the provider, which does
                    \* not see the response a cancel is meant for
    prov,           \* the provider: response playing, replaced one, retry
    origin,         \* what each response answers
    receive,        \* session.Receive()
    agenda,         \* the goroutine's pending calls, innermost first
    st,             \* sessionstate.State
    flag,           \* sessionToolContinuation
    over,           \* runSession returned
    \* history variables
    frames,         \* frames admitted
    lastFrame,      \* the last frame the provider took
    cancels,        \* automatic cancels sent for each response
    stops,          \* responses such cancels were meant for and ended
    cut,            \* responses for which a cancel was accepted
    leaked,         \* output forwarded after such a cancel
    asked,          \* responses requested for each batch
    undelivered,    \* batches whose result the provider refused
    reported        \* those whose failure was written to the outbox

inputVars == <<ordered, lane, toolEvents, inbox, forwarder, frames>>
provVars == <<wire, prov, origin, receive>>
sendVars == <<lastFrame, cancels, stops, cut, asked, undelivered>>
vars == <<scenario, inputVars, provVars, agenda, st, flag, over, sendVars, leaked,
          reported>>

Response == 1..MaxResponses
Batch == 1..MaxBatches
Task(t, n) == [t |-> t, n |-> n]
Spend(field) == scenario[field] > 0 /\ scenario' = [scenario EXCEPT ![field] = @ - 1]

Init ==
    /\ scenario \in Scenarios
    /\ ordered = <<>> /\ lane = 0 /\ toolEvents = 0 /\ inbox = <<>>
    /\ forwarder = [batch |-> 1, step |-> "result"]
    /\ wire = <<>> /\ origin = <<>> /\ receive = <<>>
    /\ prov = [active |-> 0, old |-> 0, retry |-> <<>>, fresh |-> FALSE]
    /\ agenda = <<Task("inputs", 0), Task("await", 0)>>
    /\ st = [phase |-> "idle", r |-> 0, cont |-> "none", echoed |-> FALSE,
             ack |-> "none", ledger |-> <<>>, failures |-> {},
             rejected |-> FALSE, deferred |-> <<>>, held |-> <<>>, speech |-> 0,
             quiet |-> 0, closed |-> FALSE]
    /\ flag = "none" /\ over = FALSE
    /\ frames = 0 /\ lastFrame = 0
    /\ cancels = [r \in Response |-> 0] /\ cut = {} /\ leaked = {} /\ stops = {}
    /\ asked = [b \in Batch |-> 0] /\ undelivered = {} /\ reported = {}
-----------------------------------------------------------------------------
(* Callers: admission to the ingress                                       *)

Controls == {i \in DOMAIN ordered : ordered[i].t \notin Audio}

(* Mutant: admission does not look at the capacity.                        *)
PushPastCap(input) ==
    /\ ~over /\ ordered' = Append(ordered, input)
    /\ toolEvents' = IF input.t \in ToolEvent THEN toolEvents + 1 ELSE toolEvents

(* A full ingress refuses the input; a waiting caller tries again.         *)
Push(input) ==
    /\ ~over /\ Len(ordered) < IngressCap
    /\ ordered' = Append(ordered, input)
    /\ toolEvents' = IF input.t \in ToolEvent THEN toolEvents + 1 ELSE toolEvents

SendAudio ==
    /\ Spend("frames")
    /\ \E t \in Audio : Push(Task(t, frames + 1))
    /\ frames' = frames + 1
    /\ UNCHANGED <<lane, inbox, forwarder, provVars, agenda, st, flag, over,
                   sendVars, leaked, reported>>

(* RESPONSE.CANCEL takes the priority lane unless a control is ahead of it *)
(* or the lane is full.                                                    *)
SendControl ==
    /\ Spend("controls")
    /\ \E t \in {"commit", "cancel", "message"} :
         IF t = "cancel" /\ Controls = {} /\ lane < LaneCap
         THEN ~over /\ lane' = lane + 1 /\ UNCHANGED <<ordered, toolEvents>>
         ELSE Push(Task(t, 0)) /\ UNCHANGED lane
    /\ UNCHANGED <<inbox, forwarder, frames, provVars, agenda, st, flag, over,
                   sendVars, leaked, reported>>

(* The acknowledgement of a long-running tool.                             *)
SendAck ==
    /\ scenario.acks > 0 /\ Push(Task("ack", 0))
    /\ scenario' = [scenario EXCEPT !.acks = @ - 1, !.acked = TRUE]
    /\ UNCHANGED <<lane, inbox, forwarder, frames, provVars, agenda, st, flag, over,
                   sendVars, leaked, reported>>

(* The tick goroutine: TOOLCALL.END, then one RESPONSE.CREATE, then the    *)
(* coordinator's request for the batch.  A full ingress fails the tick,    *)
(* and with it the loop.                                                   *)
ForwardResult ==
    LET b == forwarder.batch IN
    /\ \/ /\ forwarder.step = "result" /\ Spend("batches")
          /\ Push(Task("result", b))
          /\ forwarder' = [forwarder EXCEPT !.step = "cont"]
          /\ UNCHANGED inbox
       \/ /\ forwarder.step = "cont" /\ Push(Task("cont", b))
          /\ forwarder' = [forwarder EXCEPT !.step = "request"]
          /\ UNCHANGED <<scenario, inbox>>
       \/ /\ forwarder.step = "request" /\ ~over
          /\ inbox' = Append(inbox, b)
          /\ forwarder' = [batch |-> b + 1, step |-> "result"]
          /\ UNCHANGED <<scenario, ordered, toolEvents>>
       \/ /\ forwarder.step = "cont" \/ (forwarder.step = "result" /\ scenario.batches > 0)
          /\ ~over /\ Len(ordered) = IngressCap
          /\ forwarder' = [forwarder EXCEPT !.step = "failed"]
          /\ UNCHANGED <<scenario, inbox, ordered, toolEvents>>
    /\ UNCHANGED <<lane, frames, provVars, agenda, st, flag, over, sendVars, leaked,
                   reported>>
-----------------------------------------------------------------------------
(* The provider                                                            *)

Msg(t, r) == [t |-> t, r |-> r]

(* A response opens, for a request (turn, cont, ack) or on its own (vad);  *)
(* output of older responses than the last Retention is never late.        *)
Opens(why, msgs) ==
    /\ Len(origin) < MaxResponses
    /\ prov.old = 0 \/ prov.old + Retention > Len(origin) + 1
    /\ origin' = Append(origin, why)
    /\ receive' = receive \o msgs \o <<Msg("start", Len(origin) + 1)>>

(* A provider that names its responses may replace one before it ended.    *)
ProviderSpeaks ==
    /\ Spend("vad") /\ ~over /\ ~st.closed
    /\ prov.active = 0 \/ (scenario.tagged /\ prov.old = 0)
    /\ Opens("vad", <<>>)
    /\ prov' = [prov EXCEPT !.active = Len(origin) + 1, !.old = prov.active, !.fresh = TRUE]
    /\ UNCHANGED <<inputVars, wire, agenda, st, flag, over, sendVars, leaked,
                   reported>>

(* One more message of the playing response: a second start (MESSAGE.START *)
(* and AUDIO.START) or output; a replaced response may still produce some. *)
ProviderStreams ==
    /\ ~over
    /\ \/ /\ prov.fresh /\ prov' = [prov EXCEPT !.fresh = FALSE]
          /\ \E t \in {"start", "delta"} : receive' = Append(receive, Msg(t, prov.active))
       \/ /\ prov.old # 0 /\ prov' = [prov EXCEPT !.old = 0]
          /\ receive' \in {receive \o <<Msg("delta", prov.old), Msg("end", prov.old)>>,
                           receive}
    /\ UNCHANGED <<scenario, inputVars, wire, origin, agenda, st, flag, over,
                   sendVars, leaked, reported>>

(* The response ends; the adapter repeats the requests rejected meanwhile. *)
Ends ==
    IF prov.retry = <<>>
    THEN /\ receive' = Append(receive, Msg("end", prov.active))
         /\ prov' = [prov EXCEPT !.active = 0, !.fresh = FALSE]
         /\ UNCHANGED origin
    ELSE /\ Opens(Head(prov.retry), <<Msg("end", prov.active)>>)
         /\ prov' = [prov EXCEPT !.active = Len(origin) + 1, !.fresh = TRUE,
                               !.retry = Tail(@)]

ProviderEnds ==
    /\ ~over /\ prov.active # 0 /\ Ends
    /\ UNCHANGED <<scenario, inputVars, wire, agenda, st, flag, over, sendVars,
                   leaked, reported>>

(* A request arrives.  A cancel ends whatever plays, and a second active   *)
(* response is rejected.                                                   *)
ProviderTakes ==
    LET request == Head(wire) IN
    /\ ~over /\ wire # <<>> /\ wire' = Tail(wire)
    /\ \/ /\ request.t = "cancel" /\ prov.active = 0
          /\ UNCHANGED <<prov, origin, receive, stops>>
       \/ /\ request.t = "cancel" /\ prov.active # 0 /\ Ends
          /\ stops' = IF request.r = 0 THEN stops
                      ELSE stops \cup {[meant |-> request.r, hit |-> prov.active]}
       \/ /\ request.t # "cancel" /\ prov.active = 0
          /\ Opens(request.t, <<>>)
          /\ prov' = [prov EXCEPT !.active = Len(origin) + 1, !.fresh = TRUE]
          /\ UNCHANGED stops
       \/ /\ request.t # "cancel" /\ prov.active # 0
          /\ receive' = Append(receive, Msg("reject", prov.active))
          /\ prov' = [prov EXCEPT !.retry = Append(@, request.t)]
          /\ UNCHANGED <<origin, stops>>
    /\ UNCHANGED <<scenario, inputVars, agenda, st, flag, over, lastFrame, cancels,
                   cut, asked, undelivered, leaked, reported>>

ProviderCloses ==
    /\ Spend("ends") /\ ~over
    /\ receive' = Append(receive, Msg("close", 0))
    /\ UNCHANGED <<inputVars, wire, prov, origin, agenda, st, flag, over, sendVars,
                   leaked, reported>>
-----------------------------------------------------------------------------
(* The response lifecycle (sessionstate)                                   *)

(* The response ID on a message; "" from a provider that names none.       *)
Id(r) == IF scenario.tagged THEN r ELSE 0
(* The start of a response tells that it answers a continuation request.   *)
EchoesContinuation(m) == scenario.echo /\ origin[m.r] = "cont"

InFlight(s) == s.phase \in {"inflight", "cancelling"}
CancelSent(s) == s.phase \in {"cancelling", "interrupted"}
AckOutstanding(s) == s.ack \in {"outstanding", "cancelled"}
Bound(s) == s.cont \in {"tagged", "guessed"}
CancelPending(s) == s.phase = "cancelling" \/ s.ack = "cancelled"

(* Mutants: a cancel is repeated; a continuation may be cancelled.         *)
CancelTargetAgain(s) == (InFlight(s) \/ AckOutstanding(s)) /\ ~Bound(s)
CancelTargetAny(s) == (InFlight(s) \/ AckOutstanding(s)) /\ ~CancelPending(s)

CancelTarget(s) ==
    (InFlight(s) \/ AckOutstanding(s)) /\ ~Bound(s) /\ ~CancelPending(s)

Status(ledger, r) ==
    IF \E i \in DOMAIN ledger : ledger[i].r = r
    THEN (CHOOSE e \in Elems(ledger) : e.r = r).status ELSE "unknown"

Closed(status) == status \in {"retired", "terminal"}

(* A closed status is final; the oldest entry makes room for a new one.    *)
Mark(ledger, r, status) ==
    IF Id(r) = 0 \/ Closed(Status(ledger, r)) THEN ledger
    ELSE IF Status(ledger, r) # "unknown"
    THEN [i \in DOMAIN ledger |->
            IF ledger[i].r = r THEN [ledger[i] EXCEPT !.status = status] ELSE ledger[i]]
    ELSE LET grown == Append(ledger, [r |-> r, status |-> status]) IN
         IF Len(grown) > Retention THEN Tail(grown) ELSE grown

NoteCancelSent(s) ==
    [s EXCEPT !.phase = CASE @ = "inflight" -> "cancelling"
                          [] @ = "idle" -> "interrupted" [] OTHER -> @,
              !.ack = IF @ = "outstanding" THEN "cancelled" ELSE @,
              !.ledger = Mark(@, s.r, "cancelled")]

EndAck(s) == [s EXCEPT !.ack = IF AckOutstanding(s) THEN "ended" ELSE @]
EndContinuation(s) == [s EXCEPT !.cont = IF Bound(s) THEN "ended" ELSE @]

(* A start opens a response unless it is closed or already open.           *)
BeginsResponse(s, r) ==
    /\ ~(scenario.tagged /\ Closed(Status(s.ledger, r)))
    /\ InFlight(s) => Id(s.r) # Id(r)

RetireResponse(s) ==
    IF InFlight(s) /\ Id(s.r) # 0
    THEN EndContinuation(EndAck([s EXCEPT !.ledger = Mark(@, s.r, "retired")])) ELSE s

(* tagSessionAcknowledgement has overwritten the purpose of a start it     *)
(* takes for the acknowledgement's.                                        *)
BindContinuation(s, m, acknowledgement) ==
    LET tagged == EchoesContinuation(m) /\ ~acknowledgement
        echoed == s.echoed \/ tagged
        guessed == ~tagged /\ ~echoed /\ s.cont = "requested" IN
    [s EXCEPT !.echoed = echoed,
              !.cont = CASE acknowledgement -> @ [] tagged -> "tagged"
                         [] guessed -> "guessed" [] OTHER -> @]

StartResponse(s, m, acknowledgement) ==
    IF ~BeginsResponse(s, m.r) THEN s
    ELSE LET started == BindContinuation([RetireResponse(s) EXCEPT !.phase = "inflight",
                                              !.r = m.r], m, acknowledgement) IN
         IF acknowledgement /\ started.ack = "cancelled"
         THEN [started EXCEPT !.phase = "cancelling",
                   !.ledger = Mark(@, m.r, "cancelled")]
         ELSE started

OwnsResponseEnd(s, r) ==
    IF ~scenario.tagged THEN InFlight(s) \/ s.phase # "completed"
    ELSE /\ ~Closed(Status(s.ledger, r))
         /\ Status(s.ledger, r) = "cancelled" => s.r = r
         /\ IF InFlight(s) THEN s.r = r ELSE s.phase # "completed"

EndResponse(s, m, acknowledgement) ==
    LET owned == IF scenario.tagged THEN m.r ELSE s.r
        ended == EndContinuation([s EXCEPT
                   !.phase = CASE acknowledgement -> "idle"
                               [] CancelSent(s) -> "interrupted" [] OTHER -> "completed",
                   !.r = 0, !.ledger = Mark(@, owned, "terminal")]) IN
    IF acknowledgement THEN EndAck(ended) ELSE ended

(* Mutant: an ID the ledger knows is not stale by itself.                  *)
StaleSuperseded(s, r) ==
    IF ~scenario.tagged THEN CancelSent(s) \/ s.ack = "cancelled"
    ELSE s.r # 0 /\ s.r # r

StaleCustomerOutput(s, r) ==
    IF ~scenario.tagged THEN CancelSent(s) \/ s.ack = "cancelled"
    ELSE Status(s.ledger, r) # "unknown" \/ (s.r # 0 /\ s.r # r)

(* A request rejected because a response was active: the acknowledgement   *)
(* if one is outstanding (tagSessionAcknowledgement), otherwise a guessed  *)
(* continuation.  No adapter tags output as acknowledgement by itself.     *)
Attribute(s, m) ==
    IF m.t # "reject" THEN s
    ELSE IF AckOutstanding(s) THEN [s EXCEPT !.ack = "none"]
    ELSE [s EXCEPT !.cont = IF @ = "guessed" THEN "requested" ELSE @]

Observe(s, m) ==
    LET a == Attribute(s, m) IN
    CASE m.t = "start" -> StartResponse(a, m, AckOutstanding(a))
      [] m.t = "end" /\ OwnsResponseEnd(a, m.r) -> EndResponse(a, m, AckOutstanding(a))
      [] m.t = "close" -> [a EXCEPT !.closed = TRUE, !.cont = "none", !.failures = {}]
      [] OTHER -> a
-----------------------------------------------------------------------------
(* Handlers of the session goroutine                                       *)

Doing(t) == agenda # <<>> /\ ~over /\ Head(agenda).t = t
Rest == Tail(agenda)
Outcomes(kind) == IF kind \in FailKinds /\ scenario.fails > 0 THEN BOOLEAN ELSE {TRUE}
Count(kind, ok) ==
    scenario' = IF ok THEN scenario
                ELSE [scenario EXCEPT !.fails = @ - 1, !.refused = @ \cup {kind}]

(* Mutant: only the end of an acknowledgement replays deferred events.     *)
ReplaysOnAck(messageEnded, ackEnded) == ackEnded

(* The end of the response, or of the acknowledgement, that deferred       *)
(* events wait for.                                                        *)
Replays(messageEnded, ackEnded) == messageEnded \/ ackEnded

(* forwardSessionMessageState for the first message of Receive, with what  *)
(* it releases put before the calls next.                                  *)
ObserveMessage(next) ==
    LET m == Head(receive)
        s == Observe(st, m)
        messageEnded == m.t = "end" /\ OwnsResponseEnd(Attribute(st, m), m.r)
        ackEnded == s.ack = "ended"
        continuationDone == s.cont = "ended"
        replays == Replays(messageEnded, ackEnded) IN
    /\ receive' = Tail(receive)
    /\ st' = [s EXCEPT !.ack = IF ackEnded THEN "none" ELSE @,
                       !.cont = IF continuationDone THEN "none" ELSE @,
                       !.deferred = IF replays THEN <<>> ELSE @]
    /\ agenda' = (IF messageEnded /\ s.held # <<>> THEN <<Task("flush", 0)>> ELSE <<>>)
                 \o (IF replays THEN s.deferred ELSE <<>>)
                 \o (IF continuationDone THEN <<Task("report", 0)>> ELSE <<>>) \o next
    /\ flag' = IF m.t = "close" THEN "none" ELSE flag
    /\ reported' = IF m.t = "close" THEN reported \cup st.failures ELSE reported
    /\ leaked' = IF m.t = "delta" /\ ~StaleCustomerOutput(s, m.r)
                 THEN leaked \cup ({m.r} \cap cut) ELSE leaked
    /\ UNCHANGED <<scenario, inputVars, wire, prov, origin, over, sendVars>>

(* forwardSessionInput: audio first drains Receive.                        *)
TakeInput(next) ==
    LET input == Head(ordered) IN
    /\ ordered' = Tail(ordered)
    /\ agenda' = (IF input.t \in Audio THEN <<Task("pending", 0)>> ELSE <<>>)
                 \o <<input>> \o next
    /\ UNCHANGED <<scenario, lane, toolEvents, inbox, forwarder, frames, provVars,
                   st, flag, over, sendVars, leaked, reported>>

TakeCancel(next) ==
    /\ lane' = lane - 1
    /\ agenda' = <<Task("cancel", 0)>> \o next
    /\ UNCHANGED <<scenario, ordered, toolEvents, inbox, forwarder, frames,
                   provVars, st, flag, over, sendVars, leaked, reported>>

Return ==
    /\ agenda' = Rest
    /\ UNCHANGED <<scenario, inputVars, provVars, st, flag, over, sendVars, leaked,
                   reported>>

ForwardPendingMessages ==
    /\ Doing("pending")
    /\ IF receive # <<>> THEN ObserveMessage(agenda) ELSE Return

(* Provider messages, then priority cancels, then ordered input.           *)
ForwardPendingInputs ==
    /\ Doing("inputs")
    /\ CASE receive # <<>> -> ObserveMessage(agenda)
         [] receive = <<>> /\ lane > 0 -> TakeCancel(agenda)
         [] receive = <<>> /\ lane = 0 /\ ordered # <<>> -> TakeInput(agenda)
         [] OTHER -> Return
-----------------------------------------------------------------------------
(* Audio                                                                   *)

(* Detector.Observe: the speech heard so far decides the onset.            *)
Hear(s, t) ==
    IF t = "loud"
    THEN [s EXCEPT !.quiet = 0, !.speech = IF @ < MinSpeech THEN @ + 1 ELSE @]
    ELSE [s EXCEPT !.quiet = IF @ <= Hangover THEN @ + 1 ELSE @,
                   !.speech = IF s.quiet >= Hangover THEN 0 ELSE @]

(* releaseHeldAudio and more: the provider takes the first k frames.       *)
SendFrames(sent, k) ==
    lastFrame' = IF k > 0 THEN sent[k].n ELSE lastFrame

(* How many of the frames the provider takes: all, or those before one it  *)
(* refuses.                                                                *)
Taken(sent) ==
    IF FALSE \in Outcomes("audio") THEN 0..Len(sent) ELSE {Len(sent)}

(* A barge-in cancel is accepted for the current response.                 *)
CancelCurrent ==
    /\ cancels' = IF st.r = 0 THEN cancels ELSE [cancels EXCEPT ![st.r] = @ + 1]
    /\ cut' = cut \cup ({st.r} \ {0})
    /\ wire' = Append(wire, Msg("cancel", st.r))

(* Mutant: the frame goes before the held ones.                            *)
FrameFirst(frame) == <<frame>> \o st.held

(* releaseHeldAudio, then forwardUserAudio of the frame.                   *)
Released(frame) == Append(st.held, frame)

(* forwardSessionAudio: a loud frame that is not yet an onset is held, an  *)
(* onset cancels the response first; then held frames and the frame go.    *)
ForwardAudio ==
    /\ \E t \in Audio : Doing(t)
    /\ LET frame == Head(agenda)
           s == IF frame.t = "plain" THEN st ELSE Hear(st, frame.t)
           onset == frame.t = "loud" /\ s.speech >= MinSpeech
           sent == Released(frame) IN
       IF frame.t = "loud" /\ ~onset /\ CancelTarget(st)
       THEN /\ st' = [s EXCEPT !.held = Append(@, frame)]
            /\ agenda' = Rest
            /\ UNCHANGED <<scenario, wire, over, lastFrame, cancels, cut, reported>>
       ELSE \E ok \in IF onset /\ CancelTarget(st) THEN Outcomes("cancel") ELSE {TRUE},
               k \in Taken(sent) :
              /\ ok \/ k = Len(sent)
              /\ IF onset /\ CancelTarget(st) /\ ok THEN CancelCurrent
                 ELSE UNCHANGED <<cancels, cut, wire>>
              /\ SendFrames(sent, IF ok THEN k ELSE 0)
              /\ Count(IF ok THEN "audio" ELSE "cancel", ok /\ k = Len(sent))
              /\ over' = ~(ok /\ k = Len(sent))
              /\ st' = [IF onset /\ CancelTarget(st) /\ ok THEN NoteCancelSent(s) ELSE s
                          EXCEPT !.held = <<>>, !.failures = IF over' THEN {} ELSE @]
              /\ reported' = IF over' THEN reported \cup st.failures ELSE reported
              /\ agenda' = IF over' THEN <<>> ELSE Rest
    /\ UNCHANGED <<inputVars, prov, origin, receive, flag, stops, asked, undelivered,
                   leaked>>

Control == {"commit", "message", "result", "cont", "ack"}

(* flushHeldAudio, also the first step of every control but a cancel: what *)
(* the provider refuses is published and the runner goes on.               *)
FlushHeld ==
    /\ \/ Doing("flush") /\ agenda' = Rest
       \/ (\E t \in Control : Doing(t)) /\ st.held # <<>> /\ agenda' = agenda
    /\ \E k \in Taken(st.held) :
         SendFrames(st.held, k) /\ Count("audio", k = Len(st.held))
    /\ st' = [st EXCEPT !.held = <<>>]
    /\ UNCHANGED <<inputVars, provVars, flag, over, cancels, stops, cut, asked,
                   undelivered, leaked, reported>>

(* expireHeldOnset, after the queued input was drained: only the hold      *)
(* whose window expired is released.                                       *)
ReleaseExpired ==
    /\ Doing("expired")
    /\ agenda' = IF st.held # <<>> /\ st.held[1].n = Head(agenda).n
                 THEN <<Task("flush", 0)>> \o Rest ELSE Rest
    /\ UNCHANGED <<scenario, inputVars, provVars, st, flag, over, sendVars, leaked,
                   reported>>
-----------------------------------------------------------------------------
(* Control events: forwardQueuedSessionEvent                               *)

Handling(t) == Doing(t) /\ st.held = <<>>
Consumed == toolEvents' = IF toolEvents > 0 THEN toolEvents - 1 ELSE 0
KeepInput == UNCHANGED <<ordered, lane, inbox, forwarder, frames>>

ForwardCancel ==
    /\ Doing("cancel")
    /\ \E ok \in Outcomes("cancel") :
         /\ st' = IF ok THEN NoteCancelSent(st) ELSE st
         /\ wire' = IF ok THEN Append(wire, Msg("cancel", 0)) ELSE wire
         /\ cut' = IF ok THEN cut \cup ({st.r} \ {0}) ELSE cut
         /\ Count("cancel", ok)
    /\ agenda' = IF st.held = <<>> THEN Rest ELSE <<Task("flush", 0)>> \o Rest
    /\ UNCHANGED <<inputVars, prov, origin, receive, flag, over, lastFrame, cancels,
                   stops, asked, undelivered, leaked, reported>>

(* MESSAGE.END waits while a cancel is unacknowledged.                     *)
ForwardCommit ==
    /\ Handling("commit")
    /\ IF CancelPending(st)
       THEN st' = [st EXCEPT !.deferred = Append(@, Head(agenda))] /\ UNCHANGED wire
       ELSE wire' = Append(wire, Msg("turn", 0)) /\ UNCHANGED st
    /\ agenda' = Rest
    /\ UNCHANGED <<scenario, inputVars, prov, origin, receive, flag, over, sendVars,
                   leaked, reported>>

ForwardMessage ==
    /\ Handling("message")
    /\ wire' = Append(wire, Msg("turn", 0)) /\ agenda' = Rest
    /\ UNCHANGED <<scenario, inputVars, prov, origin, receive, st, flag, over,
                   sendVars, leaked, reported>>

(* A refused result suppresses the continuation of its batch.              *)
ForwardToolResult ==
    LET b == Head(agenda).n IN
    /\ Handling("result")
    /\ \E ok \in Outcomes("result") :
         /\ st' = IF ok THEN st ELSE [st EXCEPT !.failures = @ \cup {b}, !.rejected = TRUE]
         /\ flag' = IF ok THEN flag ELSE "suppressed"
         /\ undelivered' = IF ok THEN undelivered ELSE undelivered \cup {b}
         /\ Count("result", ok)
    /\ Consumed /\ agenda' = Rest
    /\ KeepInput
    /\ UNCHANGED <<provVars, over, lastFrame, cancels, stops, cut, asked, leaked,
                   reported>>

(* suppressRejectedBatchContinuation.                                      *)
SuppressContinuation ==
    /\ Handling("cont") /\ st.rejected
    /\ st' = [st EXCEPT !.rejected = FALSE, !.failures = {}]
    /\ flag' = "suppressed" /\ reported' = reported \cup st.failures
    /\ Consumed /\ agenda' = Rest
    /\ KeepInput /\ UNCHANGED <<scenario, provVars, over, sendVars, leaked>>

(* An outstanding acknowledgement holds the continuation; otherwise        *)
(* syncProviderMessages drains Receive before the request.                 *)
HoldOrSync ==
    /\ Handling("cont") /\ ~st.rejected
    /\ IF AckOutstanding(st)
       THEN /\ st' = [st EXCEPT !.deferred = Append(@, Head(agenda))]
            /\ agenda' = Rest
       ELSE /\ agenda' = <<Task("pending", 0), Task("request", Head(agenda).n)>> \o Rest
            /\ UNCHANGED st
    /\ UNCHANGED <<scenario, inputVars, provVars, flag, over, sendVars, leaked,
                   reported>>

(* DeferResponseRequest of a continuation.                                 *)
DefersContinuation(s) == CancelPending(s) \/ InFlight(s)

RequestContinuation ==
    LET b == Head(agenda).n IN
    /\ Doing("request")
    /\ IF DefersContinuation(st)
       THEN /\ st' = [st EXCEPT !.deferred = Append(@, Task("cont", b))]
            /\ UNCHANGED <<scenario, toolEvents, wire, flag, asked>>
       ELSE \E ok \in Outcomes("cont") :
            /\ st' = IF ok THEN [st EXCEPT !.cont = "requested"] ELSE st
            /\ flag' = IF ok THEN "accepted" ELSE flag
            /\ wire' = IF ok THEN Append(wire, Msg("cont", 0)) ELSE wire
            /\ asked' = [asked EXCEPT ![b] = @ + 1]
            /\ Count("cont", ok) /\ Consumed
    /\ agenda' = Rest
    /\ KeepInput
    /\ UNCHANGED <<prov, origin, receive, over, lastFrame, cancels, stops, cut,
                   undelivered, leaked, reported>>

(* Mutant: a dropped acknowledgement stays counted.                        *)
KeepDropped == UNCHANGED toolEvents

(* A dropped acknowledgement never replays: it is released now.            *)
ReleaseDropped == Consumed

(* A progress acknowledgement is dropped while a response is active or     *)
(* requested; an accepted one forgets an earlier cancel.                   *)
ForwardAck ==
    LET drops == InFlight(st) \/ st.cont = "requested" \/ Bound(st) \/ AckOutstanding(st) IN
    /\ Handling("ack")
    /\ IF drops THEN ReleaseDropped /\ UNCHANGED <<st, wire>>
       ELSE /\ Consumed
            /\ st' = [st EXCEPT !.ack = "outstanding",
                        !.phase = CASE @ = "cancelling" -> "inflight"
                                    [] @ = "interrupted" -> "idle" [] OTHER -> @]
            /\ wire' = Append(wire, Msg("ack", 0))
    /\ agenda' = Rest
    /\ KeepInput
    /\ UNCHANGED <<scenario, prov, origin, receive, flag, over, sendVars, leaked,
                   reported>>

(* flushPendingSessionSendErrors at the end of a continuation.             *)
Report ==
    /\ Doing("report")
    /\ st' = [st EXCEPT !.failures = {}] /\ reported' = reported \cup st.failures
    /\ agenda' = Rest
    /\ UNCHANGED <<scenario, inputVars, provVars, flag, over, sendVars, leaked>>
-----------------------------------------------------------------------------
(* awaitSessionStep                                                        *)

Loop == <<Task("inputs", 0), Task("await", 0)>>

AwaitMessage == Doing("await") /\ receive # <<>> /\ ObserveMessage(Loop)
AwaitInput == Doing("await") /\ ordered # <<>> /\ TakeInput(Loop)
AwaitCancel ==
    /\ Doing("await") /\ lane > 0
    /\ lane' = lane - 1
    /\ agenda' = <<Task("pending", 0), Task("cancel", 0)>> \o Loop
    /\ UNCHANGED <<scenario, ordered, toolEvents, inbox, forwarder, frames,
                   provVars, st, flag, over, sendVars, leaked, reported>>

AwaitExpiry ==
    /\ Doing("await") /\ st.held # <<>>
    /\ agenda' = <<Task("inputs", 0), Task("expired", st.held[1].n)>> \o Loop
    /\ UNCHANGED <<scenario, inputVars, provVars, st, flag, over, sendVars, leaked,
                   reported>>

(* Mutant: queued results are not looked at.                               *)
NoResultsPending == FALSE

ResultsPending == toolEvents > 0

(* sendLatestUserText for the results of a batch that the forwarder        *)
(* delivers: nothing while they are pending, or once their continuation    *)
(* was requested or suppressed; otherwise the user's text again.           *)
AwaitRequest ==
    LET b == Head(inbox) IN
    /\ Doing("await") /\ inbox # <<>>
    /\ inbox' = Tail(inbox) /\ agenda' = Loop
    /\ IF st.closed \/ ResultsPending THEN UNCHANGED <<flag, wire, asked>>
       ELSE IF flag # "none" THEN flag' = "none" /\ UNCHANGED <<wire, asked>>
       ELSE /\ wire' = Append(wire, Msg("turn", 0))
            /\ asked' = [asked EXCEPT ![b] = @ + 1]
            /\ UNCHANGED flag
    /\ UNCHANGED <<scenario, ordered, lane, toolEvents, forwarder, frames, prov,
                   origin, receive, st, over, lastFrame, cancels, stops, cut,
                   undelivered, leaked, reported>>

(* Mutant: the session ends without reporting refused results.             *)
EndUnreported == UNCHANGED <<st, reported>>

ReportAll ==
    st' = [st EXCEPT !.failures = {}] /\ reported' = reported \cup st.failures

(* endSession once the context ended, the failed loop's included, or       *)
(* finishClosedSession after a close.                                      *)
AwaitEnd ==
    /\ Doing("await") /\ receive = <<>>
    /\ \/ (st.closed \/ forwarder.step = "failed") /\ UNCHANGED scenario
       \/ Spend("ends")
    /\ over' = TRUE /\ agenda' = <<>>
    /\ ReportAll
    /\ UNCHANGED <<inputVars, provVars, flag, sendVars, leaked>>
-----------------------------------------------------------------------------
Environment == SendAudio \/ SendControl \/ SendAck \/ ForwardResult
Provider == ProviderSpeaks \/ ProviderStreams \/ ProviderEnds \/ ProviderTakes
            \/ ProviderCloses
Await == AwaitMessage \/ AwaitInput \/ AwaitCancel \/ AwaitExpiry \/ AwaitRequest \/ AwaitEnd
Events == ForwardCancel \/ ForwardCommit \/ ForwardMessage \/ ForwardToolResult
          \/ SuppressContinuation \/ HoldOrSync \/ RequestContinuation \/ ForwardAck
Runner == ForwardPendingMessages \/ ForwardPendingInputs \/ ForwardAudio \/ FlushHeld
          \/ ReleaseExpired \/ Events \/ Report \/ Await

Next == Environment \/ Provider \/ Runner

Spec == Init /\ [][Next]_vars
-----------------------------------------------------------------------------
(* Properties                                                              *)

Pending == agenda \o st.deferred \o ordered
ToolTask == [t : ToolEvent \cup {"request"}, n : Nat]
AudioTask == [t : Audio, n : Nat]

TypeOK ==
    /\ ordered \in Seq(Input) /\ Len(ordered) <= IngressCap /\ lane \in 0..LaneCap
    /\ toolEvents \in Nat
    /\ st.phase \in {"idle", "inflight", "cancelling", "completed", "interrupted"}
    /\ st.r \in 0..Len(origin) /\ Len(origin) <= MaxResponses
    /\ st.cont \in {"none", "requested", "tagged", "guessed"}
    /\ st.ack \in {"none", "outstanding", "cancelled"}
    /\ Len(st.ledger) <= Retention
    /\ flag \in {"none", "accepted", "suppressed"}

(* Audio reaches the provider in admission order and, unless a send        *)
(* failed, without a gap, through barge-in holds, cancels and timeouts.    *)
AudioInOrder ==
    LET left == st.held \o Only(agenda \o ordered, AudioTask) IN
    ~over =>
      /\ \A i \in 1..Len(left) - 1 : left[i].n < left[i + 1].n
      /\ left # <<>> => lastFrame < left[1].n
      /\ "audio" \notin scenario.refused => Len(left) = frames - lastFrame

(* Every tool event the ingress accepted is counted until it is forwarded, *)
(* suppressed or dropped, however often it is deferred.                    *)
ToolEventsCounted == ~over => toolEvents = Len(Only(Pending, ToolTask))

(* Interrupting speech cancels a response at most once.                    *)
OneCancelPerResponse == \A r \in Response : cancels[r] <= 1

(* Speech is never meant to cut off the continuation of a tool batch, if   *)
(* the provider tells which response that is (otherwise the binding is a   *)
(* guess) and no acknowledgement was requested, for which its start could  *)
(* be taken; a closed session forgets the binding.  RESPONSE.CANCEL names  *)
(* no response and ends what plays when it arrives: that is a continuation *)
(* only if the response it was meant for was over before.                  *)
ContinuationSpared ==
    scenario.echo /\ ~scenario.acked /\ ~st.closed =>
        /\ \A r \in 1..Len(origin) : origin[r] = "cont" => cancels[r] = 0
        /\ \A s \in stops : origin[s.hit] = "cont" => s.meant < s.hit

(* No output of a response crosses to the customer after its cancel.       *)
NoOutputAfterCancel == leaked = {}

(* No response is requested for a batch while its result or continuation   *)
(* still waits in the runner: the race pendingToolEvents closes.           *)
ResultsBeforeRequest ==
    \A b \in Batch : asked[b] > 0 =>
        \A i \in DOMAIN Pending : Pending[i] \in ToolTask => Pending[i].n # b

(* A batch is answered by at most one response request.                    *)
OneRequestPerBatch == \A b \in Batch : asked[b] <= 1

(* A refused result is reported once, at the latest when the session ends. *)
FailuresReported ==
    /\ undelivered = st.failures \cup reported /\ st.failures \cap reported = {}
    /\ over => st.failures = {}

AtRest ==
    /\ agenda = <<Task("await", 0)>> /\ ordered = <<>> /\ lane = 0 /\ receive = <<>>
    /\ wire = <<>> /\ prov.active = 0 /\ prov.old = 0 /\ st.held = <<>> /\ ~st.closed

(* When nothing is under way any more, nothing waits either: no deferred   *)
(* event, open response, acknowledgement or unreported failure is left.    *)
Settled ==
    AtRest => /\ st.deferred = <<>> /\ ~InFlight(st) /\ ~AckOutstanding(st)
              /\ toolEvents = 0
              /\ forwarder.step = "result" => st.failures = {}
=============================================================================
