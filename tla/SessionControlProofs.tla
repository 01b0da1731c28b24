------------------------ MODULE SessionControlProofs ------------------------
(***************************************************************************)
(* Theorems about SessionControl for every provider, every number of       *)
(* frames, controls, batches and responses, and every capacity: the shape  *)
(* of its state and the path of input, tool results and continuations.     *)
(***************************************************************************)
EXTENDS SessionControl, SequenceLemmas

-----------------------------------------------------------------------------
(* Types                                                                   *)

TaskName == Audio \cup ToolEvent \cup
            {"commit", "cancel", "message", "inputs", "await", "pending",
             "expired", "flush", "report", "request"}

(* What the goroutine may have to do; tool events name a batch.            *)
Tasks == {x \in [t : TaskName, n : Nat] :
            x.t \in {"result", "cont", "request"} => x.n \in Batch}

Inputs == {x \in Tasks : x.t \in Audio \cup ToolEvent \cup {"commit", "cancel", "message"}}
Deferrable == {x \in Tasks : x.t \in {"commit", "cont"}}

EntryStatus == {"cancelled", "retired", "terminal"}
Entry == [r : Nat, status : EntryStatus]
Phase == {"idle", "inflight", "cancelling", "completed", "interrupted"}
Continuation == {"none", "requested", "tagged", "guessed"}
Acknowledgement == {"none", "outstanding", "cancelled"}

(* A handler's state: "ended" is left in it until its caller has looked.   *)
State == [phase : Phase, r : Nat, cont : Continuation \cup {"ended"},
          echoed : BOOLEAN, ack : Acknowledgement \cup {"ended"},
          ledger : Seq(Entry), failures : SUBSET Nat, rejected : BOOLEAN,
          deferred : Seq(Deferrable), held : Seq(AudioTask), speech : Nat,
          quiet : Nat, closed : BOOLEAN]

Request == {"turn", "cont", "ack"}
(* What is on its way to the provider, and the response it is meant for.   *)
Wired == [t : Request \cup {"cancel"}, r : {0} \cup Response]
Message == [t : {"start", "delta", "end", "reject", "close"}, r : Nat]

Scenario == [frames : Nat, controls : Nat, batches : 0..MaxBatches, acks : Nat,
             vad : Nat, fails : Nat, ends : Nat, tagged : BOOLEAN, echo : BOOLEAN,
             refused : SUBSET {"audio", "result", "cont", "cancel"}, acked : BOOLEAN]

(* The runner's reads of its inputs lie at the bottom of its stack.        *)
IdleTask == {x \in Tasks : x.t \in {"inputs", "await", "expired"}}
IdleLast(a) == \A i, j \in 1..Len(a) : i < j /\ a[i] \in IdleTask => a[j] \in IdleTask

InputTypes ==
    /\ scenario \in Scenario
    /\ ordered \in Seq(Inputs) /\ Len(ordered) <= IngressCap
    /\ lane \in 0..LaneCap /\ toolEvents \in Nat
    /\ inbox \in Seq(Batch)
    /\ forwarder \in [batch : Nat, step : {"result", "cont", "request", "failed"}]
    /\ forwarder.batch >= 1
    /\ forwarder.batch - (IF forwarder.step \in {"result", "failed"} THEN 1 ELSE 0)
         + scenario.batches <= MaxBatches
    /\ frames \in Nat

ProviderTypes ==
    /\ wire \in Seq(Wired)
    /\ prov \in [active : Nat, old : Nat, retry : Seq(Request), fresh : BOOLEAN]
    /\ origin \in Seq(Request \cup {"vad"}) /\ Len(origin) <= MaxResponses
    /\ prov.active \in {0, Len(origin)} /\ prov.old \in 0..Len(origin)
    /\ prov.fresh => prov.active # 0
    /\ prov.old # 0 => prov.old # prov.active /\ scenario.tagged
    /\ receive \in Seq(Message)
    /\ \A m \in Elems(receive) : m.t # "close" => m.r \in 1..Len(origin)

(* The state between two handlers.                                         *)
Steady(s) ==
    /\ s \in State /\ s.cont # "ended" /\ s.ack # "ended"
    /\ s.r <= Len(origin) /\ (InFlight(s) <=> s.r # 0)
    /\ Len(s.ledger) <= Retention

RunnerTypes ==
    /\ agenda \in Seq(Tasks) /\ IdleLast(agenda)
    /\ Steady(st)
    /\ flag \in {"none", "accepted", "suppressed"} /\ over \in BOOLEAN

HistoryTypes ==
    /\ lastFrame \in Nat
    /\ cancels \in [Response -> Nat] /\ cut \in SUBSET Nat /\ leaked \in SUBSET Nat
    /\ asked \in [Batch -> Nat]
    /\ undelivered \in SUBSET Nat /\ reported \in SUBSET Nat

TypeInv == InputTypes /\ ProviderTypes /\ RunnerTypes /\ HistoryTypes
-----------------------------------------------------------------------------
(* What the lifecycle's operators do to the state                          *)

LEMMA MarkType ==
    ASSUME NEW l \in Seq(Entry), NEW r \in Nat, NEW status \in EntryStatus
    PROVE  /\ Mark(l, r, status) \in Seq(Entry)
           /\ Len(l) <= Retention => Len(Mark(l, r, status)) <= Retention
<1> DEFINE e == [r |-> r, status |-> status]
           grown == Append(l, e)
           changed == [i \in DOMAIN l |-> IF l[i].r = r THEN [l[i] EXCEPT !.status = status]
                                          ELSE l[i]]
<1>0. Retention \in Nat
    BY SessionAssumption
<1>1. e \in Entry
    BY DEF Entry
<1>2. grown \in Seq(Entry) /\ Len(grown) = Len(l) + 1 /\ grown # <<>> /\ Len(l) \in Nat
    BY <1>1, AppendType
<1>3. changed \in Seq(Entry) /\ Len(changed) = Len(l)
    <2>1. DOMAIN l = 1..Len(l) /\ \A i \in DOMAIN l : l[i] \in Entry
        OBVIOUS
    <2>2. \A i \in DOMAIN l : changed[i] \in Entry
        BY <2>1 DEF Entry
    <2> QED
        BY <2>1, <2>2
<1> HIDE DEF e
<1>4. Tail(grown) \in Seq(Entry) /\ Len(Tail(grown)) = Len(l)
    BY <1>2, TailType
<1> HIDE DEF grown, changed
<1>5. Mark(l, r, status) \in {l, changed, grown, Tail(grown)}
    BY DEF Mark, e, grown, changed
<1>6. Mark(l, r, status) = grown => Len(grown) <= Retention \/ grown \in {l, changed, Tail(grown)}
    BY <1>0, <1>2 DEF Mark, e, grown, changed
<1> QED
    BY <1>0, <1>2, <1>3, <1>4, <1>5, <1>6

(* The fields that carry what waits in the runner: no operator of the      *)
(* response lifecycle looks at them, except a close at the failures.       *)
SameQueues(s, t) ==
    /\ t.deferred = s.deferred /\ t.held = s.held /\ t.rejected = s.rejected

SameSpeech(s, t) == t.speech = s.speech /\ t.quiet = s.quiet

LEMMA NoteCancelFields ==
    ASSUME NEW s \in State
    PROVE  /\ NoteCancelSent(s) \in State
           /\ NoteCancelSent(s).phase = IF s.phase = "inflight" THEN "cancelling"
                                        ELSE IF s.phase = "idle" THEN "interrupted"
                                        ELSE s.phase
           /\ NoteCancelSent(s).ack = IF s.ack = "outstanding" THEN "cancelled" ELSE s.ack
           /\ NoteCancelSent(s).ledger = Mark(s.ledger, s.r, "cancelled")
           /\ NoteCancelSent(s).r = s.r /\ NoteCancelSent(s).cont = s.cont
           /\ NoteCancelSent(s).closed = s.closed
           /\ NoteCancelSent(s).failures = s.failures
           /\ SameQueues(s, NoteCancelSent(s))
<1> DEFINE l == Mark(s.ledger, s.r, "cancelled")
<1>1. l \in Seq(Entry)
    BY MarkType DEF State, EntryStatus
<1> HIDE DEF l
<1> QED
    BY <1>1 DEF NoteCancelSent, State, SameQueues, l, Phase, Acknowledgement

LEMMA HearFields ==
    ASSUME NEW s \in State, NEW t
    PROVE  /\ Hear(s, t) \in State
           /\ Hear(s, t).phase = s.phase /\ Hear(s, t).r = s.r /\ Hear(s, t).ack = s.ack
           /\ Hear(s, t).ledger = s.ledger /\ Hear(s, t).cont = s.cont
           /\ Hear(s, t).closed = s.closed /\ Hear(s, t).failures = s.failures
           /\ SameQueues(s, Hear(s, t))
<1> DEFINE p == IF t = "loud" THEN (IF s.speech < MinSpeech THEN s.speech + 1 ELSE s.speech)
                ELSE IF s.quiet >= Hangover THEN 0 ELSE s.speech
           q == IF t = "loud" THEN 0
                ELSE IF s.quiet <= Hangover THEN s.quiet + 1 ELSE s.quiet
<1>1. s.speech \in Nat /\ s.quiet \in Nat
    BY DEF State
<1>2. p \in Nat /\ q \in Nat
    BY <1>1
<1>3. Hear(s, t) = [s EXCEPT !.quiet = q, !.speech = p]
    <2>1. CASE t = "loud"
        BY <2>1 DEF Hear
    <2>2. CASE t # "loud"
        BY <2>2 DEF Hear
    <2> QED
        BY <2>1, <2>2
<1> HIDE DEF p, q
<1> QED
    BY ZenonT(60), <1>2, <1>3 DEF State, SameQueues

LEMMA EndAckFields ==
    ASSUME NEW s \in State
    PROVE  /\ EndAck(s) \in State
           /\ EndAck(s).ack = IF AckOutstanding(s) THEN "ended" ELSE s.ack
           /\ EndAck(s).phase = s.phase /\ EndAck(s).r = s.r
           /\ EndAck(s).ledger = s.ledger /\ EndAck(s).cont = s.cont
           /\ EndAck(s).closed = s.closed /\ EndAck(s).failures = s.failures
           /\ EndAck(s).echoed = s.echoed /\ SameQueues(s, EndAck(s))
BY DEF EndAck, State, SameQueues

LEMMA EndContinuationFields ==
    ASSUME NEW s \in State
    PROVE  /\ EndContinuation(s) \in State
           /\ EndContinuation(s).cont = IF Bound(s) THEN "ended" ELSE s.cont
           /\ EndContinuation(s).ack = s.ack
           /\ EndContinuation(s).phase = s.phase /\ EndContinuation(s).r = s.r
           /\ EndContinuation(s).ledger = s.ledger
           /\ EndContinuation(s).closed = s.closed
           /\ EndContinuation(s).failures = s.failures
           /\ EndContinuation(s).echoed = s.echoed /\ SameQueues(s, EndContinuation(s))
BY DEF EndContinuation, State, SameQueues

Retires(s) == InFlight(s) /\ Id(s.r) # 0

LEMMA RetireFields ==
    ASSUME NEW s \in State
    PROVE  LET t == RetireResponse(s) IN
           /\ t \in State
           /\ t.ledger = IF Retires(s) THEN Mark(s.ledger, s.r, "retired") ELSE s.ledger
           /\ t.ack = IF Retires(s) /\ AckOutstanding(s) THEN "ended" ELSE s.ack
           /\ t.cont = IF Retires(s) /\ Bound(s) THEN "ended" ELSE s.cont
           /\ t.phase = s.phase /\ t.r = s.r /\ t.closed = s.closed
           /\ t.failures = s.failures /\ t.echoed = s.echoed /\ SameQueues(s, t)
<1> DEFINE l == Mark(s.ledger, s.r, "retired")
           u == [s EXCEPT !.ledger = l]
           v == EndAck(u)
<1>1. l \in Seq(Entry)
    BY MarkType DEF State, EntryStatus
<1>2. RetireResponse(s) = IF Retires(s) THEN EndContinuation(v) ELSE s
    BY DEF RetireResponse, Retires
<1> HIDE DEF l
<1>3. /\ u \in State /\ u.ledger = l
      /\ u.ack = s.ack /\ u.cont = s.cont /\ u.phase = s.phase /\ u.r = s.r
      /\ u.closed = s.closed /\ u.failures = s.failures /\ u.echoed = s.echoed
      /\ SameQueues(s, u)
    BY <1>1 DEF State, SameQueues
<1> HIDE DEF u
<1>4. /\ v \in State /\ v.ledger = l
      /\ v.ack = IF AckOutstanding(s) THEN "ended" ELSE s.ack
      /\ v.cont = s.cont /\ v.phase = s.phase /\ v.r = s.r
      /\ v.closed = s.closed /\ v.failures = s.failures /\ v.echoed = s.echoed
      /\ SameQueues(s, v)
    BY <1>3, EndAckFields DEF SameQueues, AckOutstanding
<1> HIDE DEF v
<1> DEFINE w == EndContinuation(v)
<1>5. /\ w \in State /\ w.ledger = l
      /\ w.ack = IF AckOutstanding(s) THEN "ended" ELSE s.ack
      /\ w.cont = IF Bound(s) THEN "ended" ELSE s.cont
      /\ w.phase = s.phase /\ w.r = s.r
      /\ w.closed = s.closed /\ w.failures = s.failures /\ w.echoed = s.echoed
      /\ SameQueues(s, w)
    BY <1>4, EndContinuationFields DEF SameQueues, Bound
<1> HIDE DEF w
<1>6. CASE Retires(s)
    <2>1. RetireResponse(s) = w
        BY <1>2, <1>6 DEF w
    <2> QED
        BY <2>1, <1>5, <1>6 DEF l
<1>7. CASE ~Retires(s)
    <2>1. RetireResponse(s) = s
        BY <1>2, <1>7
    <2> QED
        BY <2>1, <1>7 DEF SameQueues
<1> QED
    BY <1>6, <1>7

LEMMA BindFields ==
    ASSUME NEW s \in State, NEW m, NEW acknowledgement \in BOOLEAN
    PROVE  LET t == BindContinuation(s, m, acknowledgement) IN
           /\ t \in State
           /\ ~acknowledgement /\ EchoesContinuation(m) => t.cont = "tagged"
           /\ t.phase = s.phase /\ t.r = s.r /\ t.ack = s.ack /\ t.ledger = s.ledger
           /\ t.closed = s.closed /\ t.failures = s.failures /\ SameQueues(s, t)
<1> DEFINE tagged == EchoesContinuation(m) /\ ~acknowledgement
           echoed == s.echoed \/ tagged
           guessed == ~tagged /\ ~echoed /\ s.cont = "requested"
           c == CASE acknowledgement -> s.cont [] tagged -> "tagged"
                  [] guessed -> "guessed" [] OTHER -> s.cont
<1>1. echoed \in BOOLEAN
    OBVIOUS
<1>2. c \in Continuation \cup {"ended"}
    <2>1. s.cont \in Continuation \cup {"ended"}
        BY DEF State
    <2>2. c \in {s.cont, "tagged", "guessed"}
        OBVIOUS
    <2> QED
        BY <2>1, <2>2 DEF Continuation
<1>3. ~acknowledgement /\ EchoesContinuation(m) => c = "tagged"
    OBVIOUS
<1>4. BindContinuation(s, m, acknowledgement) = [s EXCEPT !.echoed = echoed, !.cont = c]
    BY DEF BindContinuation
<1> HIDE DEF c, echoed
<1> QED
    BY ZenonT(60), <1>1, <1>2, <1>3, <1>4 DEF State, SameQueues

(* The start of a response that begins, as the runner takes it.            *)
LEMMA StartFields ==
    ASSUME NEW s \in State, NEW m \in Message, NEW acknowledgement \in BOOLEAN,
           BeginsResponse(s, m.r)
    PROVE  LET t == StartResponse(s, m, acknowledgement)
               u == RetireResponse(s)
               cuts == acknowledgement /\ u.ack = "cancelled" IN
           /\ t \in State
           /\ t.phase = IF cuts THEN "cancelling" ELSE "inflight"
           /\ t.r = m.r
           /\ t.ledger = IF cuts THEN Mark(u.ledger, m.r, "cancelled") ELSE u.ledger
           /\ t.ack = u.ack
           /\ ~acknowledgement /\ EchoesContinuation(m) => t.cont = "tagged"
           /\ t.closed = s.closed /\ t.failures = s.failures /\ SameQueues(s, t)
<1> DEFINE u == RetireResponse(s)
           v == [u EXCEPT !.phase = "inflight", !.r = m.r]
           w == BindContinuation(v, m, acknowledgement)
           cuts == acknowledgement /\ w.ack = "cancelled"
           l == Mark(w.ledger, m.r, "cancelled")
           t == IF cuts THEN [w EXCEPT !.phase = "cancelling", !.ledger = l] ELSE w
<1>0. m.r \in Nat
    BY DEF Message
<1>1. StartResponse(s, m, acknowledgement) = t
    BY DEF StartResponse
<1>2. /\ u \in State /\ u.closed = s.closed /\ u.failures = s.failures
      /\ SameQueues(s, u)
    BY RetireFields
<1> HIDE DEF u
<1>3. /\ v \in State /\ v.phase = "inflight" /\ v.r = m.r /\ v.ack = u.ack
      /\ v.ledger = u.ledger /\ v.closed = s.closed /\ v.failures = s.failures
      /\ SameQueues(s, v)
    BY <1>0, <1>2 DEF State, SameQueues, Phase
<1> HIDE DEF v
<1>4. /\ w \in State /\ w.phase = "inflight" /\ w.r = m.r /\ w.ack = u.ack
      /\ w.ledger = u.ledger /\ w.closed = s.closed /\ w.failures = s.failures
      /\ ~acknowledgement /\ EchoesContinuation(m) => w.cont = "tagged"
      /\ SameQueues(s, w)
    BY <1>3, BindFields DEF SameQueues
<1> HIDE DEF w
<1>5. l \in Seq(Entry)
    BY <1>0, <1>4, MarkType DEF State, EntryStatus
<1>6. CASE cuts
    <2>1. StartResponse(s, m, acknowledgement) = [w EXCEPT !.phase = "cancelling", !.ledger = l]
        BY <1>1, <1>6
    <2>2. l = Mark(u.ledger, m.r, "cancelled")
        BY <1>4
    <2> HIDE DEF l
    <2>3. acknowledgement /\ u.ack = "cancelled"
        BY <1>4, <1>6
    <2> QED
        BY ZenonT(60), <2>1, <2>2, <2>3, <1>4, <1>5 DEF State, SameQueues, Phase, u
<1>7. CASE ~cuts
    <2>1. StartResponse(s, m, acknowledgement) = w
        BY <1>1, <1>7
    <2>2. ~(acknowledgement /\ u.ack = "cancelled")
        BY <1>4, <1>7
    <2> QED
        BY <2>1, <2>2, <1>4 DEF u
<1> QED
    BY <1>6, <1>7

(* The end of a response.                                                  *)
Owned(s, m) == IF scenario.tagged THEN m.r ELSE s.r

LEMMA EndFields ==
    ASSUME NEW s \in State, NEW m \in Message, NEW acknowledgement \in BOOLEAN
    PROVE  LET t == EndResponse(s, m, acknowledgement) IN
           /\ t \in State
           /\ t.phase \in {"idle", "interrupted", "completed"} /\ t.r = 0
           /\ t.ledger = Mark(s.ledger, Owned(s, m), "terminal")
           /\ t.ack = IF acknowledgement /\ AckOutstanding(s) THEN "ended" ELSE s.ack
           /\ t.cont = IF Bound(s) THEN "ended" ELSE s.cont
           /\ t.closed = s.closed /\ t.failures = s.failures /\ SameQueues(s, t)
<1> DEFINE p == CASE acknowledgement -> "idle"
                  [] CancelSent(s) -> "interrupted" [] OTHER -> "completed"
           l == Mark(s.ledger, Owned(s, m), "terminal")
           u == [s EXCEPT !.phase = p, !.r = 0, !.ledger = l]
           v == EndContinuation(u)
<1>0. Owned(s, m) \in Nat
    BY DEF Message, State, Owned
<1>1. EndResponse(s, m, acknowledgement) = IF acknowledgement THEN EndAck(v) ELSE v
    BY DEF EndResponse, Owned
<1>2. p \in {"idle", "interrupted", "completed"}
    OBVIOUS
<1>3. l \in Seq(Entry)
    BY <1>0, MarkType DEF State, EntryStatus
<1> HIDE DEF p, l
<1>4. /\ u \in State /\ u.phase = p /\ u.r = 0 /\ u.ledger = l /\ u.ack = s.ack
      /\ u.cont = s.cont /\ u.closed = s.closed /\ u.failures = s.failures
      /\ SameQueues(s, u)
    BY <1>2, <1>3 DEF State, SameQueues, Phase
<1> HIDE DEF u
<1>5. /\ v \in State /\ v.phase = p /\ v.r = 0 /\ v.ledger = l /\ v.ack = s.ack
      /\ v.cont = (IF Bound(s) THEN "ended" ELSE s.cont)
      /\ v.closed = s.closed /\ v.failures = s.failures /\ SameQueues(s, v)
    BY <1>4, EndContinuationFields DEF SameQueues, Bound
<1> HIDE DEF v
<1>6. CASE acknowledgement
    <2>1. EndResponse(s, m, acknowledgement) = EndAck(v)
        BY <1>1, <1>6
    <2> QED
        BY <2>1, <1>2, <1>5, <1>6, EndAckFields DEF SameQueues, AckOutstanding, l
<1>7. CASE ~acknowledgement
    <2>1. EndResponse(s, m, acknowledgement) = v
        BY <1>1, <1>7
    <2> QED
        BY <2>1, <1>2, <1>5, <1>7 DEF l
<1> QED
    BY <1>6, <1>7

LEMMA AttributeFields ==
    ASSUME NEW s \in State, NEW m
    PROVE  LET t == Attribute(s, m) IN
           /\ t \in State
           /\ m.t # "reject" => t = s
           /\ t.ack = IF m.t = "reject" /\ AckOutstanding(s) THEN "none" ELSE s.ack
           /\ t.cont = s.cont \/ (s.cont = "guessed" /\ t.cont = "requested")
           /\ t.phase = s.phase /\ t.r = s.r /\ t.ledger = s.ledger
           /\ t.closed = s.closed /\ t.failures = s.failures /\ SameQueues(s, t)
<1>1. CASE m.t # "reject"
    BY <1>1 DEF Attribute, SameQueues
<1>2. CASE m.t = "reject" /\ AckOutstanding(s)
    BY <1>2 DEF Attribute, SameQueues, State, Acknowledgement
<1>3. CASE m.t = "reject" /\ ~AckOutstanding(s)
    <2> DEFINE c == IF s.cont = "guessed" THEN "requested" ELSE s.cont
    <2>1. Attribute(s, m) = [s EXCEPT !.cont = c]
        BY <1>3 DEF Attribute
    <2>2. c \in Continuation \cup {"ended"}
        BY DEF State, Continuation
    <2>3. c = s.cont \/ (s.cont = "guessed" /\ c = "requested")
        OBVIOUS
    <2> HIDE DEF c
    <2> QED
        BY <1>3, <2>1, <2>2, <2>3 DEF State, SameQueues
<1> QED
    BY <1>1, <1>2, <1>3

(* Whether a message opens or ends a response.                             *)
Opening(s, m) == m.t = "start" /\ BeginsResponse(s, m.r)
Ending(s, m) == m.t = "end" /\ OwnsResponseEnd(s, m.r)

LEMMA ObserveCases ==
    ASSUME NEW s \in State, NEW m \in Message
    PROVE  LET t == Observe(s, m) IN
           /\ Opening(s, m) => t = StartResponse(s, m, AckOutstanding(s))
           /\ Ending(s, m) => t = EndResponse(s, m, AckOutstanding(s))
           /\ m.t # "close" /\ ~Opening(s, m) /\ ~Ending(s, m) => t = Attribute(s, m)
           /\ m.t = "close" => t = [s EXCEPT !.closed = TRUE, !.cont = "none", !.failures = {}]
<1> DEFINE a == Attribute(s, m)
<1>1. m.t # "reject" => a = s
    BY AttributeFields
<1>2. Observe(s, m) =
        CASE m.t = "start" -> StartResponse(a, m, AckOutstanding(a))
          [] m.t = "end" /\ OwnsResponseEnd(a, m.r) -> EndResponse(a, m, AckOutstanding(a))
          [] m.t = "close" -> [a EXCEPT !.closed = TRUE, !.cont = "none", !.failures = {}]
          [] OTHER -> a
    BY DEF Observe
<1> HIDE DEF a
<1>3. CASE m.t = "start"
    <2>1. Observe(s, m) = StartResponse(s, m, AckOutstanding(s))
        BY <1>1, <1>2, <1>3
    <2>2. ~BeginsResponse(s, m.r) => StartResponse(s, m, AckOutstanding(s)) = s
        BY DEF StartResponse
    <2> QED
        BY <2>1, <2>2, <1>1, <1>3 DEF Opening, Ending, a
<1>4. CASE m.t = "end"
    BY <1>1, <1>2, <1>4 DEF Opening, Ending, a
<1>5. CASE m.t = "close"
    BY <1>1, <1>2, <1>5 DEF Opening, Ending
<1>6. CASE m.t \in {"delta", "reject"}
    BY <1>1, <1>2, <1>6 DEF Opening, Ending, a
<1> QED
    BY <1>3, <1>4, <1>5, <1>6 DEF Message

LEMMA ObserveFields ==
    ASSUME NEW s \in State, NEW m \in Message, s.ack # "ended", s.cont # "ended"
    PROVE  LET t == Observe(s, m) IN
           /\ t \in State
           /\ IF m.t = "close" THEN t.closed ELSE t.closed = s.closed
           /\ t.failures = IF m.t = "close" THEN {} ELSE s.failures
           /\ SameQueues(s, t)
<1>0. AckOutstanding(s) \in BOOLEAN /\ s.closed \in BOOLEAN
    BY DEF AckOutstanding, State
<1>1. CASE Opening(s, m)
    <2>1. BeginsResponse(s, m.r) /\ m.t # "close"
        BY <1>1 DEF Opening
    <2> DEFINE u == StartResponse(s, m, AckOutstanding(s))
    <2>2. Observe(s, m) = u
        BY <1>1, ObserveCases
    <2>3. u \in State /\ u.closed = s.closed /\ u.failures = s.failures /\ SameQueues(s, u)
        BY <1>0, <2>1, StartFields
    <2> HIDE DEF u
    <2> QED
        BY <2>1, <2>2, <2>3
<1>2. CASE Ending(s, m)
    <2>1. m.t # "close"
        BY <1>2 DEF Ending
    <2> DEFINE u == EndResponse(s, m, AckOutstanding(s))
    <2>2. Observe(s, m) = u
        BY <1>2, ObserveCases
    <2>3. u \in State /\ u.closed = s.closed /\ u.failures = s.failures /\ SameQueues(s, u)
        BY <1>0, EndFields
    <2> HIDE DEF u
    <2> QED
        BY <2>1, <2>2, <2>3
<1>3. CASE m.t # "close" /\ ~Opening(s, m) /\ ~Ending(s, m)
    <2> DEFINE u == Attribute(s, m)
    <2>2. Observe(s, m) = u
        BY <1>3, ObserveCases
    <2>3. u \in State /\ u.closed = s.closed /\ u.failures = s.failures /\ SameQueues(s, u)
        BY AttributeFields
    <2> HIDE DEF u
    <2> QED
        BY <1>3, <2>2, <2>3
<1>4. CASE m.t = "close"
    <2>1. Observe(s, m) = [s EXCEPT !.closed = TRUE, !.cont = "none", !.failures = {}]
        BY <1>4, ObserveCases
    <2> QED
        BY <2>1, <1>4 DEF State, SameQueues, Continuation
<1> QED
    BY <1>1, <1>2, <1>3, <1>4

-----------------------------------------------------------------------------
(* The stack of pending calls                                              *)

LEMMA TaskTypes ==
    /\ \A t \in TaskName \ {"result", "cont", "request"} : \A n \in Nat : Task(t, n) \in Tasks
    /\ \A t \in {"result", "cont", "request"} : \A b \in Batch : Task(t, b) \in Tasks
    /\ \A t, n : Task(t, n).t = t /\ Task(t, n).n = n
    /\ Inputs \subseteq Tasks /\ Deferrable \subseteq Tasks /\ IdleTask \subseteq Tasks
    /\ AudioTask \subseteq Inputs
    /\ Deferrable \cap IdleTask = {} /\ Inputs \cap IdleTask = {}
<1>0. Batch \subseteq Nat
    BY DEF Batch
<1> QED
    BY <1>0 DEF Task, Tasks, Inputs, Deferrable, IdleTask, AudioTask, TaskName, ToolEvent, Audio

LEMMA Widen ==
    /\ \A s : s \in Seq(Deferrable) => s \in Seq(Tasks)
    /\ \A s : s \in Seq(Inputs) => s \in Seq(Tasks)
    /\ \A s : s \in Seq(AudioTask) => s \in Seq(Tasks)
<1>1. Inputs \subseteq Tasks /\ Deferrable \subseteq Tasks /\ AudioTask \subseteq Tasks
    BY TaskTypes
<1>2. ASSUME NEW S, NEW T, S \subseteq T, NEW s \in Seq(S) PROVE s \in Seq(T)
    BY <1>2
<1> QED
    BY <1>1, <1>2

LEMMA IdleTail ==
    ASSUME NEW a \in Seq(Tasks), IdleLast(a), a # <<>>
    PROVE  /\ Tail(a) \in Seq(Tasks) /\ IdleLast(Tail(a))
           /\ Head(a) \in Tasks
           /\ Head(a) \in IdleTask => Elems(a) \subseteq IdleTask
<1>1. /\ Tail(a) \in Seq(Tasks) /\ Len(Tail(a)) = Len(a) - 1 /\ Len(a) > 0
      /\ \A i \in 1..(Len(a) - 1) : Tail(a)[i] = a[i + 1]
      /\ Head(a) = a[1] /\ Head(a) \in Tasks /\ Len(a) \in Nat
    BY TailType
<1>2. IdleLast(Tail(a))
    <2> SUFFICES ASSUME NEW i \in 1..(Len(a) - 1), NEW j \in 1..(Len(a) - 1), i < j,
                        Tail(a)[i] \in IdleTask
                 PROVE  Tail(a)[j] \in IdleTask
        BY <1>1 DEF IdleLast
    <2>1. i + 1 \in 1..Len(a) /\ j + 1 \in 1..Len(a) /\ i + 1 < j + 1
        BY <1>1
    <2> QED
        BY <1>1, <2>1 DEF IdleLast
<1>3. ASSUME Head(a) \in IdleTask, NEW i \in 1..Len(a) PROVE a[i] \in IdleTask
    <2>1. i = 1 \/ 1 < i
        OBVIOUS
    <2> QED
        BY <1>1, <1>3, <2>1 DEF IdleLast
<1> QED
    BY <1>1, <1>2, <1>3 DEF Elems

(* Calls that are made now go before the idle ones.                        *)
LEMMA IdleConcat ==
    ASSUME NEW w \in Seq(Tasks), NEW a \in Seq(Tasks), IdleLast(a),
           Elems(w) \cap IdleTask = {}
    PROVE  w \o a \in Seq(Tasks) /\ IdleLast(w \o a)
<1> DEFINE u == w \o a
           n == Len(w)
<1>1. /\ u \in Seq(Tasks) /\ n \in Nat /\ Len(a) \in Nat /\ Len(u) = n + Len(a)
      /\ \A i \in 1..n : u[i] = w[i]
      /\ \A i \in 1..Len(a) : u[n + i] = a[i]
    BY ConcatType
<1>2. \A i \in 1..n : w[i] \notin IdleTask
    BY ElemsType
<1> HIDE DEF u, n
<1> SUFFICES ASSUME NEW i \in 1..Len(u), NEW j \in 1..Len(u), i < j, u[i] \in IdleTask
             PROVE  u[j] \in IdleTask
    BY <1>1 DEF IdleLast, u
<1>3. i \notin 1..n
    BY <1>1, <1>2
<1> DEFINE k == i - n
           l == j - n
<1>4. k \in 1..Len(a) /\ l \in 1..Len(a) /\ k < l /\ i = n + k /\ j = n + l
    BY <1>1, <1>3
<1> HIDE DEF k, l
<1>5. u[i] = a[k] /\ u[j] = a[l]
    BY <1>1, <1>4
<1> QED
    BY <1>4, <1>5 DEF IdleLast

LEMMA IdleLoop ==
    /\ Loop \in Seq(Tasks) /\ IdleLast(Loop)
    /\ Elems(Loop) \subseteq IdleTask
    /\ \A n \in Nat : /\ <<Task("inputs", 0), Task("expired", n)>> \o Loop \in Seq(Tasks)
                      /\ IdleLast(<<Task("inputs", 0), Task("expired", n)>> \o Loop)
                      /\ Elems(<<Task("inputs", 0), Task("expired", n)>> \o Loop)
                           \subseteq IdleTask
<1>1. /\ Task("inputs", 0) \in IdleTask /\ Task("await", 0) \in IdleTask
      /\ \A n \in Nat : Task("expired", n) \in IdleTask
    BY DEF Task, IdleTask, Tasks, TaskName
<1>2. Loop \in Seq(IdleTask)
    BY <1>1 DEF Loop
<1>3. ASSUME NEW a \in Seq(IdleTask)
      PROVE  a \in Seq(Tasks) /\ IdleLast(a) /\ Elems(a) \subseteq IdleTask
    <2>1. IdleTask \subseteq Tasks
        BY DEF IdleTask
    <2>2. \A i \in 1..Len(a) : a[i] \in IdleTask
        OBVIOUS
    <2>3. a \in Seq(Tasks)
        BY <2>1
    <2> QED
        BY <2>2, <2>3, ElemsType DEF IdleLast
<1>4. ASSUME NEW n \in Nat
      PROVE  <<Task("inputs", 0), Task("expired", n)>> \o Loop \in Seq(IdleTask)
    <2>1. <<Task("inputs", 0), Task("expired", n)>> \in Seq(IdleTask)
        BY <1>1
    <2> HIDE DEF Loop
    <2> QED
        BY <2>1, <1>2, ConcatType
<1> QED
    BY <1>2, <1>3, <1>4

-----------------------------------------------------------------------------
(* A provider message is taken from Receive                                *)

(* What the message puts before the runner's next calls.                   *)
Released1(s, m) ==
    LET t == Observe(s, m) IN
    IF Ending(s, m) /\ t.held # <<>> THEN <<Task("flush", 0)>> ELSE <<>>
Replayed(s, m) == Replays(Ending(s, m), Observe(s, m).ack = "ended")
Released2(s, m) == IF Replayed(s, m) THEN s.deferred ELSE <<>>
Released3(s, m) == IF Observe(s, m).cont = "ended" THEN <<Task("report", 0)>> ELSE <<>>

Noise == {x \in Tasks : x.t \in {"inputs", "await", "pending", "expired", "flush", "report"}}

LEMMA ReleasedTypes ==
    ASSUME NEW s \in State, NEW m
    PROVE  /\ Released1(s, m) \in Seq(Noise) /\ Released3(s, m) \in Seq(Noise)
           /\ Released1(s, m) \in Seq(Tasks) /\ Released3(s, m) \in Seq(Tasks)
           /\ Elems(Released1(s, m)) \cap IdleTask = {}
           /\ Elems(Released3(s, m)) \cap IdleTask = {}
           /\ Released2(s, m) \in Seq(Deferrable) /\ Released2(s, m) \in Seq(Tasks)
           /\ Elems(Released2(s, m)) \cap IdleTask = {}
<1>1. /\ Task("flush", 0) \in Tasks \ IdleTask /\ Task("report", 0) \in Tasks \ IdleTask
      /\ Task("flush", 0) \in Noise /\ Task("report", 0) \in Noise
    BY DEF Task, Noise, Tasks, TaskName, IdleTask
<1>2. ASSUME NEW x \in Tasks \ IdleTask, x \in Noise
      PROVE  /\ <<x>> \in Seq(Tasks) /\ Elems(<<x>>) \cap IdleTask = {}
             /\ <<x>> \in Seq(Noise)
    BY <1>2, ElemsSmall
<1>3. /\ <<>> \in Seq(Tasks) /\ Elems(<<>>) \cap IdleTask = {} /\ <<>> \in Seq(Noise)
      /\ <<>> \in Seq(Deferrable)
    <2>1. <<>> \in Seq(Tasks) /\ <<>> \in Seq(Noise) /\ <<>> \in Seq(Deferrable)
        OBVIOUS
    <2> QED
        BY <2>1, ElemsSmall
<1>4. /\ s.deferred \in Seq(Deferrable) /\ s.deferred \in Seq(Tasks)
      /\ Elems(s.deferred) \cap IdleTask = {}
    <2>1. s.deferred \in Seq(Deferrable)
        BY DEF State
    <2> QED
        BY <2>1, TaskTypes, Widen, ElemsType
<1>5. /\ Released1(s, m) \in {<<Task("flush", 0)>>, <<>>}
      /\ Released3(s, m) \in {<<Task("report", 0)>>, <<>>}
      /\ Released2(s, m) \in {s.deferred, <<>>}
    BY SMTT(60) DEF Released1, Released2, Released3
<1> QED
    BY <1>1, <1>2, <1>3, <1>4, <1>5

LEMMA Observed ==
    ASSUME st \in State, st.ack # "ended", st.cont # "ended",
           receive \in Seq(Message), receive # <<>>,
           NEW next \in Seq(Tasks), ObserveMessage(next)
    PROVE  LET m == Head(receive)
               s == Observe(st, m) IN
           /\ m \in Message /\ s \in State
           /\ receive' = Tail(receive)
           /\ st' \in State /\ st'.ack # "ended" /\ st'.cont # "ended"
           /\ st'.phase = s.phase /\ st'.r = s.r /\ st'.ledger = s.ledger
           /\ st'.ack = IF s.ack = "ended" THEN "none" ELSE s.ack
           /\ st'.cont = IF s.cont = "ended" THEN "none" ELSE s.cont
           /\ IF m.t = "close" THEN st'.closed ELSE st'.closed = st.closed
           /\ st'.failures = IF m.t = "close" THEN {} ELSE st.failures
           /\ st'.rejected = st.rejected /\ st'.held = st.held
           /\ st'.deferred = IF Replayed(st, m) THEN <<>> ELSE st.deferred
           /\ agenda' = ((Released1(st, m) \o Released2(st, m)) \o Released3(st, m)) \o next
           /\ flag' \in {"none", flag}
           /\ reported' = IF m.t = "close" THEN reported \cup st.failures ELSE reported
           /\ leaked' = IF m.t = "delta" /\ ~StaleCustomerOutput(s, m.r)
                        THEN leaked \cup ({m.r} \cap cut) ELSE leaked
           /\ UNCHANGED <<scenario, inputVars, wire, prov, origin, over, sendVars>>
<1> DEFINE m == Head(receive)
           s == Observe(st, m)
           replays == Replays(m.t = "end" /\ OwnsResponseEnd(Attribute(st, m), m.r),
                              s.ack = "ended")
           a == IF s.ack = "ended" THEN "none" ELSE s.ack
           c == IF s.cont = "ended" THEN "none" ELSE s.cont
           d == IF replays THEN <<>> ELSE s.deferred
<1>1. m \in Message /\ receive' = Tail(receive)
    BY TailType DEF ObserveMessage
<1> HIDE DEF m
<1>2. /\ s \in State
      /\ IF m.t = "close" THEN s.closed ELSE s.closed = st.closed
      /\ s.failures = IF m.t = "close" THEN {} ELSE st.failures
      /\ SameQueues(st, s)
    BY SMTT(60), <1>1, ObserveFields
<1>3. /\ st' = [s EXCEPT !.ack = a, !.cont = c, !.deferred = d]
      /\ agenda' = (IF m.t = "end" /\ OwnsResponseEnd(Attribute(st, m), m.r) /\ s.held # <<>>
                    THEN <<Task("flush", 0)>> ELSE <<>>)
                   \o (IF replays THEN s.deferred ELSE <<>>)
                   \o (IF s.cont = "ended" THEN <<Task("report", 0)>> ELSE <<>>) \o next
      /\ flag' = IF m.t = "close" THEN "none" ELSE flag
      /\ reported' = IF m.t = "close" THEN reported \cup st.failures ELSE reported
      /\ leaked' = IF m.t = "delta" /\ ~StaleCustomerOutput(s, m.r)
                   THEN leaked \cup ({m.r} \cap cut) ELSE leaked
      /\ UNCHANGED <<scenario, inputVars, wire, prov, origin, over, sendVars>>
    BY DEF ObserveMessage, m
<1>4. (m.t = "end" /\ OwnsResponseEnd(Attribute(st, m), m.r)) <=> Ending(st, m)
    <2>1. m.t = "end" => Attribute(st, m) = st
        BY DEF Attribute
    <2> QED
        BY <2>1 DEF Ending
<1>5. replays <=> Replayed(st, m)
    BY <1>4 DEF Replays, Replayed
<1>6. a \in Acknowledgement /\ c \in Continuation /\ d \in Seq(Deferrable)
    BY <1>2 DEF State, Acknowledgement, Continuation
<1>7. d = IF Replayed(st, m) THEN <<>> ELSE st.deferred
    BY SMTT(60), <1>2, <1>5 DEF SameQueues
<1>8. agenda' = ((Released1(st, m) \o Released2(st, m)) \o Released3(st, m)) \o next
    <2>1. s.deferred = st.deferred
        BY <1>2 DEF SameQueues
    <2> QED
        BY <1>3, <1>4, <1>5, <2>1 DEF Released1, Released2, Released3
<1>9. "ended" \notin Acknowledgement /\ "ended" \notin Continuation
    BY DEF Acknowledgement, Continuation
<1> HIDE DEF s, d, replays
<1>10. /\ st' \in State /\ st'.ack = a /\ st'.cont = c /\ st'.deferred = d
       /\ st'.phase = s.phase /\ st'.r = s.r /\ st'.ledger = s.ledger
       /\ st'.closed = s.closed /\ st'.failures = s.failures
       /\ st'.rejected = s.rejected /\ st'.held = s.held
    <2> HIDE DEF a, c
    <2> QED
        BY <1>2, <1>3, <1>6 DEF State
<1>11. st'.ack # "ended" /\ st'.cont # "ended"
    BY <1>10, <1>6, <1>9
<1>12. st'.rejected = st.rejected /\ st'.held = st.held
    BY <1>10, <1>2 DEF SameQueues
<1> QED
    <2>1. /\ st'.ack = IF s.ack = "ended" THEN "none" ELSE s.ack
          /\ st'.cont = IF s.cont = "ended" THEN "none" ELSE s.cont
        BY <1>10
    <2>2. /\ IF m.t = "close" THEN st'.closed ELSE st'.closed = st.closed
          /\ st'.failures = IF m.t = "close" THEN {} ELSE st.failures
        BY <1>2, <1>10
    <2>3. flag' \in {"none", flag}
        BY <1>3
    <2> HIDE DEF a, c
    <2>4. st'.deferred = IF Replayed(st, m) THEN <<>> ELSE st.deferred
        BY SMTT(60), <1>7, <1>10
    <2> QED
        BY ZenonT(60), <1>1, <1>2, <1>3, <1>8, <1>10, <1>11, <1>12, <2>1, <2>2, <2>3, <2>4 DEF m, s

(* What every message leaves of the response's position.                   *)
LEMMA ObserveBounds ==
    ASSUME NEW s \in State, NEW m \in Message, s.ack # "ended", s.cont # "ended",
           InFlight(s) <=> s.r # 0, Len(s.ledger) <= Retention,
           m.t = "start" => m.r # 0
    PROVE  LET t == Observe(s, m) IN
           /\ InFlight(t) <=> t.r # 0
           /\ t.r \in {s.r, 0} \cup (IF m.t = "start" THEN {m.r} ELSE {})
           /\ Len(t.ledger) <= Retention
<1>0. s.ledger \in Seq(Entry) /\ s.r \in Nat /\ m.r \in Nat /\ AckOutstanding(s) \in BOOLEAN
    BY DEF State, AckOutstanding, Message
<1>1. CASE Opening(s, m)
    <2> DEFINE A == AckOutstanding(s)
               t == StartResponse(s, m, A)
               u == RetireResponse(s)
    <2>1. Observe(s, m) = t
        BY <1>1, ObserveCases
    <2>2. /\ u.ledger \in {s.ledger, Mark(s.ledger, s.r, "retired")}
        BY RetireFields
    <2>3. u.ledger \in Seq(Entry) /\ Len(u.ledger) <= Retention
        BY <1>0, <2>2, MarkType DEF EntryStatus
    <2> HIDE DEF A
    <2>4. t.phase \in {"cancelling", "inflight"} /\ t.r = m.r
          /\ t.ledger \in {u.ledger, Mark(u.ledger, m.r, "cancelled")}
        BY <1>0, <1>1, StartFields DEF Opening, A
    <2> HIDE DEF t, u
    <2>5. Len(t.ledger) <= Retention
        BY <1>0, <2>3, <2>4, MarkType DEF EntryStatus
    <2> QED
        BY <1>1, <2>1, <2>4, <2>5 DEF Opening, InFlight
<1>2. CASE Ending(s, m)
    <2> DEFINE t == EndResponse(s, m, AckOutstanding(s))
    <2>1. Observe(s, m) = t
        BY <1>2, ObserveCases
    <2>2. /\ t.phase \in {"idle", "interrupted", "completed"} /\ t.r = 0
          /\ t.ledger = Mark(s.ledger, Owned(s, m), "terminal")
        BY <1>0, EndFields
    <2>3. Owned(s, m) \in Nat
        BY <1>0 DEF Owned
    <2> HIDE DEF t
    <2>4. Len(t.ledger) <= Retention
        BY <1>0, <2>2, <2>3, MarkType DEF EntryStatus
    <2> QED
        BY <2>1, <2>2, <2>4 DEF InFlight
<1>3. CASE m.t # "close" /\ ~Opening(s, m) /\ ~Ending(s, m)
    <2> DEFINE t == Attribute(s, m)
    <2>1. Observe(s, m) = t
        BY <1>3, ObserveCases
    <2>2. t.phase = s.phase /\ t.r = s.r /\ t.ledger = s.ledger
        BY AttributeFields
    <2> HIDE DEF t
    <2> QED
        BY <2>1, <2>2 DEF InFlight
<1>4. CASE m.t = "close"
    <2> DEFINE t == [s EXCEPT !.closed = TRUE, !.cont = "none", !.failures = {}]
    <2>1. Observe(s, m) = t
        BY <1>4, ObserveCases
    <2>2. t.phase = s.phase /\ t.r = s.r /\ t.ledger = s.ledger
        BY DEF State
    <2> HIDE DEF t
    <2> QED
        BY <2>1, <2>2 DEF InFlight
<1> QED
    BY <1>1, <1>2, <1>3, <1>4

LEMMA ObserveTypes ==
    ASSUME TypeInv, NEW next \in Seq(Tasks), IdleLast(next),
           receive # <<>>, ObserveMessage(next)
    PROVE  TypeInv'
<1> DEFINE m == Head(receive)
           s == Observe(st, m)
           w == (Released1(st, m) \o Released2(st, m)) \o Released3(st, m)
<1>1. st \in State /\ st.ack # "ended" /\ st.cont # "ended" /\ receive \in Seq(Message)
    BY DEF TypeInv, RunnerTypes, Steady, ProviderTypes
<1>2. /\ m \in Message
      /\ receive' = Tail(receive)
      /\ st' \in State /\ st'.ack # "ended" /\ st'.cont # "ended"
      /\ st'.phase = s.phase /\ st'.r = s.r /\ st'.ledger = s.ledger
      /\ agenda' = w \o next
      /\ flag' \in {"none", flag}
      /\ reported' \in {reported \cup st.failures, reported}
      /\ leaked' \in {leaked \cup ({m.r} \cap cut), leaked}
      /\ UNCHANGED <<scenario, inputVars, wire, prov, origin, over, sendVars>>
    BY <1>1, Observed
<1>3. /\ Elems(Tail(receive)) \subseteq Elems(receive) /\ m \in Elems(receive)
      /\ Tail(receive) \in Seq(Message)
    BY <1>1, ElemsTail, TailType
<1>4. m.t = "start" => m.r \in 1..Len(origin)
    BY <1>3 DEF TypeInv, ProviderTypes
<1>5. w \o next \in Seq(Tasks) /\ IdleLast(w \o next)
    <2> DEFINE p == Released1(st, m)
               q == Released2(st, m)
               r == Released3(st, m)
    <2>1. /\ p \in Seq(Tasks) /\ q \in Seq(Tasks) /\ r \in Seq(Tasks)
          /\ Elems(p) \cap IdleTask = {} /\ Elems(q) \cap IdleTask = {}
          /\ Elems(r) \cap IdleTask = {}
        BY <1>1, ReleasedTypes
    <2> HIDE DEF p, q, r
    <2> DEFINE pq == p \o q
    <2>2. pq \in Seq(Tasks) /\ Elems(pq) = Elems(p) \cup Elems(q)
        BY <2>1, ConcatType, ElemsConcat
    <2>4. w = pq \o r
        BY DEF p, q, r
    <2> HIDE DEF w, pq
    <2>3. pq \o r \in Seq(Tasks) /\ Elems(pq \o r) = Elems(pq) \cup Elems(r)
        BY <2>1, <2>2, ConcatType, ElemsConcat
    <2>5. w \in Seq(Tasks) /\ Elems(w) \cap IdleTask = {}
        BY <2>1, <2>2, <2>3, <2>4
    <2> QED
        BY <2>5, IdleConcat
<1> HIDE DEF w
<1>6. (InFlight(s) <=> s.r # 0) /\ Len(s.ledger) <= Retention
      /\ s.r \in {st.r, 0} \cup (IF m.t = "start" THEN {m.r} ELSE {})
    <2>1. /\ InFlight(st) <=> st.r # 0
          /\ Len(st.ledger) <= Retention
          /\ m.t = "start" => m.r # 0
        BY <1>4 DEF TypeInv, RunnerTypes, Steady
    <2> HIDE DEF m
    <2> QED
        BY <1>1, <1>2, <2>1, ObserveBounds
<1> HIDE DEF s, m
<1>7. RunnerTypes'
    <2>1. InFlight(st') <=> st'.r # 0
        BY <1>2, <1>6 DEF InFlight
    <2>2. st'.r <= Len(origin) /\ Len(st'.ledger) <= Retention
        BY <1>2, <1>4, <1>6 DEF TypeInv, RunnerTypes, Steady, ProviderTypes
    <2> QED
        BY <1>2, <1>5, <2>1, <2>2 DEF TypeInv, RunnerTypes, Steady
<1>8. ProviderTypes'
    <2>1. \A k \in Elems(Tail(receive)) : k.t # "close" => k.r \in 1..Len(origin)
        BY <1>3 DEF TypeInv, ProviderTypes
    <2> QED
        BY <1>2, <1>3, <2>1 DEF TypeInv, ProviderTypes
<1>9. InputTypes'
    BY <1>2 DEF TypeInv, InputTypes, inputVars
<1>10. HistoryTypes'
    <2>1. st.failures \in SUBSET Nat
        BY <1>1 DEF State
    <2> QED
        BY <1>2, <2>1 DEF TypeInv, HistoryTypes, sendVars
<1> QED
    BY <1>7, <1>8, <1>9, <1>10 DEF TypeInv

-----------------------------------------------------------------------------
(* Types: the callers and the provider                                     *)

LEMMA PushTypes ==
    ASSUME TypeInv, NEW x \in Inputs, Push(x)
    PROVE  ordered' \in Seq(Inputs) /\ Len(ordered') <= IngressCap /\ toolEvents' \in Nat
BY SessionAssumption, AppendType DEF Push, TypeInv, InputTypes

LEMMA InputNames ==
    /\ \A t \in Audio \cup {"ack", "commit", "cancel", "message"} : \A n \in Nat :
          Task(t, n) \in Inputs
    /\ \A b \in Batch : Task("result", b) \in Inputs /\ Task("cont", b) \in Inputs
<1>1. Batch \subseteq Nat
    BY DEF Batch
<1> QED
    BY <1>1 DEF Task, Inputs, Tasks, TaskName, ToolEvent, Audio

(* Whatever changes nothing but the callers' side keeps the other types.   *)
LEMMA CallersOnly ==
    ASSUME TypeInv, InputTypes', scenario'.tagged = scenario.tagged,
           UNCHANGED <<provVars, agenda, st, flag, over, sendVars, leaked, reported>>
    PROVE  TypeInv'
<1> USE DEF TypeInv, provVars, sendVars
<1>1. ProviderTypes'
    BY DEF ProviderTypes
<1>2. RunnerTypes'
    BY DEF RunnerTypes, Steady, InFlight
<1>3. HistoryTypes'
    BY DEF HistoryTypes
<1> QED
    BY <1>1, <1>2, <1>3

(* A field of the scenario is spent, or a send is refused: what the        *)
(* provider is does not change.                                            *)
SameProvider == scenario'.tagged = scenario.tagged /\ scenario'.echo = scenario.echo

LEMMA SpendFields ==
    ASSUME scenario \in Scenario
    PROVE  /\ \A f \in {"frames", "controls", "vad", "ends"} :
                 Spend(f) => /\ scenario' \in Scenario /\ SameProvider
                             /\ scenario'.batches = scenario.batches
                             /\ scenario'.refused = scenario.refused
                             /\ scenario'.acked = scenario.acked
           /\ Spend("batches") => /\ scenario' \in Scenario /\ SameProvider
                                  /\ scenario'.batches = scenario.batches - 1
                                  /\ scenario.batches > 0
                                  /\ scenario'.refused = scenario.refused
                                  /\ scenario'.acked = scenario.acked
<1>0. MaxBatches \in Nat
    BY SessionAssumption
<1>1. Spend("frames") => /\ scenario' \in Scenario /\ SameProvider
                         /\ scenario'.batches = scenario.batches
                         /\ scenario'.refused = scenario.refused
                         /\ scenario'.acked = scenario.acked
    BY DEF Spend, Scenario, SameProvider
<1>2. Spend("controls") => /\ scenario' \in Scenario /\ SameProvider
                           /\ scenario'.batches = scenario.batches
                           /\ scenario'.refused = scenario.refused
                           /\ scenario'.acked = scenario.acked
    BY DEF Spend, Scenario, SameProvider
<1>3. Spend("vad") => /\ scenario' \in Scenario /\ SameProvider
                      /\ scenario'.batches = scenario.batches
                      /\ scenario'.refused = scenario.refused
                      /\ scenario'.acked = scenario.acked
    BY DEF Spend, Scenario, SameProvider
<1>4. Spend("ends") => /\ scenario' \in Scenario /\ SameProvider
                       /\ scenario'.batches = scenario.batches
                       /\ scenario'.refused = scenario.refused
                       /\ scenario'.acked = scenario.acked
    BY DEF Spend, Scenario, SameProvider
<1>5. Spend("batches") => /\ scenario' \in Scenario /\ SameProvider
                          /\ scenario'.batches = scenario.batches - 1
                          /\ scenario.batches > 0
                          /\ scenario'.refused = scenario.refused
                          /\ scenario'.acked = scenario.acked
    BY <1>0 DEF Spend, Scenario, SameProvider
<1> QED
    BY <1>1, <1>2, <1>3, <1>4, <1>5

LEMMA AudioTypes ==
    ASSUME TypeInv, SendAudio
    PROVE  TypeInv' /\ SameProvider
<1>1. /\ scenario' \in Scenario /\ SameProvider /\ scenario'.batches = scenario.batches
    BY SpendFields DEF SendAudio, TypeInv, InputTypes
<1>2. PICK t \in Audio : Push(Task(t, frames + 1))
    BY DEF SendAudio
<1>3. Task(t, frames + 1) \in Inputs
    BY InputNames DEF TypeInv, InputTypes
<1>4. ordered' \in Seq(Inputs) /\ Len(ordered') <= IngressCap /\ toolEvents' \in Nat
    BY <1>2, <1>3, PushTypes
<1>5. InputTypes'
    BY <1>1, <1>4 DEF TypeInv, InputTypes, SendAudio
<1> QED
    BY <1>1, <1>5, CallersOnly DEF SendAudio, SameProvider

LEMMA ControlTypes ==
    ASSUME TypeInv, SendControl
    PROVE  TypeInv' /\ SameProvider
<1>1. /\ scenario' \in Scenario /\ SameProvider /\ scenario'.batches = scenario.batches
    BY SpendFields DEF SendControl, TypeInv, InputTypes
<1>0. LaneCap \in Nat
    BY SessionAssumption
<1>2. PICK t \in {"commit", "cancel", "message"} :
         IF t = "cancel" /\ Controls = {} /\ lane < LaneCap
         THEN ~over /\ lane' = lane + 1 /\ UNCHANGED <<ordered, toolEvents>>
         ELSE Push(Task(t, 0)) /\ UNCHANGED lane
    BY DEF SendControl
<1>3. Task(t, 0) \in Inputs
    BY InputNames
<1>4. /\ ordered' \in Seq(Inputs) /\ Len(ordered') <= IngressCap /\ toolEvents' \in Nat
      /\ lane' \in 0..LaneCap
    <2>1. CASE Push(Task(t, 0)) /\ UNCHANGED lane
        BY <1>3, <2>1, PushTypes DEF TypeInv, InputTypes
    <2>2. CASE lane < LaneCap /\ lane' = lane + 1 /\ UNCHANGED <<ordered, toolEvents>>
        BY <1>0, <2>2 DEF TypeInv, InputTypes
    <2> QED
        BY <1>2, <2>1, <2>2
<1>5. InputTypes'
    BY <1>1, <1>4 DEF TypeInv, InputTypes, SendControl
<1> QED
    BY <1>1, <1>5, CallersOnly DEF SendControl, SameProvider

LEMMA AckTypes ==
    ASSUME TypeInv, SendAck
    PROVE  TypeInv' /\ SameProvider
<1>1. /\ scenario' \in Scenario /\ SameProvider /\ scenario'.batches = scenario.batches
    <2>1. /\ scenario \in Scenario /\ scenario.acks > 0
          /\ scenario' = [scenario EXCEPT !.acks = scenario.acks - 1, !.acked = TRUE]
        BY DEF SendAck, TypeInv, InputTypes
    <2>2. scenario.acks - 1 \in Nat
        BY <2>1 DEF Scenario
    <2> QED
        BY <2>1, <2>2 DEF Scenario, SameProvider
<1>2. Push(Task("ack", 0)) /\ Task("ack", 0) \in Inputs
    BY InputNames DEF SendAck
<1>4. ordered' \in Seq(Inputs) /\ Len(ordered') <= IngressCap /\ toolEvents' \in Nat
    BY <1>2, PushTypes
<1>5. InputTypes'
    BY <1>1, <1>4 DEF TypeInv, InputTypes, SendAck
<1> QED
    BY <1>1, <1>5, CallersOnly DEF SendAck, SameProvider

(* The batch being forwarded is one of those the scenario allows.          *)
LEMMA ForwardTypes ==
    ASSUME TypeInv, ForwardResult
    PROVE  TypeInv' /\ SameProvider
<1> DEFINE b == forwarder.batch
<1>0. /\ MaxBatches \in Nat /\ scenario \in Scenario /\ scenario.batches \in Nat
      /\ forwarder \in [batch : Nat, step : {"result", "cont", "request", "failed"}]
      /\ b \in Nat /\ b >= 1
      /\ b - (IF forwarder.step \in {"result", "failed"} THEN 1 ELSE 0) + scenario.batches <= MaxBatches
    BY SessionAssumption DEF TypeInv, InputTypes, Scenario
<1>1. CASE forwarder.step = "result" /\ Spend("batches") /\ Push(Task("result", b))
           /\ forwarder' = [forwarder EXCEPT !.step = "cont"] /\ UNCHANGED inbox
    <2>1. /\ scenario' \in Scenario /\ SameProvider
          /\ scenario'.batches = scenario.batches - 1 /\ scenario.batches > 0
        BY <1>0, <1>1, SpendFields
    <2>2. b \in Batch
        BY <1>0, <1>1, <2>1 DEF Batch
    <2>3. ordered' \in Seq(Inputs) /\ Len(ordered') <= IngressCap /\ toolEvents' \in Nat
        BY <1>1, <2>2, InputNames, PushTypes
    <2>4. /\ forwarder' \in [batch : Nat, step : {"result", "cont", "request", "failed"}]
          /\ forwarder'.batch = b /\ forwarder'.step = "cont"
        BY <1>0, <1>1
    <2>5. InputTypes'
        BY <1>0, <1>1, <2>1, <2>3, <2>4 DEF TypeInv, InputTypes, ForwardResult
    <2> QED
        BY <2>1, <2>5, CallersOnly DEF ForwardResult, SameProvider
<1>2. CASE forwarder.step = "cont" /\ Push(Task("cont", b))
           /\ forwarder' = [forwarder EXCEPT !.step = "request"]
           /\ UNCHANGED <<scenario, inbox>>
    <2>2. b \in Batch
        BY <1>0, <1>2 DEF Batch
    <2>3. ordered' \in Seq(Inputs) /\ Len(ordered') <= IngressCap /\ toolEvents' \in Nat
        BY <1>2, <2>2, InputNames, PushTypes
    <2>4. /\ forwarder' \in [batch : Nat, step : {"result", "cont", "request", "failed"}]
          /\ forwarder'.batch = b /\ forwarder'.step = "request"
        BY <1>0, <1>2
    <2>5. InputTypes'
        BY <1>0, <1>2, <2>3, <2>4 DEF TypeInv, InputTypes, ForwardResult
    <2> QED
        BY <1>2, <2>5, CallersOnly DEF ForwardResult, SameProvider
<1>3. CASE forwarder.step = "request" /\ inbox' = Append(inbox, b)
           /\ forwarder' = [batch |-> b + 1, step |-> "result"]
           /\ UNCHANGED <<scenario, ordered, toolEvents>>
    <2>1. b \in Batch
        BY <1>0, <1>3 DEF Batch
    <2>2. inbox' \in Seq(Batch)
        BY <1>3, <2>1, AppendType DEF TypeInv, InputTypes
    <2>3. /\ forwarder' \in [batch : Nat, step : {"result", "cont", "request", "failed"}]
          /\ forwarder'.batch = b + 1 /\ forwarder'.step = "result"
        BY <1>0, <1>3
    <2>4. InputTypes'
        BY <1>0, <1>3, <2>2, <2>3 DEF TypeInv, InputTypes, ForwardResult
    <2> QED
        BY <1>3, <2>4, CallersOnly DEF ForwardResult, SameProvider
<1>4. CASE /\ forwarder.step = "cont" \/ (forwarder.step = "result" /\ scenario.batches > 0)
           /\ forwarder' = [forwarder EXCEPT !.step = "failed"]
           /\ UNCHANGED <<scenario, inbox, ordered, toolEvents>>
    <2>1. /\ forwarder' \in [batch : Nat, step : {"result", "cont", "request", "failed"}]
          /\ forwarder'.batch = b /\ forwarder'.step = "failed"
        BY <1>0, <1>4
    <2>2. (b - 1) + scenario.batches <= MaxBatches
        BY <1>0, <1>4
    <2>4. InputTypes'
        BY <1>0, <1>4, <2>1, <2>2 DEF TypeInv, InputTypes, ForwardResult
    <2> QED
        BY <1>4, <2>4, CallersOnly DEF ForwardResult, SameProvider
<1> QED
    BY <1>1, <1>2, <1>3, <1>4 DEF ForwardResult

(* What a handler puts on the wire.                                        *)
LEMMA WiredTypes ==
    /\ \A t \in Request \cup {"cancel"} : Msg(t, 0) \in Wired
    /\ \A r \in {0} \cup Response : Msg("cancel", r) \in Wired
    /\ \A t : Msg(t, 0).r = 0
    /\ \A t, r : Msg(t, r).t = t
BY DEF Msg, Wired

LEMMA RequestTypes ==
    /\ Msg("turn", 0) \in Wired /\ Msg("cont", 0) \in Wired
    /\ Msg("ack", 0) \in Wired /\ Msg("cancel", 0) \in Wired
BY WiredTypes DEF Request

LEMMA MsgTypes ==
    /\ \A t \in {"start", "delta", "end", "reject", "close"} : \A r \in Nat : Msg(t, r) \in Message
    /\ \A t, r : Msg(t, r).t = t /\ Msg(t, r).r = r
BY DEF Msg, Message

(* The provider's side: what it has sent, and what it plays.               *)
ProvidersOnly ==
    UNCHANGED <<inputVars, agenda, st, flag, over, lastFrame, cancels, cut, asked,
                undelivered, leaked, reported>>

LEMMA ProvidersKeep ==
    ASSUME TypeInv, ProviderTypes', ProvidersOnly, scenario' \in Scenario,
           scenario'.batches = scenario.batches, Len(origin') >= Len(origin)
    PROVE  TypeInv'
<1> USE DEF TypeInv, ProvidersOnly, inputVars
<1>1. InputTypes'
    BY DEF InputTypes
<1>2. RunnerTypes'
    <2>0. origin \in Seq(Request \cup {"vad"}) /\ origin' \in Seq(Request \cup {"vad"})
        BY DEF ProviderTypes
    <2>1. st.r \in Nat /\ Len(origin) \in Nat /\ Len(origin') \in Nat
        BY <2>0 DEF RunnerTypes, Steady, State
    <2> QED
        BY <2>1 DEF RunnerTypes, Steady, InFlight
<1>3. HistoryTypes'
    BY DEF HistoryTypes
<1> QED
    BY <1>1, <1>2, <1>3

(* The response an Opens opens.                                            *)
Next1 == Len(origin) + 1

LEMMA OpensTypes ==
    ASSUME TypeInv, NEW why \in Request \cup {"vad"}, NEW msgs \in Seq(Message),
           \A m \in Elems(msgs) : m.r \in 1..Len(origin), Opens(why, msgs)
    PROVE  /\ origin' \in Seq(Request \cup {"vad"}) /\ Len(origin) \in Nat
           /\ Len(origin') = Next1 /\ Len(origin') <= MaxResponses
           /\ \A i \in 1..Len(origin) : origin'[i] = origin[i]
           /\ origin'[Next1] = why
           /\ receive' \in Seq(Message)
           /\ receive' = (receive \o msgs) \o <<Msg("start", Next1)>>
           /\ Elems(receive') = (Elems(receive) \cup Elems(msgs)) \cup {Msg("start", Next1)}
           /\ \A m \in Elems(receive') : m.t # "close" => m.r \in 1..Len(origin')
<1>0. /\ origin \in Seq(Request \cup {"vad"}) /\ receive \in Seq(Message)
      /\ \A m \in Elems(receive) : m.t # "close" => m.r \in 1..Len(origin)
      /\ MaxResponses \in Nat
    BY SessionAssumption DEF TypeInv, ProviderTypes
<1>1. /\ origin' \in Seq(Request \cup {"vad"}) /\ Len(origin) \in Nat
      /\ Len(origin') = Next1 /\ Len(origin') <= MaxResponses
      /\ \A i \in 1..Len(origin) : origin'[i] = origin[i]
      /\ origin'[Next1] = why
    <2>1. origin' = Append(origin, why) /\ Len(origin) < MaxResponses
        BY DEF Opens
    <2> QED
        BY <1>0, <2>1, AppendType DEF Next1
<1> DEFINE s == Msg("start", Next1)
           q == receive \o msgs
<1>2. receive' = q \o <<s>>
    BY DEF Opens, Next1
<1>3. s \in Message /\ s.r = Next1
    BY <1>1, MsgTypes DEF Next1
<1> HIDE DEF s
<1>4. q \in Seq(Message) /\ Elems(q) = Elems(receive) \cup Elems(msgs)
    BY <1>0, ConcatType, ElemsConcat
<1>5. <<s>> \in Seq(Message) /\ Elems(<<s>>) = {s}
    BY <1>3, ElemsSmall, SingletonType
<1>6. receive' \in Seq(Message)
      /\ Elems(receive') = (Elems(receive) \cup Elems(msgs)) \cup {s}
    <2> DEFINE z == <<s>>
    <2>0. z \in Seq(Message) /\ Elems(z) = {s} /\ receive' = q \o z
        BY <1>2, <1>5
    <2> HIDE DEF q, z
    <2>1. q \o z \in Seq(Message) /\ Elems(q \o z) = Elems(q) \cup Elems(z)
        BY <1>4, <2>0, ConcatType, ElemsConcat
    <2> QED
        BY <1>4, <2>0, <2>1
<1>7. \A m \in Elems(receive') : m.t # "close" => m.r \in 1..Len(origin')
    BY <1>0, <1>1, <1>3, <1>6 DEF Next1
<1> QED
    BY <1>1, <1>2, <1>6, <1>7 DEF s

(* One more message.                                                       *)
LEMMA SendsTypes ==
    ASSUME TypeInv, NEW m \in Message, m.t # "close" => m.r \in 1..Len(origin),
           receive' = Append(receive, m), origin' = origin
    PROVE  /\ receive' \in Seq(Message) /\ Elems(receive') = Elems(receive) \cup {m}
           /\ \A k \in Elems(receive') : k.t # "close" => k.r \in 1..Len(origin')
<1>0. /\ receive \in Seq(Message)
      /\ \A k \in Elems(receive) : k.t # "close" => k.r \in 1..Len(origin)
    BY DEF TypeInv, ProviderTypes
<1>1. receive' \in Seq(Message) /\ Elems(receive') = Elems(receive) \cup {m}
    BY <1>0, AppendType, ElemsAppend
<1> QED
    BY <1>0, <1>1

(* Ends, the two ways it goes.                                             *)
EndsPlain ==
    /\ receive' = Append(receive, Msg("end", prov.active)) /\ origin' = origin
    /\ prov' = [prov EXCEPT !.active = 0, !.fresh = FALSE]

EndsAgain ==
    /\ prov.retry # <<>> /\ Head(prov.retry) \in Request
    /\ Opens(Head(prov.retry), <<Msg("end", prov.active)>>)
    /\ prov' = [prov EXCEPT !.active = Len(origin) + 1, !.fresh = TRUE, !.retry = Tail(@)]

LEMMA EndsCases ==
    ASSUME TypeInv, Ends
    PROVE  EndsPlain \/ EndsAgain
<1>1. prov.retry \in Seq(Request)
    BY DEF TypeInv, ProviderTypes
<1>2. prov.retry # <<>> => Head(prov.retry) \in Request
    BY <1>1, TailType
<1> QED
    BY <1>2 DEF Ends, EndsPlain, EndsAgain

LEMMA EndMsg ==
    ASSUME TypeInv, prov.active # 0
    PROVE  /\ Msg("end", prov.active) \in Message /\ prov.active = Len(origin)
           /\ prov.active \in 1..Len(origin)
           /\ <<Msg("end", prov.active)>> \in Seq(Message)
           /\ Elems(<<Msg("end", prov.active)>>) = {Msg("end", prov.active)}
<1>1. prov.active \in Nat /\ prov.active = Len(origin)
    BY DEF TypeInv, ProviderTypes
<1>2. Msg("end", prov.active) \in Message
    BY <1>1, MsgTypes
<1> QED
    BY <1>1, <1>2, ElemsSmall, SingletonType

LEMMA EndsTypes ==
    ASSUME TypeInv, prov.active # 0, Ends, scenario'.tagged = scenario.tagged,
           wire' \in Seq(Wired)
    PROVE  ProviderTypes' /\ Len(origin') >= Len(origin)
<1>0. /\ prov \in [active : Nat, old : Nat, retry : Seq(Request), fresh : BOOLEAN]
      /\ origin \in Seq(Request \cup {"vad"}) /\ Len(origin) \in Nat
      /\ Len(origin) <= MaxResponses
      /\ prov.old \in 0..Len(origin)
      /\ prov.old # 0 => prov.old # prov.active /\ scenario.tagged
    BY DEF TypeInv, ProviderTypes
<1> DEFINE e == Msg("end", prov.active)
<1>1. /\ e \in Message /\ prov.active \in 1..Len(origin)
      /\ <<e>> \in Seq(Message) /\ Elems(<<e>>) = {e} /\ e.r = prov.active
    BY EndMsg, MsgTypes
<1> HIDE DEF e
<1>2. CASE EndsPlain
    <2>1. receive' = Append(receive, e) /\ origin' = origin
        BY <1>2 DEF EndsPlain, e
    <2>2. /\ receive' \in Seq(Message)
          /\ \A k \in Elems(receive') : k.t # "close" => k.r \in 1..Len(origin')
        BY <1>1, <2>1, SendsTypes
    <2>3. /\ prov' \in [active : Nat, old : Nat, retry : Seq(Request), fresh : BOOLEAN]
          /\ prov'.active = 0 /\ prov'.old = prov.old /\ prov'.fresh = FALSE
        BY <1>0, <1>2 DEF EndsPlain
    <2> QED
        BY <1>0, <2>1, <2>2, <2>3 DEF ProviderTypes
<1>3. CASE EndsAgain
    <2>0. \A m \in Elems(<<e>>) : m.r \in 1..Len(origin)
        BY <1>1
    <2>1. /\ origin' \in Seq(Request \cup {"vad"})
          /\ Len(origin') = Next1 /\ Len(origin') <= MaxResponses
          /\ receive' \in Seq(Message)
          /\ \A k \in Elems(receive') : k.t # "close" => k.r \in 1..Len(origin')
        BY <1>1, <1>3, <2>0, OpensTypes DEF EndsAgain, e
    <2> DEFINE t == Tail(prov.retry)
               n == Next1
    <2>2. t \in Seq(Request) /\ n \in Nat /\ n = Next1
        BY <1>0, <1>3, TailType DEF EndsAgain, Next1
    <2>4. prov' = [prov EXCEPT !.active = n, !.fresh = TRUE, !.retry = t]
        BY <1>3 DEF EndsAgain, Next1
    <2> HIDE DEF t, n
    <2>3. /\ prov' \in [active : Nat, old : Nat, retry : Seq(Request), fresh : BOOLEAN]
          /\ prov'.active = Next1 /\ prov'.old = prov.old /\ prov'.fresh = TRUE
        BY <1>0, <2>2, <2>4
    <2> QED
        BY <1>0, <2>1, <2>3 DEF ProviderTypes, Next1
<1> QED
    BY <1>2, <1>3, EndsCases

(* The provider's actions by what they do.                                 *)
Speaks ==
    /\ Opens("vad", <<>>) /\ wire' = wire
    /\ prov.active = 0 \/ (scenario.tagged /\ prov.old = 0)
    /\ prov' = [prov EXCEPT !.active = Len(origin) + 1, !.old = prov.active, !.fresh = TRUE]

StreamsFresh ==
    /\ prov.fresh /\ prov' = [prov EXCEPT !.fresh = FALSE]
    /\ \E t \in {"start", "delta"} : receive' = Append(receive, Msg(t, prov.active))
    /\ origin' = origin /\ wire' = wire

StreamsLate ==
    /\ prov.old # 0 /\ prov' = [prov EXCEPT !.old = 0]
    /\ receive' \in {receive \o <<Msg("delta", prov.old), Msg("end", prov.old)>>, receive}
    /\ origin' = origin /\ wire' = wire

EndsResponse == prov.active # 0 /\ Ends

TakesCancel ==
    /\ wire # <<>> /\ wire' = Tail(wire) /\ Head(wire).t = "cancel"
    /\ prov.active = 0 /\ UNCHANGED <<prov, origin, receive>>

TakesRequest ==
    /\ wire # <<>> /\ wire' = Tail(wire) /\ Head(wire).t \in Request
    /\ prov.active = 0 /\ Opens(Head(wire).t, <<>>)
    /\ prov' = [prov EXCEPT !.active = Len(origin) + 1, !.fresh = TRUE]

TakesSecond ==
    /\ wire # <<>> /\ wire' = Tail(wire) /\ Head(wire).t \in Request
    /\ prov.active # 0 /\ receive' = Append(receive, Msg("reject", prov.active))
    /\ prov' = [prov EXCEPT !.retry = Append(@, Head(wire).t)]
    /\ origin' = origin

Closes ==
    /\ receive' = Append(receive, Msg("close", 0))
    /\ UNCHANGED <<wire, prov, origin>>

LEMMA ProviderCases ==
    ASSUME TypeInv, Provider
    PROVE  /\ ProvidersOnly
           /\ scenario' \in Scenario /\ SameProvider
           /\ scenario'.batches = scenario.batches /\ scenario'.refused = scenario.refused
           /\ scenario'.acked = scenario.acked
           /\ Speaks \/ StreamsFresh \/ StreamsLate \/ EndsResponse
              \/ TakesCancel \/ TakesRequest \/ TakesSecond \/ Closes
           /\ EndsResponse => \/ wire' = wire
                              \/ wire # <<>> /\ Head(wire).t = "cancel" /\ wire' = Tail(wire)
           /\ ~over
<1> USE DEF ProvidersOnly, sendVars
<1>0. scenario \in Scenario /\ wire \in Seq(Wired)
    BY DEF TypeInv, InputTypes, ProviderTypes
<1>1. CASE ProviderSpeaks
    BY <1>0, <1>1, SpendFields DEF ProviderSpeaks, Speaks
<1>2. CASE ProviderStreams
    BY <1>0, <1>2 DEF ProviderStreams, StreamsFresh, StreamsLate, SameProvider
<1>3. CASE ProviderEnds
    BY <1>0, <1>3 DEF ProviderEnds, EndsResponse, SameProvider
<1>4. CASE ProviderTakes
    <2>0. ProvidersOnly /\ wire # <<>> /\ wire' = Tail(wire) /\ scenario' = scenario /\ ~over
        BY <1>4 DEF ProviderTakes
    <2>1. Head(wire).t \in Request \cup {"cancel"} /\ "cancel" \notin Request
        <3>1. Head(wire) \in Wired
            BY <1>0, <2>0, TailType
        <3> QED
            BY <3>1 DEF Wired, Request
    <2>2. CASE Head(wire).t = "cancel" /\ prov.active = 0 /\ UNCHANGED <<prov, origin, receive>>
        <3>1. ~EndsResponse
            BY <2>2 DEF EndsResponse
        <3> QED
            BY <1>0, <2>0, <2>2, <3>1 DEF TakesCancel, SameProvider
    <2>3. CASE Head(wire).t = "cancel" /\ prov.active # 0 /\ Ends
        BY <1>0, <2>0, <2>3 DEF EndsResponse, SameProvider
    <2>4. CASE /\ Head(wire).t # "cancel" /\ prov.active = 0
               /\ Opens(Head(wire).t, <<>>)
               /\ prov' = [prov EXCEPT !.active = Len(origin) + 1, !.fresh = TRUE]
        <3>1. ~EndsResponse
            BY <2>4 DEF EndsResponse
        <3> QED
            BY <1>0, <2>0, <2>1, <2>4, <3>1 DEF TakesRequest, SameProvider
    <2>5. CASE /\ Head(wire).t # "cancel" /\ prov.active # 0
               /\ receive' = Append(receive, Msg("reject", prov.active))
               /\ prov' = [prov EXCEPT !.retry = Append(@, Head(wire).t)]
               /\ origin' = origin
        <3>1. ~EndsResponse
            <4>1. SUFFICES ASSUME EndsResponse PROVE FALSE
                OBVIOUS
            <4>2. EndsPlain \/ EndsAgain
                BY <4>1, EndsCases DEF EndsResponse
            <4>3. /\ receive \in Seq(Message) /\ prov.active \in Nat
                  /\ prov.active = Len(origin) /\ Len(origin) \in Nat
                  /\ prov \in [active : Nat, old : Nat, retry : Seq(Request),
                               fresh : BOOLEAN]
                BY <2>5 DEF TypeInv, ProviderTypes
            <4>4. prov'.active = prov.active
                BY <2>5, <4>3
            <4>5. CASE EndsPlain
                BY <2>5, <4>3, <4>5, AppendType, MsgTypes DEF EndsPlain
            <4>6. CASE EndsAgain
                <5>1. prov'.active = Len(origin) + 1
                    BY <4>3, <4>6 DEF EndsAgain
                <5> QED
                    BY <4>3, <4>4, <5>1
            <4> QED
                BY <4>2, <4>5, <4>6
        <3> QED
            BY <1>0, <2>0, <2>1, <2>5, <3>1 DEF TakesSecond, SameProvider
    <2> QED
        BY <1>4, <2>2, <2>3, <2>4, <2>5 DEF ProviderTakes
<1>5. CASE ProviderCloses
    BY <1>0, <1>5, SpendFields DEF ProviderCloses, Closes
<1> QED
    BY <1>1, <1>2, <1>3, <1>4, <1>5 DEF Provider

(* Output and end of the response that was replaced.                       *)
LEMMA LateMsgs ==
    ASSUME TypeInv, prov.old # 0
    PROVE  LET d == Msg("delta", prov.old)
               e == Msg("end", prov.old)
               q == Append(Append(receive, d), e) IN
           /\ d \in Message /\ e \in Message /\ prov.old \in 1..Len(origin)
           /\ receive \o <<d, e>> = q
           /\ Append(receive, d) \in Seq(Message)
           /\ Elems(Append(receive, d)) = Elems(receive) \cup {d}
           /\ q \in Seq(Message) /\ Elems(q) = Elems(receive) \cup {d, e}
<1> DEFINE d == Msg("delta", prov.old)
           e == Msg("end", prov.old)
<1>1. prov.old \in 1..Len(origin) /\ prov.old \in Nat /\ receive \in Seq(Message)
    BY DEF TypeInv, ProviderTypes
<1>2. d \in Message /\ e \in Message
    BY <1>1, MsgTypes
<1> HIDE DEF d, e
<1>3. /\ Append(receive, d) \in Seq(Message)
      /\ Elems(Append(receive, d)) = Elems(receive) \cup {d}
    BY <1>1, <1>2, AppendType, ElemsAppend
<1>4. /\ Append(Append(receive, d), e) \in Seq(Message)
      /\ Elems(Append(Append(receive, d), e)) = Elems(Append(receive, d)) \cup {e}
    <2> DEFINE u == Append(receive, d)
    <2>1. u \in Seq(Message)
        BY <1>3
    <2> HIDE DEF u
    <2>2. Append(u, e) \in Seq(Message) /\ Elems(Append(u, e)) = Elems(u) \cup {e}
        BY <1>2, <2>1, AppendType, ElemsAppend
    <2> QED
        BY <2>2 DEF u
<1>5. receive \o <<d, e>> = Append(Append(receive, d), e)
    BY <1>1, <1>2
<1> QED
    BY <1>1, <1>2, <1>3, <1>4, <1>5 DEF d, e

LEMMA ProviderStepTypes ==
    ASSUME TypeInv, Provider
    PROVE  TypeInv'
<1>0. /\ prov \in [active : Nat, old : Nat, retry : Seq(Request), fresh : BOOLEAN]
      /\ wire \in Seq(Wired)
      /\ origin \in Seq(Request \cup {"vad"}) /\ Len(origin) \in Nat
      /\ receive \in Seq(Message)
      /\ \A m \in Elems(receive) : m.t # "close" => m.r \in 1..Len(origin)
      /\ Len(origin) <= MaxResponses
      /\ prov.active \in {0, Len(origin)} /\ prov.old \in 0..Len(origin)
      /\ prov.fresh => prov.active # 0
      /\ prov.old # 0 => prov.old # prov.active /\ scenario.tagged
    BY DEF TypeInv, ProviderTypes
<1>1. /\ ProvidersOnly /\ scenario' \in Scenario /\ scenario'.tagged = scenario.tagged
      /\ scenario'.batches = scenario.batches
    BY ProviderCases DEF SameProvider
<1>2. wire # <<>> => Tail(wire) \in Seq(Wired)
    BY <1>0, TailType
<1>3. <<>> \in Seq(Message) /\ Elems(<<>>) = {}
    <2>1. <<>> \in Seq(Message)
        OBVIOUS
    <2> QED
        BY <2>1, ElemsSmall
<1>4. CASE Speaks
    <2>1. /\ origin' \in Seq(Request \cup {"vad"})
          /\ Len(origin') = Next1 /\ Len(origin') <= MaxResponses
          /\ receive' \in Seq(Message)
          /\ \A k \in Elems(receive') : k.t # "close" => k.r \in 1..Len(origin')
        BY <1>3, <1>4, OpensTypes DEF Speaks
    <2>2. /\ prov' \in [active : Nat, old : Nat, retry : Seq(Request), fresh : BOOLEAN]
          /\ prov'.active = Next1 /\ prov'.old = prov.active
        <3> DEFINE n == Next1
                   a == prov.active
        <3>1. n \in Nat /\ a \in Nat
            BY <1>0 DEF Next1
        <3>2. prov' = [prov EXCEPT !.active = n, !.old = a, !.fresh = TRUE]
            BY <1>4 DEF Speaks, Next1
        <3> HIDE DEF n, a
        <3>3. /\ prov' \in [active : Nat, old : Nat, retry : Seq(Request), fresh : BOOLEAN]
              /\ prov'.active = n /\ prov'.old = a
            BY <1>0, <3>1, <3>2
        <3> QED
            BY <3>3 DEF n, a
    <2>3. ProviderTypes'
        BY <1>0, <1>1, <1>4, <2>1, <2>2 DEF ProviderTypes, Next1, Speaks
    <2> QED
        BY <1>0, <1>1, <2>1, <2>3, ProvidersKeep DEF Next1
<1>5. CASE StreamsFresh
    <2>1. PICK t \in {"start", "delta"} : receive' = Append(receive, Msg(t, prov.active))
        BY <1>5 DEF StreamsFresh
    <2>2. Msg(t, prov.active) \in Message /\ Msg(t, prov.active).r \in 1..Len(origin)
        BY <1>0, <1>5, MsgTypes DEF StreamsFresh
    <2>3. /\ receive' \in Seq(Message)
          /\ \A k \in Elems(receive') : k.t # "close" => k.r \in 1..Len(origin')
        BY <1>5, <2>1, <2>2, SendsTypes DEF StreamsFresh
    <2>4. /\ prov' \in [active : Nat, old : Nat, retry : Seq(Request), fresh : BOOLEAN]
          /\ prov'.active = prov.active /\ prov'.old = prov.old /\ ~prov'.fresh
        BY <1>0, <1>5 DEF StreamsFresh
    <2>5. ProviderTypes'
        BY <1>0, <1>1, <1>5, <2>3, <2>4 DEF ProviderTypes, StreamsFresh
    <2> QED
        BY <1>0, <1>1, <1>5, <2>5, ProvidersKeep DEF StreamsFresh
<1>6. CASE StreamsLate
    <2>1. /\ receive' \in Seq(Message)
          /\ \A k \in Elems(receive') : k.t # "close" => k.r \in 1..Len(origin)
        <3> DEFINE d == Msg("delta", prov.old)
                   e == Msg("end", prov.old)
                   q == Append(Append(receive, d), e)
        <3>1. /\ receive \o <<d, e>> = q /\ q \in Seq(Message)
              /\ Elems(q) = Elems(receive) \cup {d, e} /\ prov.old \in 1..Len(origin)
            BY <1>6, LateMsgs DEF StreamsLate
        <3>2. d.r = prov.old /\ e.r = prov.old
            BY MsgTypes
        <3>3. receive' \in {q, receive}
            BY <1>6, <3>1 DEF StreamsLate
        <3> HIDE DEF d, e, q
        <3> QED
            BY <1>0, <3>1, <3>2, <3>3
    <2>2. /\ prov' \in [active : Nat, old : Nat, retry : Seq(Request), fresh : BOOLEAN]
          /\ prov'.active = prov.active /\ prov'.old = 0 /\ prov'.fresh = prov.fresh
        BY <1>0, <1>6 DEF StreamsLate
    <2>3. ProviderTypes'
        BY <1>0, <1>1, <1>6, <2>1, <2>2 DEF ProviderTypes, StreamsLate
    <2> QED
        BY <1>0, <1>1, <1>6, <2>3, ProvidersKeep DEF StreamsLate
<1>7. CASE EndsResponse
    <2>1. wire' \in Seq(Wired)
        BY <1>0, <1>2, <1>7, ProviderCases
    <2>2. ProviderTypes' /\ Len(origin') >= Len(origin)
        BY <1>1, <1>7, <2>1, EndsTypes DEF EndsResponse
    <2> QED
        BY <1>1, <2>2, ProvidersKeep
<1>8. CASE TakesCancel
    <2>1. ProviderTypes'
        BY <1>0, <1>1, <1>2, <1>8 DEF ProviderTypes, TakesCancel
    <2> QED
        BY <1>0, <1>1, <1>8, <2>1, ProvidersKeep DEF TakesCancel
<1>9. CASE TakesRequest
    <2>1. /\ origin' \in Seq(Request \cup {"vad"})
          /\ Len(origin') = Next1 /\ Len(origin') <= MaxResponses
          /\ receive' \in Seq(Message)
          /\ \A k \in Elems(receive') : k.t # "close" => k.r \in 1..Len(origin')
        BY <1>3, <1>9, OpensTypes DEF TakesRequest
    <2>2. /\ prov' \in [active : Nat, old : Nat, retry : Seq(Request), fresh : BOOLEAN]
          /\ prov'.active = Next1 /\ prov'.old = prov.old
        <3> DEFINE n == Next1
        <3>1. n \in Nat
            BY <1>0 DEF Next1
        <3>2. prov' = [prov EXCEPT !.active = n, !.fresh = TRUE]
            BY <1>9 DEF TakesRequest, Next1
        <3> HIDE DEF n
        <3>3. /\ prov' \in [active : Nat, old : Nat, retry : Seq(Request), fresh : BOOLEAN]
              /\ prov'.active = n /\ prov'.old = prov.old
            BY <1>0, <3>1, <3>2
        <3> QED
            BY <3>3 DEF n
    <2>3. ProviderTypes'
        BY SMTT(60), <1>0, <1>1, <1>2, <1>9, <2>1, <2>2 DEF ProviderTypes, Next1, TakesRequest
    <2> QED
        BY <1>0, <1>1, <2>1, <2>3, ProvidersKeep DEF Next1
<1>10. CASE TakesSecond
    <2>2. Msg("reject", prov.active) \in Message /\ Msg("reject", prov.active).r \in 1..Len(origin)
        BY <1>0, <1>10, MsgTypes DEF TakesSecond
    <2>3. /\ receive' \in Seq(Message)
          /\ \A k \in Elems(receive') : k.t # "close" => k.r \in 1..Len(origin')
        BY <1>10, <2>2, SendsTypes DEF TakesSecond
    <2> DEFINE t == Append(prov.retry, Head(wire).t)
    <2>4. t \in Seq(Request) /\ prov' = [prov EXCEPT !.retry = t]
        BY <1>0, <1>10, AppendType DEF TakesSecond
    <2> HIDE DEF t
    <2>5. /\ prov' \in [active : Nat, old : Nat, retry : Seq(Request), fresh : BOOLEAN]
          /\ prov'.active = prov.active /\ prov'.old = prov.old /\ prov'.fresh = prov.fresh
        BY <1>0, <2>4
    <2>6. ProviderTypes'
        BY <1>0, <1>1, <1>2, <1>10, <2>3, <2>5 DEF ProviderTypes, TakesSecond
    <2> QED
        BY <1>0, <1>1, <1>10, <2>6, ProvidersKeep DEF TakesSecond
<1>11. CASE Closes
    <2>1. Msg("close", 0) \in Message /\ Msg("close", 0).t = "close"
        BY MsgTypes
    <2>2. receive' = Append(receive, Msg("close", 0)) /\ origin' = origin
        BY <1>11 DEF Closes
    <2>3. /\ receive' \in Seq(Message)
          /\ \A k \in Elems(receive') : k.t # "close" => k.r \in 1..Len(origin')
        BY <2>1, <2>2, SendsTypes
    <2>4. ProviderTypes'
        BY <1>0, <1>1, <1>11, <2>3 DEF ProviderTypes, Closes
    <2> QED
        BY <1>0, <1>1, <2>2, <2>4, ProvidersKeep
<1> QED
    BY <1>4, <1>5, <1>6, <1>7, <1>8, <1>9, <1>10, <1>11, ProviderCases

-----------------------------------------------------------------------------
(* Types: the runner                                                       *)

LEMMA RunnerKeeps ==
    ASSUME TypeInv, InputTypes', RunnerTypes', HistoryTypes', SameProvider,
           wire' \in Seq(Wired), UNCHANGED <<prov, origin, receive>>
    PROVE  TypeInv'
<1>1. ProviderTypes'
    BY DEF TypeInv, ProviderTypes, SameProvider
<1> QED
    BY <1>1 DEF TypeInv

(* The lifecycle of the response is left alone.                            *)
SameLife(s, t) ==
    /\ t.phase = s.phase /\ t.r = s.r /\ t.ack = s.ack /\ t.cont = s.cont
    /\ t.ledger = s.ledger /\ t.closed = s.closed

LEMMA SameLifeSteady ==
    ASSUME NEW s, Steady(s), NEW t \in State, SameLife(s, t)
    PROVE  Steady(t)
BY DEF Steady, SameLife, InFlight

LEMMA SteadyPrime ==
    ASSUME Steady(st'), origin' = origin
    PROVE  Steady(st)'
BY DEF Steady

LEMMA CountFields ==
    ASSUME scenario \in Scenario, NEW kind \in {"audio", "result", "cont", "cancel"},
           NEW ok \in BOOLEAN, Count(kind, ok), ok \/ scenario.fails > 0
    PROVE  /\ scenario' \in Scenario /\ SameProvider
           /\ scenario'.batches = scenario.batches
           /\ scenario'.acked = scenario.acked
           /\ scenario'.refused = IF ok THEN scenario.refused ELSE scenario.refused \cup {kind}
<1>1. CASE ok
    BY <1>1 DEF Count, SameProvider
<1>2. CASE ~ok
    <2> DEFINE f == scenario.fails - 1
               x == scenario.refused \cup {kind}
    <2>1. f \in Nat /\ x \in SUBSET {"audio", "result", "cont", "cancel"}
        BY <1>2 DEF Scenario
    <2>2. scenario' = [scenario EXCEPT !.fails = f, !.refused = x]
        BY <1>2 DEF Count
    <2> HIDE DEF f, x
    <2>3. /\ scenario' \in Scenario /\ scenario'.tagged = scenario.tagged
          /\ scenario'.echo = scenario.echo /\ scenario'.batches = scenario.batches
          /\ scenario'.acked = scenario.acked /\ scenario'.refused = x
        BY <2>1, <2>2 DEF Scenario
    <2> QED
        BY <1>2, <2>3 DEF SameProvider, x
<1> QED
    BY <1>1, <1>2

LEMMA OutcomeTypes ==
    /\ \A kind : \A ok \in Outcomes(kind) : ok \in BOOLEAN /\ (ok \/ scenario.fails > 0)
    /\ \A s : Len(s) \in Nat =>
          \A k \in Taken(s) : k \in 0..Len(s) /\ (k = Len(s) \/ scenario.fails > 0)
<1>1. \A kind : Outcomes(kind) = {TRUE} \/ (Outcomes(kind) = BOOLEAN /\ scenario.fails > 0)
    BY DEF Outcomes
<1>2. ASSUME NEW kind, NEW ok \in Outcomes(kind)
      PROVE  ok \in BOOLEAN /\ (ok \/ scenario.fails > 0)
    <2>1. CASE Outcomes(kind) = {TRUE}
        BY <1>2, <2>1
    <2>2. CASE Outcomes(kind) = BOOLEAN /\ scenario.fails > 0
        BY <1>2, <2>2
    <2> QED
        BY <1>1, <2>1, <2>2
<1>3. FALSE \in Outcomes("audio") => scenario.fails > 0
    BY <1>1
<1>4. ASSUME NEW s, Len(s) \in Nat, NEW k \in Taken(s)
      PROVE  k \in 0..Len(s) /\ (k = Len(s) \/ scenario.fails > 0)
    <2>1. CASE FALSE \in Outcomes("audio")
        BY <1>3, <1>4, <2>1 DEF Taken
    <2>2. CASE FALSE \notin Outcomes("audio")
        BY <1>4, <2>2 DEF Taken
    <2> QED
        BY <2>1, <2>2
<1> QED
    BY <1>2, <1>4

(* The runner's stack after its innermost call.                            *)
LEMMA RestTypes ==
    ASSUME TypeInv, agenda # <<>>
    PROVE  /\ Rest \in Seq(Tasks) /\ IdleLast(Rest)
           /\ Head(agenda) \in Tasks /\ agenda \in Seq(Tasks)
           /\ agenda = <<Head(agenda)>> \o Rest
           /\ Elems(agenda) = {Head(agenda)} \cup Elems(Rest)
           /\ Head(agenda) \in IdleTask => Elems(agenda) \subseteq IdleTask
<1>1. agenda \in Seq(Tasks) /\ IdleLast(agenda)
    BY DEF TypeInv, RunnerTypes
<1> QED
    BY <1>1, IdleTail, PassHead, ElemsTail DEF Rest

(* One more call before the others.                                        *)
LEMMA PushTask ==
    ASSUME NEW a \in Seq(Tasks), IdleLast(a), NEW x \in Tasks \ IdleTask
    PROVE  <<x>> \o a \in Seq(Tasks) /\ IdleLast(<<x>> \o a)
<1>1. <<x>> \in Seq(Tasks) /\ Elems(<<x>>) = {x}
    BY ElemsSmall, SingletonType
<1> QED
    BY <1>1, IdleConcat

LEMMA PushTasks ==
    ASSUME NEW a \in Seq(Tasks), IdleLast(a), NEW x \in Tasks \ IdleTask,
           NEW y \in Tasks \ IdleTask
    PROVE  /\ <<x, y>> \o a \in Seq(Tasks) /\ IdleLast(<<x, y>> \o a)
           /\ <<x, y>> \o a = <<x>> \o (<<y>> \o a)
<1>1. <<y>> \o a \in Seq(Tasks) /\ IdleLast(<<y>> \o a)
    BY PushTask
<1>2. <<x, y>> \o a = <<x>> \o (<<y>> \o a)
    <2>1. x \in Tasks /\ y \in Tasks
        OBVIOUS
    <2> DEFINE p == <<x>>
               q == <<y>>
    <2>2. p \in Seq(Tasks) /\ q \in Seq(Tasks)
        BY <2>1
    <2>3. p \o q = <<x, y>>
        <3>1. Append(p, y) = p \o q
            BY <2>1, <2>2, AppendIsConcat
        <3>2. Append(p, y) = <<x, y>>
            <4> DEFINE u == Append(p, y)
                       v == <<x, y>>
            <4>1. u \in Seq(Tasks) /\ Len(u) = 2 /\ u[1] = x /\ u[2] = y
                <5>1. Len(p) = 1 /\ p[1] = x
                    OBVIOUS
                <5> HIDE DEF p
                <5>2. /\ u \in Seq(Tasks) /\ Len(u) = Len(p) + 1
                      /\ \A i \in 1..Len(p) : u[i] = p[i]
                      /\ u[Len(p) + 1] = y
                    BY <2>1, <2>2, AppendType
                <5> HIDE DEF u
                <5> QED
                    BY <5>1, <5>2
            <4>2. v \in Seq(Tasks) /\ Len(v) = 2 /\ v[1] = x /\ v[2] = y
                BY <2>1
            <4> HIDE DEF u, v
            <4>3. \A i \in 1..2 : u[i] = v[i]
                BY <4>1, <4>2
            <4>4. u = v
                BY <4>1, <4>2, <4>3
            <4> QED
                BY <4>4 DEF u, v
        <3> QED
            BY <3>1, <3>2
    <2> HIDE DEF p, q
    <2>4. (p \o q) \o a = p \o (q \o a)
        BY <2>2, ConcatAssociative
    <2> QED
        BY <2>3, <2>4 DEF p, q
<1>3. <<x>> \o (<<y>> \o a) \in Seq(Tasks) /\ IdleLast(<<x>> \o (<<y>> \o a))
    <2> DEFINE b == <<y>> \o a
    <2>1. b \in Seq(Tasks) /\ IdleLast(b)
        BY <1>1
    <2> HIDE DEF b
    <2>2. <<x>> \o b \in Seq(Tasks) /\ IdleLast(<<x>> \o b)
        BY <2>1, PushTask
    <2> QED
        BY <2>2 DEF b
<1> QED
    BY <1>2, <1>3

LEMMA BusyTasks ==
    /\ \A t \in {"pending", "cancel", "flush", "report"} : Task(t, 0) \in Tasks \ IdleTask
    /\ \A b \in Batch : Task("request", b) \in Tasks \ IdleTask
    /\ \A x \in Inputs : x \in Tasks \ IdleTask
<1>1. Batch \subseteq Nat
    BY DEF Batch
<1> QED
    BY <1>1, TaskTypes DEF Task, Tasks, TaskName, IdleTask

(* What an input is when it comes off the ingress.                         *)
LEMMA TakeInputFields ==
    ASSUME TypeInv, NEW next \in Seq(Tasks), IdleLast(next), ordered # <<>>, TakeInput(next)
    PROVE  LET x == Head(ordered) IN
           /\ x \in Inputs /\ ordered' = Tail(ordered)
           /\ Tail(ordered) \in Seq(Inputs) /\ Len(Tail(ordered)) <= IngressCap
           /\ agenda' \in {<<x>> \o next, <<Task("pending", 0)>> \o (<<x>> \o next)}
           /\ agenda' \in Seq(Tasks) /\ IdleLast(agenda')
<1> DEFINE x == Head(ordered)
<1>1. /\ x \in Inputs /\ Tail(ordered) \in Seq(Inputs) /\ Len(Tail(ordered)) <= IngressCap
    <2>1. ordered \in Seq(Inputs) /\ Len(ordered) <= IngressCap /\ IngressCap \in Nat
        BY SessionAssumption DEF TypeInv, InputTypes
    <2> QED
        BY <2>1, TailType
<1>2. ordered' = Tail(ordered)
    BY DEF TakeInput
<1>3. x \in Tasks \ IdleTask /\ Task("pending", 0) \in Tasks \ IdleTask
    BY <1>1, BusyTasks
<1>4. agenda' \in {(<<>> \o <<x>>) \o next, (<<Task("pending", 0)>> \o <<x>>) \o next}
    BY DEF TakeInput
<1> HIDE DEF x
<1> DEFINE p == Task("pending", 0)
<1> HIDE DEF p
<1>5. <<x>> \in Seq(Tasks) /\ <<p>> \in Seq(Tasks)
    BY <1>3, SingletonType DEF p
<1>6. <<>> \o <<x>> = <<x>>
    BY <1>5, ConcatSimplifications
<1>7. (<<p>> \o <<x>>) \o next = <<p>> \o (<<x>> \o next)
    BY <1>5, ConcatAssociative
<1>8. <<x>> \o next \in Seq(Tasks) /\ IdleLast(<<x>> \o next)
    BY <1>3, PushTask
<1>9. <<p>> \o (<<x>> \o next) \in Seq(Tasks) /\ IdleLast(<<p>> \o (<<x>> \o next))
    <2> DEFINE b == <<x>> \o next
    <2>1. b \in Seq(Tasks) /\ IdleLast(b) /\ p \in Tasks \ IdleTask
        BY <1>3, <1>8 DEF p
    <2> HIDE DEF b
    <2>2. <<p>> \o b \in Seq(Tasks) /\ IdleLast(<<p>> \o b)
        BY <2>1, PushTask
    <2> QED
        BY <2>2 DEF b
<1>10. agenda' \in {<<x>> \o next, <<p>> \o (<<x>> \o next)}
    BY <1>4, <1>6, <1>7 DEF p
<1>11. agenda' \in Seq(Tasks) /\ IdleLast(agenda')
    BY <1>8, <1>9, <1>10
<1> QED
    BY <1>1, <1>2, <1>10, <1>11 DEF x, p

(* The goroutine's stack changes and at most an input is taken.            *)
StackOnly ==
    UNCHANGED <<scenario, toolEvents, forwarder, frames, provVars, st, over,
                sendVars, leaked, reported>>

LEMMA StackTypes ==
    ASSUME TypeInv, StackOnly, agenda' \in Seq(Tasks), IdleLast(agenda'),
           ordered' \in Seq(Inputs), Len(ordered') <= IngressCap,
           lane' \in 0..LaneCap, inbox' \in Seq(Batch),
           flag' \in {"none", "accepted", "suppressed"}
    PROVE  TypeInv'
<1> USE DEF TypeInv, StackOnly, provVars, sendVars
<1>1. InputTypes'
    BY DEF InputTypes
<1>2. RunnerTypes'
    BY DEF RunnerTypes, Steady, InFlight
<1>3. HistoryTypes'
    BY DEF HistoryTypes
<1>4. wire' \in Seq(Wired)
    BY DEF ProviderTypes
<1> QED
    BY <1>1, <1>2, <1>3, <1>4, RunnerKeeps DEF SameProvider

LEMMA ReadTypes ==
    ASSUME TypeInv, agenda # <<>>,
           ForwardPendingMessages \/ ForwardPendingInputs \/ ReleaseExpired
           \/ AwaitMessage \/ AwaitInput \/ AwaitCancel \/ AwaitExpiry
    PROVE  TypeInv'
<1>0. /\ agenda \in Seq(Tasks) /\ IdleLast(agenda) /\ Rest \in Seq(Tasks) /\ IdleLast(Rest)
    BY RestTypes DEF TypeInv, RunnerTypes
<1>00. /\ ordered \in Seq(Inputs) /\ Len(ordered) <= IngressCap
       /\ lane \in 0..LaneCap /\ LaneCap \in Nat /\ inbox \in Seq(Batch)
       /\ flag \in {"none", "accepted", "suppressed"}
    BY SessionAssumption DEF TypeInv, InputTypes, RunnerTypes
<1>01. Loop \in Seq(Tasks) /\ IdleLast(Loop)
    BY IdleLoop
<1> USE DEF StackOnly
<1>1. ASSUME Return PROVE TypeInv'
    BY <1>0, <1>00, <1>1, StackTypes DEF Return, inputVars
<1>2. ASSUME NEW next \in Seq(Tasks), IdleLast(next), ordered # <<>>, TakeInput(next)
      PROVE TypeInv'
    <2>1. /\ ordered' = Tail(ordered)
          /\ Tail(ordered) \in Seq(Inputs) /\ Len(Tail(ordered)) <= IngressCap
          /\ agenda' \in Seq(Tasks) /\ IdleLast(agenda')
        BY <1>2, TakeInputFields
    <2> QED
        BY <1>00, <1>2, <2>1, StackTypes DEF TakeInput
<1>3. ASSUME lane > 0, TakeCancel(agenda) PROVE TypeInv'
    <2>1. agenda' \in Seq(Tasks) /\ IdleLast(agenda')
        BY <1>0, <1>3, BusyTasks, PushTask DEF TakeCancel
    <2>2. lane' \in 0..LaneCap
        BY <1>00, <1>3 DEF TakeCancel
    <2> QED
        BY <1>00, <1>3, <2>1, <2>2, StackTypes DEF TakeCancel
<1>4. CASE ForwardPendingMessages
    BY <1>0, <1>1, <1>4, ObserveTypes DEF ForwardPendingMessages
<1>5. CASE ForwardPendingInputs
    <2>1. \/ receive # <<>> /\ ObserveMessage(agenda)
          \/ lane > 0 /\ TakeCancel(agenda)
          \/ ordered # <<>> /\ TakeInput(agenda)
          \/ Return
        <3>1. CASE receive # <<>>
            BY <1>5, <3>1 DEF ForwardPendingInputs
        <3>2. CASE receive = <<>> /\ lane > 0
            BY <1>5, <3>2 DEF ForwardPendingInputs
        <3>3. CASE receive = <<>> /\ ~(lane > 0)
            <4>1. lane = 0
                BY <1>00, <3>3
            <4>2. CASE ordered # <<>>
                BY <1>5, <3>3, <4>1, <4>2 DEF ForwardPendingInputs
            <4>3. CASE ordered = <<>>
                BY <1>5, <3>3, <4>1, <4>3 DEF ForwardPendingInputs
            <4> QED
                BY <4>2, <4>3
        <3> QED
            BY <3>1, <3>2, <3>3
    <2> QED
        BY <1>0, <1>1, <1>2, <1>3, <2>1, ObserveTypes
<1>6. CASE ReleaseExpired
    <2>1. agenda' \in {<<Task("flush", 0)>> \o Rest, Rest}
        BY <1>6 DEF ReleaseExpired
    <2>2. agenda' \in Seq(Tasks) /\ IdleLast(agenda')
        BY <1>0, <2>1, BusyTasks, PushTask
    <2> QED
        BY <1>00, <1>6, <2>2, StackTypes DEF ReleaseExpired, inputVars
<1>7. CASE AwaitMessage
    BY <1>01, <1>7, ObserveTypes DEF AwaitMessage
<1>8. CASE AwaitInput
    BY <1>01, <1>2, <1>8 DEF AwaitInput
<1>9. CASE AwaitCancel
    <2>1. agenda' = <<Task("pending", 0), Task("cancel", 0)>> \o Loop
        BY <1>9 DEF AwaitCancel
    <2>2. agenda' \in Seq(Tasks) /\ IdleLast(agenda')
        BY <1>01, <2>1, BusyTasks, PushTasks
    <2>3. lane' \in 0..LaneCap
        BY <1>00, <1>9 DEF AwaitCancel
    <2> QED
        BY <1>00, <1>9, <2>2, <2>3, StackTypes DEF AwaitCancel
<1>10. CASE AwaitExpiry
    <2>1. st.held # <<>> /\ st.held \in Seq(AudioTask)
        BY <1>10 DEF AwaitExpiry, TypeInv, RunnerTypes, Steady, State
    <2>2. st.held[1].n \in Nat
        <3>1. st.held[1] \in AudioTask
            BY <2>1, TailType
        <3> QED
            BY <3>1 DEF AudioTask
    <2> DEFINE h == st.held[1].n
    <2>3. agenda' = <<Task("inputs", 0), Task("expired", h)>> \o Loop
        BY <1>10 DEF AwaitExpiry
    <2>4. agenda' \in Seq(Tasks) /\ IdleLast(agenda')
        BY SMTT(60), <2>2, <2>3, IdleLoop
    <2> QED
        BY <1>00, <1>10, <2>4, StackTypes DEF AwaitExpiry, inputVars
<1> QED
    BY <1>4, <1>5, <1>6, <1>7, <1>8, <1>9, <1>10

(* A cancel is noted for the response and the acknowledgement.             *)
NotesCancel(s, t) ==
    /\ t.phase = IF s.phase = "inflight" THEN "cancelling"
                 ELSE IF s.phase = "idle" THEN "interrupted" ELSE s.phase
    /\ t.ack = IF s.ack = "outstanding" THEN "cancelled" ELSE s.ack
    /\ t.ledger = Mark(s.ledger, s.r, "cancelled")
    /\ t.r = s.r /\ t.cont = s.cont /\ t.closed = s.closed

HoldsFrame ==
    /\ st'.held = Append(st.held, Head(agenda)) /\ st'.failures = st.failures
    /\ agenda' = Rest /\ UNCHANGED <<scenario, over, lastFrame, reported>>

SendsFrame ==
    /\ st'.held = <<>> /\ st'.failures = st.failures
    /\ lastFrame' = Head(agenda).n /\ agenda' = Rest
    /\ UNCHANGED <<scenario, over, reported>>

LosesSession ==
    /\ over' /\ agenda' = <<>> /\ lastFrame' \in Nat
    /\ st'.held = <<>> /\ st'.failures = {} /\ reported' = reported \cup st.failures

LEMMA AudioCases ==
    ASSUME TypeInv, ForwardAudio
    PROVE  /\ agenda # <<>> /\ ~over /\ Head(agenda) \in AudioTask
           /\ st' \in State /\ st'.deferred = st.deferred /\ st'.rejected = st.rejected
           /\ UNCHANGED <<inputVars, prov, origin, receive, flag, asked, undelivered, leaked>>
           /\ \/ CancelTarget(st) /\ CancelCurrent /\ NotesCancel(st, st')
              \/ SameLife(st, st') /\ UNCHANGED <<cancels, cut, wire>>
           /\ HoldsFrame \/ SendsFrame \/ LosesSession
           /\ scenario' \in Scenario /\ SameProvider
           /\ scenario'.batches = scenario.batches /\ scenario'.acked = scenario.acked
<1> DEFINE frame == Head(agenda)
           s == IF frame.t = "plain" THEN st ELSE Hear(st, frame.t)
           onset == frame.t = "loud" /\ s.speech >= MinSpeech
           sent == Released(frame)
           bars == onset /\ CancelTarget(st)
<1>0. /\ st \in State /\ scenario \in Scenario /\ agenda \in Seq(Tasks)
      /\ lastFrame \in Nat
    BY DEF TypeInv, RunnerTypes, Steady, InputTypes, HistoryTypes
<1>1. /\ agenda # <<>> /\ ~over /\ frame.t \in Audio
    BY ZenonT(60) DEF ForwardAudio, Doing
<1>2. frame \in AudioTask
    <2>1. frame \in Tasks
        BY <1>0, <1>1, TailType
    <2> QED
        BY <1>1, <2>1 DEF Tasks, AudioTask
<1>3. /\ s \in State /\ SameLife(st, s) /\ SameQueues(st, s) /\ s.failures = st.failures
    <2>1. CASE frame.t = "plain"
        BY <1>0, <2>1 DEF SameLife, SameQueues
    <2>2. CASE frame.t # "plain"
        BY <1>0, <2>2, HearFields DEF SameLife
    <2> QED
        BY <2>1, <2>2
<1>4. st.held \in Seq(AudioTask) /\ s.held = st.held
    BY <1>0, <1>3 DEF State, SameQueues
<1>5. /\ sent \in Seq(AudioTask) /\ Len(sent) \in Nat /\ Len(sent) > 0
      /\ sent[Len(sent)] = frame /\ sent = Append(st.held, frame)
      /\ \A k \in 1..Len(sent) : sent[k].n \in Nat
    <2>1. sent = Append(st.held, frame)
        BY DEF Released
    <2>2. /\ sent \in Seq(AudioTask) /\ Len(sent) = Len(st.held) + 1
          /\ sent[Len(st.held) + 1] = frame
        BY SMTT(60), <1>2, <1>4, <2>1, AppendType
    <2>3. \A k \in 1..Len(sent) : sent[k] \in AudioTask
        BY <2>2
    <2> QED
        BY <1>4, <2>1, <2>2, <2>3 DEF AudioTask
<1>6. UNCHANGED <<inputVars, prov, origin, receive, flag, stops, asked, undelivered, leaked>>
    BY ZenonT(60) DEF ForwardAudio
<1>7. \/ /\ st' = [s EXCEPT !.held = Append(@, frame)]
         /\ agenda' = Rest
         /\ UNCHANGED <<scenario, wire, over, lastFrame, cancels, cut, reported>>
      \/ \E ok \in IF bars THEN Outcomes("cancel") ELSE {TRUE}, k \in Taken(sent) :
              /\ ok \/ k = Len(sent)
              /\ IF bars /\ ok THEN CancelCurrent ELSE UNCHANGED <<cancels, cut, wire>>
              /\ SendFrames(sent, IF ok THEN k ELSE 0)
              /\ Count(IF ok THEN "audio" ELSE "cancel", ok /\ k = Len(sent))
              /\ over' = ~(ok /\ k = Len(sent))
              /\ st' = [IF bars /\ ok THEN NoteCancelSent(s) ELSE s
                          EXCEPT !.held = <<>>, !.failures = IF over' THEN {} ELSE @]
              /\ reported' = IF over' THEN reported \cup st.failures ELSE reported
              /\ agenda' = IF over' THEN <<>> ELSE Rest
    BY ZenonT(60) DEF ForwardAudio
<1> HIDE DEF frame, s, sent, onset
<1>8. CASE /\ st' = [s EXCEPT !.held = Append(@, frame)]
           /\ agenda' = Rest
           /\ UNCHANGED <<scenario, wire, over, lastFrame, cancels, cut, reported>>
    <2> DEFINE h == Append(st.held, frame)
    <2>1. h \in Seq(AudioTask)
        BY <1>2, <1>4, AppendType
    <2>2. st' = [s EXCEPT !.held = h]
        BY <1>4, <1>8
    <2> HIDE DEF h
    <2>3. /\ st' \in State /\ st'.held = h /\ SameLife(s, st')
          /\ st'.deferred = s.deferred /\ st'.rejected = s.rejected
          /\ st'.failures = s.failures
        BY <1>3, <2>1, <2>2 DEF State, SameLife
    <2>4. SameLife(st, st') /\ st'.deferred = st.deferred /\ st'.rejected = st.rejected
          /\ st'.failures = st.failures
        BY <1>3, <2>3 DEF SameLife, SameQueues
    <2>5. HoldsFrame
        BY <1>8, <2>3, <2>4 DEF HoldsFrame, h, frame
    <2> QED
        BY <1>0, <1>1, <1>2, <1>6, <1>8, <2>3, <2>4, <2>5 DEF SameProvider, frame
<1>9. ASSUME NEW ok \in IF bars THEN Outcomes("cancel") ELSE {TRUE}, NEW k \in Taken(sent),
             ok \/ k = Len(sent),
             IF bars /\ ok THEN CancelCurrent ELSE UNCHANGED <<cancels, cut, wire>>,
             SendFrames(sent, IF ok THEN k ELSE 0),
             Count(IF ok THEN "audio" ELSE "cancel", ok /\ k = Len(sent)),
             over' = ~(ok /\ k = Len(sent)),
             st' = [IF bars /\ ok THEN NoteCancelSent(s) ELSE s
                          EXCEPT !.held = <<>>, !.failures = IF over' THEN {} ELSE @],
             reported' = IF over' THEN reported \cup st.failures ELSE reported,
             agenda' = IF over' THEN <<>> ELSE Rest
      PROVE  /\ st' \in State /\ st'.deferred = st.deferred /\ st'.rejected = st.rejected
             /\ \/ CancelTarget(st) /\ CancelCurrent /\ NotesCancel(st, st')
                \/ SameLife(st, st') /\ UNCHANGED <<cancels, cut, wire>>
             /\ SendsFrame \/ LosesSession
             /\ scenario' \in Scenario /\ SameProvider
             /\ scenario'.batches = scenario.batches /\ scenario'.acked = scenario.acked
    <2> DEFINE u == IF bars /\ ok THEN NoteCancelSent(s) ELSE s
               f == IF over' THEN {} ELSE u.failures
    <2>1. ok \in BOOLEAN /\ (ok \/ scenario.fails > 0)
        BY <1>9, OutcomeTypes
    <2>2. k \in 0..Len(sent) /\ (k = Len(sent) \/ scenario.fails > 0)
        BY <1>5, <1>9, OutcomeTypes
    <2>3. /\ u \in State /\ u.failures = st.failures /\ SameQueues(st, u)
          /\ IF bars /\ ok THEN NotesCancel(st, u) ELSE SameLife(st, u)
        <3>1. CASE bars /\ ok
            <4>1. u = NoteCancelSent(s)
                BY <3>1
            <4> HIDE DEF u
            <4> QED
                BY <1>3, <3>1, <4>1, NoteCancelFields DEF NotesCancel, SameLife, SameQueues
        <3>2. CASE ~(bars /\ ok)
            <4>1. u = s
                BY <3>2
            <4> HIDE DEF u
            <4> QED
                BY <1>3, <3>2, <4>1
        <3> QED
            BY <3>1, <3>2
    <2>4. st' = [u EXCEPT !.held = <<>>, !.failures = f]
        BY <1>9
    <2>5. f \in SUBSET Nat /\ <<>> \in Seq(AudioTask)
        BY <2>3 DEF State
    <2> HIDE DEF u
    <2>51. f = IF over' THEN {} ELSE st.failures
        BY <2>3
    <2> HIDE DEF f
    <2>6. /\ st' \in State /\ st'.held = <<>> /\ st'.failures = f /\ SameLife(u, st')
          /\ st'.deferred = u.deferred /\ st'.rejected = u.rejected
        BY <2>3, <2>4, <2>5 DEF State, SameLife
    <2>7. st'.deferred = st.deferred /\ st'.rejected = st.rejected
        BY <2>3, <2>6 DEF SameQueues
    <2>8. \/ CancelTarget(st) /\ CancelCurrent /\ NotesCancel(st, st')
          \/ SameLife(st, st') /\ UNCHANGED <<cancels, cut, wire>>
        <3>1. CASE bars /\ ok
            <4>1. NotesCancel(st, st')
                BY <2>3, <2>6, <3>1 DEF NotesCancel, SameLife
            <4> QED
                BY <1>9, <3>1, <4>1
        <3>2. CASE ~(bars /\ ok)
            <4>1. SameLife(st, st')
                BY <2>3, <2>6, <3>2 DEF SameLife
            <4> QED
                BY <1>9, <3>2, <4>1
        <3> QED
            BY <3>1, <3>2
    <2> DEFINE kind == IF ok THEN "audio" ELSE "cancel"
               all == ok /\ k = Len(sent)
    <2>9. kind \in {"audio", "result", "cont", "cancel"} /\ all \in BOOLEAN
          /\ (all \/ scenario.fails > 0) /\ Count(kind, all)
        BY <1>9, <2>1, <2>2
    <2>10. /\ scenario' \in Scenario /\ SameProvider
           /\ scenario'.batches = scenario.batches /\ scenario'.acked = scenario.acked
        <3> HIDE DEF kind, all
        <3> QED
            BY <1>0, <2>9, CountFields
    <2>11. SendsFrame \/ LosesSession
        <3>1. CASE all
            <4>1. over' = FALSE /\ over' = over /\ scenario' = scenario
                BY <1>1, <1>9, <3>1 DEF Count, TypeInv, RunnerTypes
            <4>2. lastFrame' = frame.n
                BY <1>5, <1>9, <3>1 DEF SendFrames
            <4>3. st'.failures = st.failures
                BY <2>51, <2>6, <4>1
            <4> QED
                BY <1>9, <2>6, <4>1, <4>2, <4>3 DEF SendsFrame, frame
        <3>2. CASE ~all
            <4>1. over' = TRUE
                BY <1>9, <3>2
            <4>2. lastFrame' \in Nat
                BY <1>0, <1>5, <1>9, <2>2 DEF SendFrames
            <4>3. st'.failures = {}
                BY <2>51, <2>6, <4>1
            <4> QED
                BY <1>9, <2>6, <4>1, <4>2, <4>3 DEF LosesSession
        <3> QED
            BY <3>1, <3>2
    <2> QED
        BY <2>6, <2>7, <2>8, <2>10, <2>11
<1> QED
    BY ZenonT(60), <1>1, <1>2, <1>6, <1>7, <1>8, <1>9 DEF frame

-----------------------------------------------------------------------------
(* The handlers by what they do                                            *)

(* Nothing waits elsewhere afterwards.                                     *)
KeepsQueues ==
    /\ st'.deferred = st.deferred /\ st'.held = st.held
    /\ st'.rejected = st.rejected /\ st'.failures = st.failures

(* An event waits until its response or acknowledgement ends.              *)
Defers(x) ==
    /\ x \in Deferrable
    /\ st' \in State /\ SameLife(st, st') /\ st'.deferred = Append(st.deferred, x)
    /\ st'.held = st.held /\ st'.rejected = st.rejected /\ st'.failures = st.failures

LEMMA DeferFields ==
    ASSUME st \in State, NEW x \in Deferrable,
           st' = [st EXCEPT !.deferred = Append(@, x)]
    PROVE  Defers(x)
<1> DEFINE d == Append(st.deferred, x)
<1>1. d \in Seq(Deferrable)
    BY AppendType DEF State
<1>2. st' = [st EXCEPT !.deferred = d]
    OBVIOUS
<1> HIDE DEF d
<1>3. /\ st' \in State /\ SameLife(st, st') /\ st'.deferred = d
      /\ st'.held = st.held /\ st'.rejected = st.rejected /\ st'.failures = st.failures
    BY <1>1, <1>2 DEF State, SameLife
<1> QED
    BY <1>3 DEF Defers, d

(* What a handler of the runner's stack starts from.                       *)
LEMMA DoingFacts ==
    ASSUME TypeInv, NEW t, Doing(t)
    PROVE  /\ agenda # <<>> /\ ~over /\ Head(agenda).t = t /\ Head(agenda) \in Tasks
           /\ st \in State /\ scenario \in Scenario /\ agenda \in Seq(Tasks)
           /\ Rest \in Seq(Tasks) /\ IdleLast(Rest)
           /\ wire \in Seq(Wired)
BY RestTypes DEF Doing, TypeInv, RunnerTypes, Steady, InputTypes, ProviderTypes

LEMMA FlushStep ==
    ASSUME TypeInv, FlushHeld
    PROVE  /\ agenda # <<>> /\ ~over
           /\ \/ Head(agenda).t = "flush" /\ agenda' = Rest
              \/ Head(agenda).t \in Control /\ agenda' = agenda
           /\ st' \in State /\ SameLife(st, st') /\ st'.held = <<>>
           /\ st'.deferred = st.deferred /\ st'.rejected = st.rejected
           /\ st'.failures = st.failures
           /\ scenario' \in Scenario /\ SameProvider
           /\ scenario'.batches = scenario.batches /\ scenario'.acked = scenario.acked
           /\ \E k \in 0..Len(st.held) :
                 /\ lastFrame' = IF k > 0 THEN st.held[k].n ELSE lastFrame
                 /\ scenario'.refused = IF k = Len(st.held) THEN scenario.refused
                                        ELSE scenario.refused \cup {"audio"}
           /\ UNCHANGED <<inputVars, provVars, flag, over, cancels, cut, asked,
                          undelivered, leaked, reported>>
<1>1. /\ agenda # <<>> /\ ~over /\ st \in State /\ scenario \in Scenario
      /\ \/ Head(agenda).t = "flush" /\ agenda' = Rest
         \/ Head(agenda).t \in Control /\ agenda' = agenda
    BY DEF FlushHeld, Doing, TypeInv, RunnerTypes, Steady, InputTypes
<1>2. /\ st' \in State /\ SameLife(st, st') /\ st'.held = <<>>
      /\ st'.deferred = st.deferred /\ st'.rejected = st.rejected
      /\ st'.failures = st.failures
    <2>1. st' = [st EXCEPT !.held = <<>>] /\ <<>> \in Seq(AudioTask)
        BY DEF FlushHeld
    <2> QED
        BY <1>1, <2>1 DEF State, SameLife
<1>3. PICK k \in Taken(st.held) : SendFrames(st.held, k) /\ Count("audio", k = Len(st.held))
    BY DEF FlushHeld
<1>4. Len(st.held) \in Nat
    BY <1>1 DEF State
<1>5. k \in 0..Len(st.held) /\ (k = Len(st.held) \/ scenario.fails > 0)
    BY <1>4, OutcomeTypes
<1> DEFINE all == k = Len(st.held)
<1>6. /\ scenario' \in Scenario /\ SameProvider
      /\ scenario'.batches = scenario.batches /\ scenario'.acked = scenario.acked
      /\ scenario'.refused = IF all THEN scenario.refused
                             ELSE scenario.refused \cup {"audio"}
    <2>1. all \in BOOLEAN /\ Count("audio", all) /\ (all \/ scenario.fails > 0)
        BY <1>3, <1>5
    <2> HIDE DEF all
    <2> QED
        BY <1>1, <2>1, CountFields
<1>7. lastFrame' = IF k > 0 THEN st.held[k].n ELSE lastFrame
    BY <1>3 DEF SendFrames
<1> QED
    BY <1>1, <1>2, <1>5, <1>6, <1>7 DEF FlushHeld

LEMMA CancelStep ==
    ASSUME TypeInv, ForwardCancel
    PROVE  /\ agenda # <<>> /\ ~over /\ Head(agenda).t = "cancel"
           /\ agenda' \in {Rest, <<Task("flush", 0)>> \o Rest}
           /\ st' \in State /\ KeepsQueues
           /\ scenario' \in Scenario /\ SameProvider
           /\ scenario'.batches = scenario.batches /\ scenario'.acked = scenario.acked
           /\ "audio" \in scenario'.refused => "audio" \in scenario.refused
           /\ scenario.refused \subseteq scenario'.refused
           /\ \/ /\ NotesCancel(st, st') /\ wire' = Append(wire, Msg("cancel", 0))
                 /\ cut' = cut \cup ({st.r} \ {0})
              \/ SameLife(st, st') /\ UNCHANGED <<wire, cut>>
           /\ UNCHANGED <<inputVars, prov, origin, receive, flag, over, lastFrame, cancels,
                          asked, undelivered, leaked, reported>>
<1>1. /\ agenda # <<>> /\ ~over /\ Head(agenda).t = "cancel"
      /\ st \in State /\ scenario \in Scenario
    BY DoingFacts DEF ForwardCancel
<1>2. PICK ok \in Outcomes("cancel") :
         /\ st' = IF ok THEN NoteCancelSent(st) ELSE st
         /\ wire' = IF ok THEN Append(wire, Msg("cancel", 0)) ELSE wire
         /\ cut' = IF ok THEN cut \cup ({st.r} \ {0}) ELSE cut
         /\ Count("cancel", ok)
    BY DEF ForwardCancel
<1>3. ok \in BOOLEAN /\ (ok \/ scenario.fails > 0)
    BY OutcomeTypes
<1>4. /\ scenario' \in Scenario /\ SameProvider
      /\ scenario'.batches = scenario.batches /\ scenario'.acked = scenario.acked
      /\ scenario'.refused \in {scenario.refused, scenario.refused \cup {"cancel"}}
    BY <1>1, <1>2, <1>3, CountFields
<1>5. agenda' \in {Rest, <<Task("flush", 0)>> \o Rest}
    BY DEF ForwardCancel
<1>6. CASE ok
    <2>1. st' = NoteCancelSent(st)
        BY <1>2, <1>6
    <2>2. st' \in State /\ KeepsQueues /\ NotesCancel(st, st')
        BY <1>1, <2>1, NoteCancelFields DEF KeepsQueues, NotesCancel, SameQueues
    <2> QED
        BY <1>1, <1>2, <1>4, <1>5, <1>6, <2>2 DEF ForwardCancel
<1>7. CASE ~ok
    <2>1. st' = st
        BY <1>2, <1>7
    <2>2. st' \in State /\ KeepsQueues /\ SameLife(st, st')
        BY <1>1, <2>1 DEF KeepsQueues, SameLife
    <2> QED
        BY <1>1, <1>2, <1>4, <1>5, <1>7, <2>2 DEF ForwardCancel
<1> QED
    BY <1>3, <1>6, <1>7

LEMMA CommitStep ==
    ASSUME TypeInv, ForwardCommit
    PROVE  /\ agenda # <<>> /\ ~over /\ Head(agenda).t = "commit" /\ agenda' = Rest
           /\ \/ CancelPending(st) /\ Defers(Head(agenda)) /\ UNCHANGED wire
              \/ UNCHANGED st /\ wire' = Append(wire, Msg("turn", 0))
           /\ UNCHANGED <<scenario, inputVars, prov, origin, receive, flag, over, sendVars,
                          leaked, reported>>
<1>1. /\ agenda # <<>> /\ ~over /\ Head(agenda).t = "commit" /\ Head(agenda) \in Tasks
      /\ st \in State
    BY DoingFacts DEF ForwardCommit, Handling
<1>2. Head(agenda) \in Deferrable
    BY <1>1 DEF Deferrable
<1>3. CASE CancelPending(st)
    <2>1. st' = [st EXCEPT !.deferred = Append(@, Head(agenda))]
        BY <1>3 DEF ForwardCommit
    <2>2. Defers(Head(agenda))
        BY <1>1, <1>2, <2>1, DeferFields
    <2> QED
        BY <1>1, <1>3, <2>2 DEF ForwardCommit
<1>4. CASE ~CancelPending(st)
    BY <1>1, <1>4 DEF ForwardCommit
<1> QED
    BY <1>3, <1>4

LEMMA MessageStep ==
    ASSUME TypeInv, ForwardMessage
    PROVE  /\ agenda # <<>> /\ ~over /\ Head(agenda).t = "message" /\ agenda' = Rest
           /\ UNCHANGED st /\ wire' = Append(wire, Msg("turn", 0))
           /\ UNCHANGED <<scenario, inputVars, prov, origin, receive, flag, over, sendVars,
                          leaked, reported>>
BY DoingFacts DEF ForwardMessage, Handling

(* The provider takes the result, or its batch is undelivered.             *)
Delivers == UNCHANGED <<st, flag, undelivered>>
Refuses(b) ==
    /\ st' \in State /\ SameLife(st, st')
    /\ st'.deferred = st.deferred /\ st'.held = st.held
    /\ st'.rejected = TRUE /\ st'.failures = st.failures \cup {b}
    /\ flag' = "suppressed" /\ undelivered' = undelivered \cup {b}

LEMMA ResultStep ==
    ASSUME TypeInv, ForwardToolResult
    PROVE  /\ agenda # <<>> /\ ~over /\ Head(agenda).t = "result" /\ agenda' = Rest
           /\ Head(agenda).n \in Batch /\ Head(agenda) \in Tasks
           /\ Delivers \/ Refuses(Head(agenda).n)
           /\ scenario' \in Scenario /\ SameProvider
           /\ scenario'.batches = scenario.batches /\ scenario'.acked = scenario.acked
           /\ "audio" \in scenario'.refused => "audio" \in scenario.refused
           /\ scenario.refused \subseteq scenario'.refused
           /\ Consumed /\ KeepInput
           /\ UNCHANGED <<provVars, over, lastFrame, cancels, cut, asked, leaked, reported>>
<1> DEFINE b == Head(agenda).n
<1>1. /\ agenda # <<>> /\ ~over /\ Head(agenda).t = "result" /\ Head(agenda) \in Tasks
      /\ st \in State /\ scenario \in Scenario
    BY DoingFacts DEF ForwardToolResult, Handling
<1>2. b \in Batch /\ b \in Nat
    BY <1>1 DEF Tasks
<1>3. PICK ok \in Outcomes("result") :
         /\ st' = IF ok THEN st ELSE [st EXCEPT !.failures = @ \cup {b}, !.rejected = TRUE]
         /\ flag' = IF ok THEN flag ELSE "suppressed"
         /\ undelivered' = IF ok THEN undelivered ELSE undelivered \cup {b}
         /\ Count("result", ok)
    BY DEF ForwardToolResult
<1>4. ok \in BOOLEAN /\ (ok \/ scenario.fails > 0)
    BY OutcomeTypes
<1>5. /\ scenario' \in Scenario /\ SameProvider
      /\ scenario'.batches = scenario.batches /\ scenario'.acked = scenario.acked
      /\ scenario'.refused \in {scenario.refused, scenario.refused \cup {"result"}}
    BY <1>1, <1>3, <1>4, CountFields
<1>6. CASE ok
    BY <1>1, <1>2, <1>3, <1>5, <1>6 DEF ForwardToolResult, Delivers
<1>7. CASE ~ok
    <2> DEFINE f == st.failures \cup {b}
    <2>1. f \in SUBSET Nat
        BY <1>1, <1>2 DEF State
    <2>2. st' = [st EXCEPT !.failures = f, !.rejected = TRUE]
        BY <1>3, <1>7
    <2> HIDE DEF f
    <2>3. /\ st' \in State /\ SameLife(st, st')
          /\ st'.deferred = st.deferred /\ st'.held = st.held
          /\ st'.rejected = TRUE /\ st'.failures = f
        BY <1>1, <2>1, <2>2 DEF State, SameLife
    <2>4. Refuses(b)
        BY <1>3, <1>7, <2>3 DEF Refuses, f
    <2> QED
        BY <1>1, <1>2, <1>5, <2>4 DEF ForwardToolResult
<1> QED
    BY <1>4, <1>6, <1>7

(* What failed so far is written to the outbox.                            *)
Reports ==
    /\ st' \in State /\ SameLife(st, st')
    /\ st'.deferred = st.deferred /\ st'.held = st.held
    /\ st'.failures = {} /\ reported' = reported \cup st.failures

LEMMA SuppressStep ==
    ASSUME TypeInv, SuppressContinuation
    PROVE  /\ agenda # <<>> /\ ~over /\ Head(agenda).t = "cont" /\ agenda' = Rest
           /\ st.rejected /\ st'.rejected = FALSE /\ Reports /\ flag' = "suppressed"
           /\ Consumed /\ KeepInput
           /\ UNCHANGED <<scenario, provVars, over, sendVars, leaked>>
<1>1. /\ agenda # <<>> /\ ~over /\ Head(agenda).t = "cont" /\ st \in State
    BY DoingFacts DEF SuppressContinuation, Handling
<1>2. st' = [st EXCEPT !.rejected = FALSE, !.failures = {}]
    BY DEF SuppressContinuation
<1>3. /\ st' \in State /\ SameLife(st, st') /\ st'.rejected = FALSE
      /\ st'.deferred = st.deferred /\ st'.held = st.held /\ st'.failures = {}
    BY <1>1, <1>2 DEF State, SameLife
<1> QED
    BY <1>1, <1>3 DEF SuppressContinuation, Reports

LEMMA ReportStep ==
    ASSUME TypeInv, Report
    PROVE  /\ agenda # <<>> /\ ~over /\ Head(agenda).t = "report" /\ agenda' = Rest
           /\ Reports /\ st'.rejected = st.rejected
           /\ UNCHANGED <<scenario, inputVars, provVars, flag, over, sendVars, leaked>>
<1>1. /\ agenda # <<>> /\ ~over /\ Head(agenda).t = "report" /\ st \in State
    BY DoingFacts DEF Report
<1>2. st' = [st EXCEPT !.failures = {}]
    BY DEF Report
<1>3. /\ st' \in State /\ SameLife(st, st') /\ st'.rejected = st.rejected
      /\ st'.deferred = st.deferred /\ st'.held = st.held /\ st'.failures = {}
    BY <1>1, <1>2 DEF State, SameLife
<1> QED
    BY <1>1, <1>3 DEF Report, Reports

LEMMA EndStep ==
    ASSUME TypeInv, AwaitEnd
    PROVE  /\ agenda # <<>> /\ ~over /\ Head(agenda).t = "await" /\ agenda' = <<>> /\ over'
           /\ Reports /\ st'.rejected = st.rejected
           /\ scenario' \in Scenario /\ SameProvider
           /\ scenario'.batches = scenario.batches /\ scenario'.acked = scenario.acked
           /\ scenario'.refused = scenario.refused
           /\ UNCHANGED <<inputVars, provVars, flag, sendVars, leaked>>
<1>1. /\ agenda # <<>> /\ ~over /\ Head(agenda).t = "await" /\ st \in State
      /\ scenario \in Scenario
    BY DoingFacts DEF AwaitEnd
<1>2. st' = [st EXCEPT !.failures = {}]
    BY DEF AwaitEnd, ReportAll
<1>3. /\ st' \in State /\ SameLife(st, st') /\ st'.rejected = st.rejected
      /\ st'.deferred = st.deferred /\ st'.held = st.held /\ st'.failures = {}
    BY <1>1, <1>2 DEF State, SameLife
<1>4. /\ scenario' \in Scenario /\ SameProvider
      /\ scenario'.batches = scenario.batches /\ scenario'.acked = scenario.acked
      /\ scenario'.refused = scenario.refused
    <2>1. scenario' = scenario \/ Spend("ends")
        BY DEF AwaitEnd
    <2> QED
        BY <1>1, <2>1, SpendFields DEF SameProvider
<1> QED
    BY <1>1, <1>3, <1>4 DEF AwaitEnd, ReportAll, Reports

LEMMA HoldStep ==
    ASSUME TypeInv, HoldOrSync
    PROVE  /\ agenda # <<>> /\ ~over /\ Head(agenda).t = "cont" /\ Head(agenda).n \in Batch
           /\ Head(agenda) \in Tasks /\ ~st.rejected
           /\ \/ AckOutstanding(st) /\ Defers(Head(agenda)) /\ agenda' = Rest
              \/ /\ UNCHANGED st
                 /\ agenda' = <<Task("pending", 0), Task("request", Head(agenda).n)>> \o Rest
           /\ UNCHANGED <<scenario, inputVars, provVars, flag, over, sendVars, leaked,
                          reported>>
<1>1. /\ agenda # <<>> /\ ~over /\ Head(agenda).t = "cont" /\ Head(agenda) \in Tasks
      /\ st \in State
    BY DoingFacts DEF HoldOrSync, Handling
<1>2. Head(agenda) \in Deferrable /\ Head(agenda).n \in Batch
    BY <1>1 DEF Deferrable, Tasks
<1>3. CASE AckOutstanding(st)
    <2>1. st' = [st EXCEPT !.deferred = Append(@, Head(agenda))]
        BY <1>3 DEF HoldOrSync
    <2>2. Defers(Head(agenda))
        BY <1>1, <1>2, <2>1, DeferFields
    <2> QED
        BY <1>1, <1>2, <1>3, <2>2 DEF HoldOrSync
<1>4. CASE ~AckOutstanding(st)
    BY <1>1, <1>2, <1>4 DEF HoldOrSync
<1> QED
    BY <1>3, <1>4

(* The provider is asked to continue after the results of batch b.         *)
Asks(b) ==
    /\ asked' = [asked EXCEPT ![b] = @ + 1]
    /\ st' \in State /\ KeepsQueues
    /\ st'.phase = st.phase /\ st'.r = st.r /\ st'.ack = st.ack
    /\ st'.ledger = st.ledger /\ st'.closed = st.closed
    /\ \/ st'.cont = st.cont /\ UNCHANGED <<wire, flag>>
       \/ st'.cont = "requested" /\ wire' = Append(wire, Msg("cont", 0)) /\ flag' = "accepted"
    /\ Consumed

LEMMA RequestStep ==
    ASSUME TypeInv, RequestContinuation
    PROVE  /\ agenda # <<>> /\ ~over /\ Head(agenda).t = "request" /\ Head(agenda).n \in Batch
           /\ agenda' = Rest
           /\ \/ /\ DefersContinuation(st) /\ Defers(Task("cont", Head(agenda).n))
                 /\ UNCHANGED <<toolEvents, wire, flag, asked>>
              \/ ~DefersContinuation(st) /\ Asks(Head(agenda).n)
           /\ scenario' \in Scenario /\ SameProvider
           /\ scenario'.batches = scenario.batches /\ scenario'.acked = scenario.acked
           /\ "audio" \in scenario'.refused => "audio" \in scenario.refused
           /\ scenario.refused \subseteq scenario'.refused
           /\ KeepInput
           /\ UNCHANGED <<prov, origin, receive, over, lastFrame, cancels, cut, undelivered,
                          leaked, reported>>
<1> DEFINE b == Head(agenda).n
<1>1. /\ agenda # <<>> /\ ~over /\ Head(agenda).t = "request" /\ Head(agenda) \in Tasks
      /\ st \in State /\ scenario \in Scenario
    BY DoingFacts DEF RequestContinuation
<1>2. b \in Batch
    BY <1>1 DEF Tasks
<1>3. CASE DefersContinuation(st)
    <2>1. Task("cont", b) \in Tasks /\ Task("cont", b).t = "cont"
        BY <1>2, TaskTypes
    <2>2. Task("cont", b) \in Deferrable
        BY <2>1 DEF Deferrable
    <2>3. st' = [st EXCEPT !.deferred = Append(@, Task("cont", b))]
        BY <1>3 DEF RequestContinuation
    <2>4. Defers(Task("cont", b))
        BY <1>1, <2>2, <2>3, DeferFields
    <2>5. UNCHANGED <<scenario, toolEvents, wire, flag, asked>>
        BY <1>3 DEF RequestContinuation
    <2> QED
        BY <1>1, <1>2, <1>3, <2>4, <2>5 DEF RequestContinuation, SameProvider
<1>4. CASE ~DefersContinuation(st)
    <2>1. PICK ok \in Outcomes("cont") :
            /\ st' = IF ok THEN [st EXCEPT !.cont = "requested"] ELSE st
            /\ flag' = IF ok THEN "accepted" ELSE flag
            /\ wire' = IF ok THEN Append(wire, Msg("cont", 0)) ELSE wire
            /\ asked' = [asked EXCEPT ![b] = @ + 1]
            /\ Count("cont", ok) /\ Consumed
        BY <1>4 DEF RequestContinuation
    <2>2. ok \in BOOLEAN /\ (ok \/ scenario.fails > 0)
        BY OutcomeTypes
    <2>3. /\ scenario' \in Scenario /\ SameProvider
          /\ scenario'.batches = scenario.batches /\ scenario'.acked = scenario.acked
          /\ scenario'.refused \in {scenario.refused, scenario.refused \cup {"cont"}}
        BY <1>1, <2>1, <2>2, CountFields
    <2>4. Asks(b)
        <3>1. CASE ok
            <4>1. st' = [st EXCEPT !.cont = "requested"]
                BY <2>1, <3>1
            <4>2. /\ st' \in State /\ KeepsQueues
                  /\ st'.phase = st.phase /\ st'.r = st.r /\ st'.ack = st.ack
                  /\ st'.ledger = st.ledger /\ st'.closed = st.closed
                  /\ st'.cont = "requested"
                BY <1>1, <4>1 DEF State, KeepsQueues, Continuation
            <4> QED
                BY <2>1, <3>1, <4>2 DEF Asks
        <3>2. CASE ~ok
            BY <1>1, <2>1, <3>2 DEF Asks, KeepsQueues
        <3> QED
            BY <2>2, <3>1, <3>2
    <2> QED
        BY <1>1, <1>2, <1>4, <2>3, <2>4 DEF RequestContinuation
<1> QED
    BY <1>3, <1>4

(* An acknowledgement is requested, and an earlier cancel forgotten.       *)
Acknowledges ==
    /\ st' \in State /\ KeepsQueues
    /\ st'.ack = "outstanding"
    /\ st'.phase = IF st.phase = "cancelling" THEN "inflight"
                   ELSE IF st.phase = "interrupted" THEN "idle" ELSE st.phase
    /\ st'.r = st.r /\ st'.cont = st.cont /\ st'.ledger = st.ledger
    /\ st'.closed = st.closed
    /\ wire' = Append(wire, Msg("ack", 0))

LEMMA AckStep ==
    ASSUME TypeInv, ForwardAck
    PROVE  /\ agenda # <<>> /\ ~over /\ Head(agenda).t = "ack" /\ agenda' = Rest
           /\ Consumed /\ KeepInput
           /\ \/ UNCHANGED <<st, wire>>
              \/ ~InFlight(st) /\ ~AckOutstanding(st) /\ Acknowledges
           /\ UNCHANGED <<scenario, prov, origin, receive, flag, over, sendVars, leaked,
                          reported>>
<1>1. /\ agenda # <<>> /\ ~over /\ Head(agenda).t = "ack" /\ st \in State
    BY DoingFacts DEF ForwardAck, Handling
<1> DEFINE drops == InFlight(st) \/ st.cont = "requested" \/ Bound(st) \/ AckOutstanding(st)
           p == IF st.phase = "cancelling" THEN "inflight"
                ELSE IF st.phase = "interrupted" THEN "idle" ELSE st.phase
<1>2. CASE drops
    BY <1>1, <1>2 DEF ForwardAck, ReleaseDropped
<1>3. CASE ~drops
    <2>1. Consumed /\ wire' = Append(wire, Msg("ack", 0))
        BY <1>3 DEF ForwardAck
    <2>2. st' = [st EXCEPT !.ack = "outstanding", !.phase = p]
        BY <1>3 DEF ForwardAck
    <2>3. p \in Phase
        BY <1>1 DEF State, Phase
    <2>4. ~InFlight(st) /\ ~AckOutstanding(st)
        BY <1>3
    <2> HIDE DEF p, drops
    <2>5. /\ st' \in State /\ KeepsQueues
          /\ st'.ack = "outstanding" /\ st'.phase = p
          /\ st'.r = st.r /\ st'.cont = st.cont /\ st'.ledger = st.ledger
          /\ st'.closed = st.closed
        BY <1>1, <2>2, <2>3 DEF State, KeepsQueues, Acknowledgement
    <2> QED
        BY <1>1, <2>1, <2>4, <2>5 DEF ForwardAck, Acknowledges, p
<1> QED
    BY <1>2, <1>3

LEMMA InboxStep ==
    ASSUME TypeInv, AwaitRequest
    PROVE  /\ agenda # <<>> /\ ~over /\ Head(agenda).t = "await" /\ agenda' = Loop
           /\ inbox # <<>> /\ Head(inbox) \in Batch /\ inbox' = Tail(inbox)
           /\ flag' \in {flag, "none"}
           /\ \/ UNCHANGED <<wire, asked>>
              \/ /\ toolEvents = 0 /\ wire' = Append(wire, Msg("turn", 0))
                 /\ asked' = [asked EXCEPT ![Head(inbox)] = @ + 1]
           /\ UNCHANGED <<scenario, ordered, lane, toolEvents, forwarder, frames, prov,
                          origin, receive, st, over, lastFrame, cancels, cut, undelivered,
                          leaked, reported>>
<1>1. /\ agenda # <<>> /\ ~over /\ Head(agenda).t = "await"
    BY DoingFacts DEF AwaitRequest
<1>2. inbox # <<>> /\ inbox \in Seq(Batch) /\ toolEvents \in Nat
    BY DEF AwaitRequest, TypeInv, InputTypes
<1>3. Head(inbox) \in Batch
    BY <1>2
<1> QED
    BY <1>1, <1>2, <1>3 DEF AwaitRequest, ResultsPending

LEMMA NotesSteady ==
    ASSUME NEW s, Steady(s), NEW t \in State, NotesCancel(s, t)
    PROVE  Steady(t)
<1>1. /\ s \in State /\ s.r \in Nat /\ s.ledger \in Seq(Entry) /\ Len(s.ledger) <= Retention
      /\ s.phase \in Phase
    BY DEF Steady, State
<1>2. Len(t.ledger) <= Retention
    BY <1>1, MarkType DEF NotesCancel, EntryStatus
<1> QED
    BY <1>1, <1>2 DEF Steady, NotesCancel, InFlight, Phase

(* What a handler of the goroutine leaves in good order.                   *)
LEMMA HandlerTypes ==
    ASSUME TypeInv, SameProvider, scenario' \in Scenario, scenario'.batches = scenario.batches,
           UNCHANGED <<ordered, lane, inbox, forwarder, frames, prov, origin, receive>>,
           toolEvents' \in Nat, wire' \in Seq(Wired),
           agenda' \in Seq(Tasks), IdleLast(agenda'), Steady(st'),
           flag' \in {"none", "accepted", "suppressed"}, over' \in BOOLEAN,
           HistoryTypes'
    PROVE  TypeInv'
<1>1. InputTypes'
    BY DEF TypeInv, InputTypes
<1>2. RunnerTypes'
    BY SteadyPrime DEF RunnerTypes, IdleLast
<1> QED
    BY <1>1, <1>2, RunnerKeeps

LEMMA HandlerFacts ==
    ASSUME TypeInv
    PROVE  /\ scenario \in Scenario /\ toolEvents \in Nat
           /\ wire \in Seq(Wired) /\ Steady(st) /\ st \in State
           /\ agenda \in Seq(Tasks) /\ IdleLast(agenda)
           /\ flag \in {"none", "accepted", "suppressed"} /\ over \in BOOLEAN
           /\ lastFrame \in Nat /\ cancels \in [Response -> Nat] /\ cut \in SUBSET Nat
           /\ leaked \in SUBSET Nat /\ asked \in [Batch -> Nat]
           /\ undelivered \in SUBSET Nat /\ reported \in SUBSET Nat
           /\ st.r \in Nat /\ st.failures \in SUBSET Nat
           /\ st.held \in Seq(AudioTask) /\ st.deferred \in Seq(Deferrable)
           /\ st.r <= Len(origin) /\ Len(origin) <= MaxResponses
           /\ Consumed => toolEvents' \in Nat
           /\ \A q \in Wired : Append(wire, q) \in Seq(Wired)
<1>1. /\ scenario \in Scenario /\ toolEvents \in Nat
      /\ wire \in Seq(Wired) /\ Steady(st)
      /\ agenda \in Seq(Tasks) /\ IdleLast(agenda)
      /\ flag \in {"none", "accepted", "suppressed"} /\ over \in BOOLEAN
      /\ lastFrame \in Nat /\ cancels \in [Response -> Nat] /\ cut \in SUBSET Nat
      /\ leaked \in SUBSET Nat /\ asked \in [Batch -> Nat]
      /\ undelivered \in SUBSET Nat /\ reported \in SUBSET Nat
      /\ Len(origin) <= MaxResponses
    BY DEF TypeInv, InputTypes, ProviderTypes, RunnerTypes, HistoryTypes
<1>2. st \in State /\ st.r <= Len(origin)
    BY <1>1 DEF Steady
<1>3. /\ st.r \in Nat /\ st.failures \in SUBSET Nat /\ st.held \in Seq(AudioTask)
      /\ st.deferred \in Seq(Deferrable)
    BY <1>2 DEF State
<1>4. Consumed => toolEvents' \in Nat
    BY <1>1 DEF Consumed
<1>5. \A q \in Wired : Append(wire, q) \in Seq(Wired)
    BY <1>1, AppendType
<1> QED
    BY <1>1, <1>2, <1>3, <1>4, <1>5

LEMMA EmptyStack ==
    <<>> \in Seq(Tasks) /\ IdleLast(<<>>)
<1>1. <<>> \in Seq(Tasks)
    OBVIOUS
<1>2. IdleLast(<<>>)
    BY DEF IdleLast
<1> QED
    BY <1>1, <1>2

LEMMA ForwardAudioTypes ==
    ASSUME TypeInv, ForwardAudio
    PROVE  TypeInv'
<1>1. /\ agenda # <<>> /\ ~over /\ Head(agenda) \in AudioTask
      /\ st' \in State
      /\ UNCHANGED <<inputVars, prov, origin, receive, flag, asked, undelivered, leaked>>
      /\ \/ CancelTarget(st) /\ CancelCurrent /\ NotesCancel(st, st')
         \/ SameLife(st, st') /\ UNCHANGED <<cancels, cut, wire>>
      /\ HoldsFrame \/ SendsFrame \/ LosesSession
      /\ scenario' \in Scenario /\ SameProvider
      /\ scenario'.batches = scenario.batches
    BY AudioCases
<1>2. Rest \in Seq(Tasks) /\ IdleLast(Rest)
    BY <1>1, RestTypes
<1>3. Steady(st')
    BY <1>1, HandlerFacts, NotesSteady, SameLifeSteady
<1>4. /\ agenda' \in Seq(Tasks) /\ IdleLast(agenda') /\ over' \in BOOLEAN
      /\ lastFrame' \in Nat /\ reported' \in SUBSET Nat
    <2>1. Head(agenda).n \in Nat
        BY <1>1 DEF AudioTask
    <2>2. CASE HoldsFrame
        BY <1>1, <1>2, <2>2, HandlerFacts DEF HoldsFrame
    <2>3. CASE SendsFrame
        BY <1>1, <1>2, <2>1, <2>3, HandlerFacts DEF SendsFrame
    <2>4. CASE LosesSession
        <3>1. over' = TRUE
            BY <2>4 DEF LosesSession, ForwardAudio
        <3> QED
            BY SMTT(60), <2>4, <3>1, HandlerFacts, EmptyStack DEF LosesSession
    <2> QED
        BY <1>1, <2>2, <2>3, <2>4
<1>5. /\ wire' \in Seq(Wired) /\ cancels' \in [Response -> Nat]
      /\ cut' \in SUBSET Nat
    <2>1. CASE CancelCurrent
        <3>1. st.r # 0 => st.r \in Response
            <4>1. Len(origin) \in Nat /\ MaxResponses \in Nat
                BY SessionAssumption DEF TypeInv, ProviderTypes
            <4> QED
                BY <4>1, HandlerFacts DEF Response
        <3>2. cancels' \in [Response -> Nat]
            BY SMTT(60), <2>1, <3>1, HandlerFacts DEF CancelCurrent
        <3>3. cut' \in SUBSET Nat
            BY <2>1, HandlerFacts DEF CancelCurrent
        <3>4. wire' \in Seq(Wired)
            <4>1. Msg("cancel", st.r) \in Wired
                BY <3>1, WiredTypes
            <4> QED
                BY <2>1, <4>1, HandlerFacts DEF CancelCurrent
        <3> QED
            BY <3>2, <3>3, <3>4
    <2>2. CASE UNCHANGED <<cancels, cut, wire>>
        BY <2>2, HandlerFacts
    <2> QED
        BY <1>1, <2>1, <2>2
<1>6. HistoryTypes'
    BY <1>1, <1>4, <1>5, HandlerFacts DEF HistoryTypes
<1> QED
    BY <1>1, <1>3, <1>4, <1>5, <1>6, HandlerFacts, HandlerTypes DEF inputVars

LEMMA FlushTypes ==
    ASSUME TypeInv, FlushHeld
    PROVE  TypeInv'
<1>1. /\ agenda # <<>> /\ st' \in State /\ SameLife(st, st') /\ agenda' \in {Rest, agenda}
      /\ scenario' \in Scenario /\ SameProvider /\ scenario'.batches = scenario.batches
      /\ UNCHANGED <<inputVars, provVars, flag, over, cancels, cut, asked, undelivered,
                     leaked, reported>>
    BY FlushStep
<1>2. PICK k \in 0..Len(st.held) : lastFrame' = IF k > 0 THEN st.held[k].n ELSE lastFrame
    BY FlushStep
<1>3. lastFrame' \in Nat
    <2>1. CASE k > 0
        <3>1. k \in 1..Len(st.held)
            BY <2>1
        <3>2. st.held[k] \in AudioTask
            BY <3>1, HandlerFacts
        <3> QED
            BY <1>2, <2>1, <3>2 DEF AudioTask
    <2>2. CASE ~(k > 0)
        BY <1>2, <2>2, HandlerFacts
    <2> QED
        BY <2>1, <2>2
<1>4. agenda' \in Seq(Tasks) /\ IdleLast(agenda')
    BY <1>1, RestTypes, HandlerFacts
<1>5. HistoryTypes'
    BY <1>1, <1>3, HandlerFacts DEF HistoryTypes
<1> QED
    BY <1>1, <1>4, <1>5, HandlerFacts, HandlerTypes, SameLifeSteady DEF inputVars, provVars

LEMMA EventTypes ==
    ASSUME TypeInv, Events \/ Report
    PROVE  TypeInv'
<1> USE HandlerFacts, RequestTypes
<1>0. agenda # <<>> => Rest \in Seq(Tasks) /\ IdleLast(Rest)
    BY RestTypes
<1>1. CASE ForwardCancel
    <2>1. /\ agenda # <<>> /\ agenda' \in {Rest, <<Task("flush", 0)>> \o Rest}
          /\ st' \in State /\ scenario' \in Scenario /\ SameProvider
          /\ scenario'.batches = scenario.batches
          /\ \/ /\ NotesCancel(st, st') /\ wire' = Append(wire, Msg("cancel", 0))
                /\ cut' = cut \cup ({st.r} \ {0})
             \/ SameLife(st, st') /\ UNCHANGED <<wire, cut>>
          /\ UNCHANGED <<inputVars, prov, origin, receive, flag, over, lastFrame, cancels,
                         asked, undelivered, leaked, reported>>
        BY <1>1, CancelStep
    <2>2. Steady(st')
        BY <2>1, NotesSteady, SameLifeSteady
    <2>3. agenda' \in Seq(Tasks) /\ IdleLast(agenda')
        BY <1>0, <2>1, PushTask, BusyTasks
    <2>4. HistoryTypes'
        BY <2>1 DEF HistoryTypes
    <2> QED
        BY <2>1, <2>2, <2>3, <2>4, HandlerTypes DEF inputVars
<1>2. CASE ForwardCommit
    <2>1. /\ agenda # <<>> /\ agenda' = Rest
          /\ \/ Defers(Head(agenda)) /\ UNCHANGED wire
             \/ UNCHANGED st /\ wire' = Append(wire, Msg("turn", 0))
          /\ UNCHANGED <<scenario, inputVars, prov, origin, receive, flag, over, sendVars,
                         leaked, reported>>
        BY <1>2, CommitStep
    <2>2. Steady(st') /\ wire' \in Seq(Wired)
        BY <2>1, SameLifeSteady DEF Defers
    <2>3. HistoryTypes'
        BY <2>1 DEF HistoryTypes, sendVars
    <2> QED
        BY <1>0, <2>1, <2>2, <2>3, HandlerTypes DEF inputVars, SameProvider
<1>3. CASE ForwardMessage
    <2>1. /\ agenda # <<>> /\ agenda' = Rest /\ UNCHANGED st /\ wire' = Append(wire, Msg("turn", 0))
          /\ UNCHANGED <<scenario, inputVars, prov, origin, receive, flag, over, sendVars,
                         leaked, reported>>
        BY <1>3, MessageStep
    <2>2. wire' \in Seq(Wired)
        BY <2>1
    <2>3. HistoryTypes'
        BY <2>1 DEF HistoryTypes, sendVars
    <2> QED
        BY <1>0, <2>1, <2>2, <2>3, HandlerTypes DEF inputVars, SameProvider
<1>4. CASE ForwardToolResult
    <2>1. /\ agenda # <<>> /\ agenda' = Rest /\ Head(agenda).n \in Batch
          /\ Delivers \/ Refuses(Head(agenda).n)
          /\ scenario' \in Scenario /\ SameProvider
          /\ scenario'.batches = scenario.batches
          /\ Consumed /\ KeepInput
          /\ UNCHANGED <<provVars, over, lastFrame, cancels, cut, asked, leaked, reported>>
        BY <1>4, ResultStep
    <2>2. /\ Steady(st') /\ undelivered' \in SUBSET Nat
          /\ flag' \in {"none", "accepted", "suppressed"}
        <3>1. Head(agenda).n \in Nat
            BY <2>1 DEF Batch
        <3> QED
            BY <2>1, <3>1, SameLifeSteady DEF Delivers, Refuses
    <2>3. HistoryTypes'
        BY <2>1, <2>2 DEF HistoryTypes
    <2> QED
        BY <1>0, <2>1, <2>2, <2>3, HandlerTypes DEF provVars, KeepInput
<1>5. CASE SuppressContinuation
    <2>1. /\ agenda # <<>> /\ agenda' = Rest /\ Reports /\ flag' = "suppressed"
          /\ Consumed /\ KeepInput
          /\ UNCHANGED <<scenario, provVars, over, sendVars, leaked>>
        BY <1>5, SuppressStep
    <2>2. Steady(st') /\ reported' \in SUBSET Nat
        BY <2>1, SameLifeSteady DEF Reports
    <2>3. HistoryTypes'
        BY <2>1, <2>2 DEF HistoryTypes, sendVars
    <2> QED
        BY <1>0, <2>1, <2>2, <2>3, HandlerTypes DEF provVars, KeepInput, SameProvider
<1>6. CASE HoldOrSync
    <2>1. /\ agenda # <<>> /\ Head(agenda).n \in Batch
          /\ \/ Defers(Head(agenda)) /\ agenda' = Rest
             \/ /\ UNCHANGED st
                /\ agenda' = <<Task("pending", 0), Task("request", Head(agenda).n)>> \o Rest
          /\ UNCHANGED <<scenario, inputVars, provVars, flag, over, sendVars, leaked,
                         reported>>
        BY <1>6, HoldStep
    <2>2. Steady(st')
        BY <2>1, SameLifeSteady DEF Defers
    <2>3. agenda' \in Seq(Tasks) /\ IdleLast(agenda')
        <3>1. Task("pending", 0) \in Tasks \ IdleTask
            BY BusyTasks
        <3>2. Task("request", Head(agenda).n) \in Tasks \ IdleTask
            BY <2>1, BusyTasks
        <3>3. Rest \in Seq(Tasks) /\ IdleLast(Rest)
            BY <1>0, <2>1
        <3>4. LET a == <<Task("pending", 0), Task("request", Head(agenda).n)>> \o Rest
              IN  a \in Seq(Tasks) /\ IdleLast(a)
            BY <3>1, <3>2, <3>3, PushTasks
        <3>5. CASE agenda' = Rest
            BY <3>3, <3>5
        <3>6. CASE agenda' # Rest
            BY <2>1, <3>4, <3>6
        <3> QED
            BY <3>5, <3>6
    <2>4. HistoryTypes'
        BY <2>1 DEF HistoryTypes, sendVars
    <2> QED
        BY <2>1, <2>2, <2>3, <2>4, HandlerTypes DEF inputVars, provVars, SameProvider
<1>7. CASE RequestContinuation
    <2>1. /\ agenda # <<>> /\ agenda' = Rest /\ Head(agenda).n \in Batch
          /\ \/ /\ Defers(Task("cont", Head(agenda).n))
                /\ UNCHANGED <<toolEvents, wire, flag, asked>>
             \/ Asks(Head(agenda).n)
          /\ scenario' \in Scenario /\ SameProvider
          /\ scenario'.batches = scenario.batches
          /\ KeepInput
          /\ UNCHANGED <<prov, origin, receive, over, lastFrame, cancels, cut, undelivered,
                         leaked, reported>>
        BY <1>7, RequestStep
    <2>2. CASE /\ Defers(Task("cont", Head(agenda).n))
               /\ UNCHANGED <<toolEvents, wire, flag, asked>>
        <3>1. Steady(st')
            BY <2>2, SameLifeSteady DEF Defers
        <3>2. HistoryTypes'
            BY <2>1, <2>2 DEF HistoryTypes
        <3> QED
            BY <1>0, <2>1, <2>2, <3>1, <3>2, HandlerTypes DEF KeepInput
    <2>3. CASE Asks(Head(agenda).n)
        <3>1. /\ Steady(st') /\ flag' \in {"none", "accepted", "suppressed"}
              /\ wire' \in Seq(Wired)
            BY <2>3 DEF Asks, Steady, InFlight
        <3>2. asked' \in [Batch -> Nat]
            BY <2>1, <2>3 DEF Asks
        <3>3. HistoryTypes'
            BY <2>1, <3>2 DEF HistoryTypes
        <3>4. toolEvents' \in Nat
            BY <2>3 DEF Asks
        <3> QED
            BY <1>0, <2>1, <3>1, <3>3, <3>4, HandlerTypes DEF KeepInput
    <2> QED
        BY <2>1, <2>2, <2>3
<1>8. CASE ForwardAck
    <2>1. /\ agenda # <<>> /\ agenda' = Rest /\ Consumed /\ KeepInput
          /\ \/ UNCHANGED <<st, wire>>
             \/ ~InFlight(st) /\ ~AckOutstanding(st) /\ Acknowledges
          /\ UNCHANGED <<scenario, prov, origin, receive, flag, over, sendVars, leaked,
                         reported>>
        BY <1>8, AckStep
    <2>2. Steady(st') /\ wire' \in Seq(Wired)
        <3>1. CASE UNCHANGED <<st, wire>>
            BY <3>1
        <3>2. CASE ~InFlight(st) /\ Acknowledges
            BY <3>2 DEF Acknowledges, Steady, InFlight
        <3> QED
            BY <2>1, <3>1, <3>2
    <2>3. HistoryTypes'
        BY <2>1 DEF HistoryTypes, sendVars
    <2> QED
        BY <1>0, <2>1, <2>2, <2>3, HandlerTypes DEF KeepInput, SameProvider
<1>9. CASE Report
    <2>1. /\ agenda # <<>> /\ agenda' = Rest /\ Reports
          /\ UNCHANGED <<scenario, inputVars, provVars, flag, over, sendVars, leaked>>
        BY <1>9, ReportStep
    <2>2. Steady(st') /\ reported' \in SUBSET Nat
        BY <2>1, SameLifeSteady DEF Reports
    <2>3. HistoryTypes'
        BY <2>1, <2>2 DEF HistoryTypes, sendVars
    <2> QED
        BY <1>0, <2>1, <2>2, <2>3, HandlerTypes DEF inputVars, provVars, SameProvider
<1> QED
    BY <1>1, <1>2, <1>3, <1>4, <1>5, <1>6, <1>7, <1>8, <1>9 DEF Events

LEMMA AwaitTypes ==
    ASSUME TypeInv, AwaitRequest \/ AwaitEnd
    PROVE  TypeInv'
<1> USE HandlerFacts
<1>1. CASE AwaitEnd
    <2>1. /\ agenda' = <<>> /\ over' /\ Reports
          /\ scenario' \in Scenario /\ SameProvider /\ scenario'.batches = scenario.batches
          /\ UNCHANGED <<inputVars, provVars, flag, sendVars, leaked>>
        BY <1>1, EndStep
    <2>2. Steady(st') /\ reported' \in SUBSET Nat
        BY <2>1, SameLifeSteady DEF Reports
    <2>3. over' \in BOOLEAN
        BY <1>1 DEF AwaitEnd
    <2>4. HistoryTypes'
        BY <2>1, <2>2 DEF HistoryTypes, sendVars
    <2> QED
        BY <2>1, <2>2, <2>3, <2>4, EmptyStack, HandlerTypes DEF inputVars, provVars
<1>2. CASE AwaitRequest
    <2>1. /\ agenda # <<>> /\ agenda' = Loop
          /\ inbox # <<>> /\ Head(inbox) \in Batch /\ inbox' = Tail(inbox)
          /\ flag' \in {flag, "none"}
          /\ \/ UNCHANGED <<wire, asked>>
             \/ /\ toolEvents = 0 /\ wire' = Append(wire, Msg("turn", 0))
                /\ asked' = [asked EXCEPT ![Head(inbox)] = @ + 1]
          /\ UNCHANGED <<scenario, ordered, lane, toolEvents, forwarder, frames, prov,
                         origin, receive, st, over, lastFrame, cancels, cut, undelivered,
                         leaked, reported>>
        BY <1>2, InboxStep
    <2>2. inbox' \in Seq(Batch)
        BY <2>1, TailType DEF TypeInv, InputTypes
    <2>3. asked' \in [Batch -> Nat] /\ wire' \in Seq(Wired)
        <3>1. CASE UNCHANGED <<wire, asked>>
            BY <3>1
        <3>2. CASE /\ wire' = Append(wire, Msg("turn", 0))
                   /\ asked' = [asked EXCEPT ![Head(inbox)] = @ + 1]
            <4>1. wire' \in Seq(Wired)
                BY <3>2, RequestTypes
            <4>2. asked' \in [Batch -> Nat]
                BY <2>1, <3>2
            <4> QED
                BY <4>1, <4>2
        <3> QED
            BY <2>1, <3>1, <3>2
    <2>4. InputTypes'
        BY <2>1, <2>2 DEF TypeInv, InputTypes
    <2>5. RunnerTypes'
        BY <2>1, IdleLoop DEF RunnerTypes, Steady, IdleLast
    <2>6. HistoryTypes'
        BY <2>1, <2>3 DEF HistoryTypes
    <2> QED
        BY <2>1, <2>3, <2>4, <2>5, <2>6, RunnerKeeps DEF SameProvider
<1> QED
    BY <1>1, <1>2

LEMMA InitTypes ==
    ASSUME Init
    PROVE  TypeInv
<1>1. scenario \in Scenario
    BY SessionAssumption DEF Init, Scenario
<1>2. /\ {IngressCap, LaneCap, Retention, MaxResponses} \subseteq Nat /\ MaxBatches \in Nat
    BY SessionAssumption
<1>3. /\ \A S : <<>> \in Seq(S)
      /\ Len(<<>>) = 0
    OBVIOUS
<1>4. InputTypes
    <2>1. scenario.batches \in 0..MaxBatches
        BY <1>1 DEF Scenario
    <2>2. scenario.batches <= MaxBatches
        BY <1>2, <2>1
    <2>3. forwarder \in [batch : Nat, step : {"result", "cont", "request", "failed"}]
          /\ forwarder.batch = 1 /\ forwarder.step = "result"
        BY DEF Init
    <2>4. 1 - 1 + scenario.batches <= MaxBatches
        BY <2>1, <2>2, <1>2
    <2>5. ordered \in Seq(Inputs) /\ Len(ordered) <= IngressCap /\ inbox \in Seq(Batch)
        BY <1>2, <1>3 DEF Init
    <2>6. lane \in 0..LaneCap /\ toolEvents \in Nat /\ frames \in Nat
        BY <1>2 DEF Init
    <2> QED
        BY <1>1, <2>3, <2>4, <2>5, <2>6 DEF InputTypes
<1>5. ProviderTypes
    <2>1. Elems(receive) = {}
        BY ElemsSmall DEF Init
    <2> QED
        BY <1>2, <1>3, <2>1 DEF Init, ProviderTypes
<1>6. RunnerTypes
    <2>1. agenda \in Seq(Tasks) /\ IdleLast(agenda)
        BY IdleLoop DEF Init, Loop
    <2>2. /\ st \in State
          /\ st.cont = "none" /\ st.ack = "none" /\ st.r = 0 /\ st.phase = "idle"
          /\ st.ledger = <<>>
        <3> DEFINE s == [phase |-> "idle", r |-> 0, cont |-> "none", echoed |-> FALSE,
             ack |-> "none", ledger |-> <<>>, failures |-> {},
             rejected |-> FALSE, deferred |-> <<>>, held |-> <<>>, speech |-> 0,
             quiet |-> 0, closed |-> FALSE]
        <3>1. s \in State
            BY <1>3 DEF State, Phase, Continuation, Acknowledgement
        <3>2. st = s
            BY DEF Init
        <3> QED
            BY <3>1, <3>2
    <2>3. Steady(st)
        <3>1. Len(origin) = 0
            BY <1>3 DEF Init
        <3> QED
            BY <1>2, <1>3, <2>2, <3>1 DEF Steady, InFlight
    <2> QED
        BY <2>1, <2>3 DEF RunnerTypes, Init
<1>7. HistoryTypes
    BY DEF Init, HistoryTypes
<1> QED
    BY <1>4, <1>5, <1>6, <1>7 DEF TypeInv

LEMMA TypeStep ==
    ASSUME TypeInv, [Next]_vars
    PROVE  TypeInv'
<1>1. CASE UNCHANGED vars
    BY ZenonT(60), <1>1 DEF vars, inputVars, provVars, sendVars, TypeInv, InputTypes, ProviderTypes,
                RunnerTypes, HistoryTypes, Steady, IdleLast
<1>2. CASE Environment
    BY <1>2, AudioTypes, ControlTypes, AckTypes, ForwardTypes DEF Environment
<1>3. CASE Provider
    BY <1>3, ProviderStepTypes
<1>4. CASE Runner
    <2>1. CASE \/ ForwardPendingMessages \/ ForwardPendingInputs \/ ReleaseExpired
               \/ AwaitMessage \/ AwaitInput \/ AwaitCancel \/ AwaitExpiry
        <3>1. agenda # <<>>
            BY <2>1 DEF ForwardPendingMessages, ForwardPendingInputs, ReleaseExpired,
                        AwaitMessage, AwaitInput, AwaitCancel, AwaitExpiry, Doing
        <3> QED
            BY <2>1, <3>1, ReadTypes
    <2>2. CASE ForwardAudio
        BY <2>2, ForwardAudioTypes
    <2>3. CASE FlushHeld
        BY <2>3, FlushTypes
    <2>4. CASE Events \/ Report
        BY <2>4, EventTypes
    <2>5. CASE AwaitRequest \/ AwaitEnd
        BY <2>5, AwaitTypes
    <2> QED
        BY <1>4, <2>1, <2>2, <2>3, <2>4, <2>5 DEF Runner, Await
<1> QED
    BY <1>1, <1>2, <1>3, <1>4 DEF Next

LEMMA TypesHold ==
    Spec => []TypeInv
<1>1. Init => TypeInv
    BY InitTypes
<1>2. TypeInv /\ [Next]_vars => TypeInv'
    BY TypeStep
<1> QED
    BY <1>1, <1>2, PTL DEF Spec

LEMMA TypeInvShows ==
    ASSUME TypeInv
    PROVE  TypeOK
<1>1. Inputs \subseteq Input
    BY DEF Inputs, Input, Tasks, TaskName
<1>2. ordered \in Seq(Input)
    BY <1>1, ElemsType DEF TypeInv, InputTypes
<1>3. /\ Len(ordered) <= IngressCap /\ lane \in 0..LaneCap /\ toolEvents \in Nat
      /\ flag \in {"none", "accepted", "suppressed"}
      /\ Len(origin) <= MaxResponses /\ Len(origin) \in Nat /\ Steady(st)
    BY DEF TypeInv, InputTypes, RunnerTypes, ProviderTypes
<1>4. st \in State
    BY <1>3 DEF Steady
<1>5. /\ st.phase \in Phase /\ st.r \in 0..Len(origin) /\ st.cont \in Continuation
      /\ st.ack \in Acknowledgement /\ Len(st.ledger) <= Retention
    BY <1>3, <1>4 DEF Steady, State
<1> QED
    BY <1>2, <1>3, <1>5 DEF TypeOK, Phase, Continuation, Acknowledgement

(* The runner's queues stay within their capacities, a response is open    *)
(* exactly when the state names one, and what a handler leaves behind for  *)
(* its caller has been looked at: sessionIngress, sessionstate.State and   *)
(* sessionToolContinuation after every step of the four goroutines.        *)
THEOREM TypeCorrect == Spec => []TypeOK
<1>1. TypeInv => TypeOK
    BY TypeInvShows
<1> QED
    BY <1>1, TypesHold, PTL

-----------------------------------------------------------------------------
(* The queue a tool event or a frame goes through: the ingress, the calls  *)
(* of the goroutine, and what is deferred, of which the last is served     *)
(* first.  T is what is followed.                                          *)

LineOf(d, a, o, T) == (Only(d, T) \o Only(a, T)) \o Only(o, T)
Line(T) == LineOf(st.deferred, agenda, ordered, T)

(* The calls and inputs that are neither.                                  *)
Plain == {x \in Tasks : x.t \in {"inputs", "await", "pending", "expired", "flush",
                                 "report", "cancel", "commit", "message"}}

LEMMA PlainTasks ==
    /\ Noise \subseteq Plain /\ IdleTask \subseteq Plain
    /\ ToolTask \cap Plain = {} /\ AudioTask \cap Plain = {}
    /\ \A t \in {"inputs", "await", "pending", "expired", "flush", "report", "cancel",
                 "commit", "message"} : \A n \in Nat : Task(t, n) \in Plain
<1>1. Noise \subseteq Plain /\ IdleTask \subseteq Plain
    BY DEF Noise, Plain, IdleTask
<1>2. ToolTask \cap Plain = {} /\ AudioTask \cap Plain = {}
    BY DEF ToolTask, AudioTask, Plain, ToolEvent, Audio
<1>3. \A t \in {"inputs", "await", "pending", "expired", "flush", "report", "cancel",
                "commit", "message"} : \A n \in Nat : Task(t, n) \in Plain
    BY TaskTypes DEF Plain, TaskName, ToolEvent, Audio
<1> QED
    BY <1>1, <1>2, <1>3

LEMMA Skips ==
    ASSUME NEW T, T \cap Plain = {}, NEW a \in Seq(Tasks), NEW w \in Seq(Tasks),
           Elems(w) \subseteq Plain
    PROVE  Only(w, T) = <<>> /\ Only(w \o a, T) = Only(a, T)
<1>1. Only(w, T) = <<>>
    BY OnlyNone
<1>2. Only(w \o a, T) = Only(w, T) \o Only(a, T)
    BY OnlyConcat
<1>3. Only(a, T) \in Seq(Tasks)
    BY OnlyType
<1>4. <<>> \o Only(a, T) = Only(a, T)
    BY <1>3, ConcatSimplifications
<1> QED
    BY <1>1, <1>2, <1>4

LEMMA SkipsTask ==
    ASSUME NEW T, T \cap Plain = {}, NEW a \in Seq(Tasks), NEW x \in Plain
    PROVE  Only(<<x>> \o a, T) = Only(a, T)
<1>1. x \in Tasks
    BY DEF Plain
<1>2. <<x>> \in Seq(Tasks) /\ Elems(<<x>>) = {x}
    BY <1>1, ElemsSmall, SingletonType
<1> QED
    BY <1>2, Skips

LEMMA KeepsTask ==
    ASSUME NEW T, NEW a \in Seq(Tasks), NEW x \in Tasks
    PROVE  Only(<<x>> \o a, T) = IF x \in T THEN <<x>> \o Only(a, T) ELSE Only(a, T)
<1>1. <<x>> \in Seq(Tasks) /\ Elems(<<x>>) = {x}
    BY ElemsSmall, SingletonType
<1> DEFINE w == <<x>>
<1> HIDE DEF w
<1>2. Only(w \o a, T) = Only(w, T) \o Only(a, T)
    <2>1. w \in Seq(Tasks)
        BY <1>1 DEF w
    <2> QED
        BY <2>1, OnlyConcat
<1>5. Only(a, T) \in Seq(Tasks)
    BY OnlyType
<1>3. CASE x \in T
    <2>1. Only(w, T) = w
        BY <1>1, <1>3, OnlyAll DEF w
    <2> QED
        BY <1>2, <1>3, <2>1 DEF w
<1>4. CASE x \notin T
    <2>1. Only(w, T) = <<>>
        BY <1>1, <1>4, OnlyNone DEF w
    <2>2. <<>> \o Only(a, T) = Only(a, T)
        BY <1>5, ConcatSimplifications
    <2> QED
        BY <1>2, <1>4, <2>1, <2>2 DEF w
<1> QED
    BY <1>3, <1>4

LEMMA LineType ==
    ASSUME NEW T, NEW d \in Seq(Tasks), NEW a \in Seq(Tasks), NEW o \in Seq(Tasks)
    PROVE  /\ LineOf(d, a, o, T) \in Seq(Tasks)
           /\ Only(d, T) \in Seq(Tasks) /\ Only(a, T) \in Seq(Tasks) /\ Only(o, T) \in Seq(Tasks)
           /\ \A x : x \in Elems(LineOf(d, a, o, T)) <=>
                        x \in T /\ (x \in Elems(d) \/ x \in Elems(a) \/ x \in Elems(o))
<1> DEFINE D == Only(d, T)
           A == Only(a, T)
           O == Only(o, T)
<1>1. D \in Seq(Tasks) /\ A \in Seq(Tasks) /\ O \in Seq(Tasks)
    BY OnlyType
<1>2. Elems(D) = Elems(d) \cap T /\ Elems(A) = Elems(a) \cap T /\ Elems(O) = Elems(o) \cap T
    BY OnlyElems
<1>3. LineOf(d, a, o, T) = (D \o A) \o O
    BY DEF LineOf
<1> HIDE DEF D, A, O
<1>4. D \o A \in Seq(Tasks) /\ Elems(D \o A) = Elems(D) \cup Elems(A)
    BY <1>1, ConcatType, ElemsConcat
<1> DEFINE E == D \o A
<1> HIDE DEF E
<1>6. E \in Seq(Tasks) /\ Elems(E) = Elems(D) \cup Elems(A)
    BY <1>4 DEF E
<1>5. E \o O \in Seq(Tasks) /\ Elems(E \o O) = Elems(E) \cup Elems(O)
    BY <1>1, <1>6, ConcatType, ElemsConcat
<1> QED
    BY <1>1, <1>2, <1>3, <1>5, <1>6 DEF D, A, O, E

LEMMA QueueFacts ==
    ASSUME TypeInv
    PROVE  /\ st \in State /\ st.deferred \in Seq(Tasks) /\ st.deferred \in Seq(Deferrable)
           /\ agenda \in Seq(Tasks)
           /\ ordered \in Seq(Tasks) /\ ordered \in Seq(Inputs)
           /\ st.held \in Seq(AudioTask)
           /\ \A T : Line(T) \in Seq(Tasks)
<1>1. st \in State /\ ordered \in Seq(Inputs) /\ agenda \in Seq(Tasks)
    BY DEF TypeInv, InputTypes, RunnerTypes, Steady
<1>2. st.deferred \in Seq(Deferrable) /\ st.held \in Seq(AudioTask)
    BY <1>1 DEF State
<1>3. st.deferred \in Seq(Tasks) /\ ordered \in Seq(Tasks)
    BY <1>1, <1>2, Widen
<1>4. ASSUME NEW T PROVE Line(T) \in Seq(Tasks)
    BY <1>1, <1>3, LineType DEF Line
<1> QED
    BY <1>1, <1>2, <1>3, <1>4
-----------------------------------------------------------------------------
(* An input arrives at the end of the line.                                *)
LEMMA LinePush ==
    ASSUME TypeInv, NEW T, NEW x \in Inputs, Push(x), UNCHANGED <<st, agenda>>
    PROVE  Line(T)' = IF x \in T THEN Append(Line(T), x) ELSE Line(T)
<1> DEFINE D == Only(st.deferred, T)
           A == Only(agenda, T)
           O == Only(ordered, T)
<1>0. x \in Tasks
    BY TaskTypes
<1>1. D \in Seq(Tasks) /\ A \in Seq(Tasks) /\ O \in Seq(Tasks)
    BY QueueFacts, LineType
<1>2. ordered' = Append(ordered, x)
    BY DEF Push
<1>3. Only(ordered', T) = IF x \in T THEN Append(O, x) ELSE O
    BY <1>0, <1>2, QueueFacts, OnlyAppend
<1>4. Line(T) = (D \o A) \o O
    BY DEF Line, LineOf
<1>5. Line(T)' = (D \o A) \o Only(ordered', T)
    BY DEF Line, LineOf
<1> HIDE DEF D, A, O
<1> DEFINE E == D \o A
<1>6. E \in Seq(Tasks)
    BY <1>1, ConcatType
<1> HIDE DEF E
<1>7. E \o Append(O, x) = Append(E \o O, x)
    BY <1>0, <1>1, <1>6, AppendConcat
<1> QED
    BY <1>3, <1>4, <1>5, <1>7 DEF E

(* What the goroutine is about to do is followed or not; what it keeps is  *)
(* the deferred events before and the rest behind.                         *)
Served(T) == Only(st.deferred, T)
Behind(T) == Only(Rest, T) \o Only(ordered, T)

LEMMA LineHead ==
    ASSUME TypeInv, NEW T, agenda # <<>>
    PROVE  /\ Served(T) \in Seq(Tasks) /\ Behind(T) \in Seq(Tasks)
           /\ Line(T) = IF Head(agenda) \in T
                        THEN Served(T) \o (<<Head(agenda)>> \o Behind(T))
                        ELSE Served(T) \o Behind(T)
<1> DEFINE D == Only(st.deferred, T)
           R == Only(Rest, T)
           O == Only(ordered, T)
           h == Head(agenda)
<1>0. Rest \in Seq(Tasks) /\ h \in Tasks /\ agenda = <<h>> \o Rest
    BY RestTypes
<1>1. D \in Seq(Tasks) /\ R \in Seq(Tasks) /\ O \in Seq(Tasks)
    BY <1>0, QueueFacts, LineType
<1>2. Only(agenda, T) = IF h \in T THEN <<h>> \o R ELSE R
    BY ZenonT(60), <1>0, KeepsTask
<1>3. Line(T) = (D \o Only(agenda, T)) \o O
    BY DEF Line, LineOf
<1>4. Served(T) = D /\ Behind(T) = R \o O
    BY DEF Served, Behind
<1> HIDE DEF D, R, O, h
<1>5. R \o O \in Seq(Tasks) /\ <<h>> \in Seq(Tasks)
    BY <1>0, <1>1, ConcatType, SingletonType
<1> DEFINE H == <<h>>
<1> HIDE DEF H
<1>6. H \o R \in Seq(Tasks)
    BY <1>1, <1>5, ConcatType DEF H
<1>7. (D \o (H \o R)) \o O = D \o ((H \o R) \o O) /\ (H \o R) \o O = H \o (R \o O)
    BY SMTT(60), <1>1, <1>5, <1>6, ConcatAssociative DEF H
<1>8. (D \o R) \o O = D \o (R \o O)
    BY <1>1, ConcatAssociative
<1> QED
    BY <1>1, <1>2, <1>3, <1>4, <1>5, <1>7, <1>8 DEF h, H

(* The head is gone, and nothing else.                                     *)
LEMMA LineDrop ==
    ASSUME TypeInv, NEW T, agenda # <<>>, agenda' = Rest, st'.deferred = st.deferred,
           ordered' = ordered
    PROVE  Line(T)' = Served(T) \o Behind(T)
<1> DEFINE D == Only(st.deferred, T)
           R == Only(Rest, T)
           O == Only(ordered, T)
<1>0. Rest \in Seq(Tasks)
    BY RestTypes
<1>1. D \in Seq(Tasks) /\ R \in Seq(Tasks) /\ O \in Seq(Tasks)
    BY <1>0, QueueFacts, LineType
<1>2. Line(T)' = (D \o R) \o O
    BY DEF Line, LineOf
<1> QED
    BY SMTT(60), <1>1, <1>2, ConcatAssociative DEF Served, Behind

(* The head waits with the deferred events, as x.                          *)
LEMMA LineDefer ==
    ASSUME TypeInv, NEW T, agenda # <<>>, agenda' = Rest, NEW x, Defers(x),
           ordered' = ordered
    PROVE  Line(T)' = IF x \in T THEN Served(T) \o (<<x>> \o Behind(T))
                      ELSE Served(T) \o Behind(T)
<1> DEFINE D == Only(st.deferred, T)
           R == Only(Rest, T)
           O == Only(ordered, T)
           X == <<x>>
<1>0. Rest \in Seq(Tasks) /\ x \in Tasks
    BY RestTypes, TaskTypes DEF Defers
<1>1. D \in Seq(Tasks) /\ R \in Seq(Tasks) /\ O \in Seq(Tasks) /\ X \in Seq(Tasks)
    BY <1>0, QueueFacts, LineType, SingletonType
<1>2. Only(Append(st.deferred, x), T) = IF x \in T THEN Append(D, x) ELSE D
    BY <1>0, QueueFacts, OnlyAppend
<1>3. st'.deferred = Append(st.deferred, x)
    BY DEF Defers
<1>4. Line(T)' = (Only(st'.deferred, T) \o R) \o O
    BY DEF Line, LineOf
<1>5. Served(T) = D /\ Behind(T) = R \o O
    BY DEF Served, Behind
<1>6. Append(D, x) = D \o X
    BY <1>0, <1>1, AppendIsConcat
<1> HIDE DEF D, R, O, X
<1>7. D \o X \in Seq(Tasks) /\ R \o O \in Seq(Tasks)
    BY <1>1, ConcatType
<1> DEFINE Y == D \o X
           Z == R \o O
<1> HIDE DEF Y, Z
<1>8. /\ (Y \o R) \o O = Y \o (R \o O)
      /\ (D \o X) \o Z = D \o (X \o Z)
      /\ (D \o R) \o O = D \o (R \o O)
    <2>1. Y \in Seq(Tasks) /\ Z \in Seq(Tasks)
        BY <1>7 DEF Y, Z
    <2>2. (Y \o R) \o O = Y \o (R \o O)
        BY <1>1, <2>1, ConcatAssociative, SMTT(60)
    <2>3. (D \o X) \o Z = D \o (X \o Z)
        BY <1>1, <2>1, ConcatAssociative, SMTT(60)
    <2>4. (D \o R) \o O = D \o (R \o O)
        BY <1>1, ConcatAssociative, SMTT(60)
    <2> QED
        BY <2>2, <2>3, <2>4
<1> QED
    BY <1>2, <1>3, <1>4, <1>5, <1>6, <1>8 DEF X, Y, Z

(* What a message releases goes before the next calls: a deferred event    *)
(* stays where it is in the line.                                          *)
LEMMA LineObserve ==
    ASSUME TypeInv, NEW T, T \cap Plain = {}, NEW next \in Seq(Tasks),
           Only(next, T) = Only(agenda, T), receive # <<>>, ObserveMessage(next)
    PROVE  Line(T)' = Line(T)
<1> DEFINE m == Head(receive)
           r1 == Released1(st, m)
           r2 == Released2(st, m)
           r3 == Released3(st, m)
           D == Only(st.deferred, T)
           A == Only(agenda, T)
           O == Only(ordered, T)
<1>0. st \in State /\ st.ack # "ended" /\ st.cont # "ended" /\ receive \in Seq(Message)
    BY DEF TypeInv, RunnerTypes, Steady, ProviderTypes
<1>1. /\ st'.deferred = IF Replayed(st, m) THEN <<>> ELSE st.deferred
      /\ agenda' = ((r1 \o r2) \o r3) \o next
      /\ ordered' = ordered
    BY <1>0, Observed DEF inputVars
<1>2. /\ r1 \in Seq(Tasks) /\ r3 \in Seq(Tasks) /\ r1 \in Seq(Noise) /\ r3 \in Seq(Noise)
      /\ r2 \in Seq(Tasks)
    BY <1>0, ReleasedTypes
<1>3. r2 = IF Replayed(st, m) THEN st.deferred ELSE <<>>
    BY DEF Released2
<1>4. D \in Seq(Tasks) /\ A \in Seq(Tasks) /\ O \in Seq(Tasks) /\ st.deferred \in Seq(Tasks)
    BY QueueFacts, LineType
<1>5. Only(agenda', T) = Only(r2, T) \o A
    <2> HIDE DEF r1, r2, r3
    <2>1. Elems(r1) \subseteq Plain /\ Elems(r3) \subseteq Plain
        BY <1>2, PlainTasks, ElemsType
    <2> DEFINE q == r1 \o r2
    <2>2. q \in Seq(Tasks)
        BY <1>2, ConcatType
    <2>3. Only(q, T) = Only(r2, T)
        BY <1>2, <2>1, Skips
    <2> HIDE DEF q
    <2> DEFINE p == q \o r3
    <2>4. Only(r3, T) = <<>>
        BY <1>2, <2>1, Skips
    <2>5. Only(p, T) = Only(q, T) \o Only(r3, T)
        <3>1. r3 \in Seq(Tasks)
            BY <1>2
        <3> QED
            BY <2>2, <3>1, OnlyConcat
    <2>6. Only(r2, T) \in Seq(Tasks)
        BY <1>2, OnlyType
    <2>7. p \in Seq(Tasks)
        BY <1>2, <2>2, ConcatType
    <2> HIDE DEF p
    <2>8. Only(p \o next, T) = Only(p, T) \o Only(next, T)
        BY <2>7, OnlyConcat
    <2>9. Only(p, T) = Only(r2, T)
        BY <2>3, <2>4, <2>5, <2>6, ConcatSimplifications
    <2> QED
        BY <1>1, <2>8, <2>9 DEF p, q
<1>6. Line(T) = (D \o A) \o O
    BY DEF Line, LineOf
<1>7. Line(T)' = (Only(st'.deferred, T) \o Only(agenda', T)) \o O
    BY <1>1 DEF Line, LineOf
<1>8. CASE Replayed(st, m)
    <2>1. r2 = st.deferred /\ st'.deferred = <<>>
        BY <1>1, <1>3, <1>8
    <2>2. Only(st'.deferred, T) = <<>> /\ Only(agenda', T) = D \o A
        BY <1>5, <2>1, OnlyEmpty
    <2> HIDE DEF D, A, O
    <2>3. D \o A \in Seq(Tasks)
        BY <1>4, ConcatType
    <2>4. <<>> \o (D \o A) = D \o A
        BY <2>3, ConcatSimplifications
    <2> QED
        BY <1>6, <1>7, <2>2, <2>4
<1>9. CASE ~Replayed(st, m)
    <2>1. r2 = <<>> /\ st'.deferred = st.deferred
        BY <1>1, <1>3, <1>9
    <2>2. Only(st'.deferred, T) = D /\ Only(agenda', T) = <<>> \o A
        BY <1>5, <2>1, OnlyEmpty
    <2> HIDE DEF D, A, O
    <2>3. <<>> \o A = A
        BY <1>4, ConcatSimplifications
    <2> QED
        BY <1>6, <1>7, <2>2, <2>3
<1> QED
    BY <1>8, <1>9

(* The calls that read messages, cancels, inputs or the timer: nothing     *)
(* that is followed moves.                                                 *)
Reads == \/ ForwardPendingMessages \/ ForwardPendingInputs \/ ReleaseExpired
         \/ AwaitMessage \/ AwaitInput \/ AwaitCancel \/ AwaitExpiry

(* The stack's followed tasks stay, or an input comes on an idle stack.    *)
LEMMA LineStack ==
    ASSUME TypeInv, NEW T, UNCHANGED <<st, ordered>>, Only(agenda', T) = Only(agenda, T)
    PROVE  Line(T)' = Line(T)
BY DEF Line, LineOf

LEMMA LineTake ==
    ASSUME TypeInv, NEW T, T \cap Plain = {}, NEW next \in Seq(Tasks), IdleLast(next),
           Elems(next) \subseteq IdleTask, Elems(agenda) \subseteq IdleTask,
           ordered # <<>>, TakeInput(next)
    PROVE  Line(T)' = Line(T)
<1> DEFINE x == Head(ordered)
           D == Only(st.deferred, T)
           O == Only(Tail(ordered), T)
           X == <<x>>
           P == <<Task("pending", 0)>>
<1>1. /\ x \in Inputs /\ ordered' = Tail(ordered) /\ Tail(ordered) \in Seq(Inputs)
      /\ agenda' \in {X \o next, P \o (X \o next)}
    BY TakeInputFields
<1>2. st' = st
    BY DEF TakeInput
<1>3. Tail(ordered) \in Seq(Tasks) /\ x \in Tasks /\ ordered = X \o Tail(ordered)
    BY <1>1, QueueFacts, TaskTypes, Widen, PassHead
<1>4. D \in Seq(Tasks) /\ O \in Seq(Tasks)
    BY <1>3, QueueFacts, LineType
<1>5. Only(agenda, T) = <<>> /\ Only(next, T) = <<>>
    BY QueueFacts, PlainTasks, OnlyNone
<1>6. Only(ordered, T) = IF x \in T THEN X \o O ELSE O
    <2>1. Tail(ordered) \in Seq(Tasks) /\ x \in Tasks
        BY <1>3
    <2>2. Only(X \o Tail(ordered), T) = IF x \in T THEN X \o O ELSE O
        BY <2>1, KeepsTask
    <2> QED
        BY <1>3, <2>2
<1>7. Only(X \o next, T) = IF x \in T THEN X \o <<>> ELSE <<>>
    BY <1>3, <1>5, KeepsTask
<1>8. Only(P \o (X \o next), T) = Only(X \o next, T)
    <2> DEFINE q == X \o next
    <2>1. X \in Seq(Tasks)
        BY <1>3, SingletonType
    <2> HIDE DEF X
    <2>2. q \in Seq(Tasks)
        BY <2>1, ConcatType
    <2> HIDE DEF q
    <2>3. Only(P \o q, T) = Only(q, T)
        BY <2>2, PlainTasks, SkipsTask
    <2> QED
        BY <2>3 DEF q
<1>9. Line(T) = (D \o <<>>) \o Only(ordered, T)
    BY <1>5 DEF Line, LineOf
<1>10. Line(T)' = (D \o Only(agenda', T)) \o O
    BY <1>1, <1>2 DEF Line, LineOf
<1>11. X \in Seq(Tasks)
    BY <1>3, SingletonType
<1> HIDE DEF D, O, X, P
<1>12. Only(agenda', T) = IF x \in T THEN X \o <<>> ELSE <<>>
    BY <1>1, <1>7, <1>8
<1>13. D \o <<>> = D /\ X \o <<>> = X
    BY <1>4, <1>11, ConcatSimplifications
<1>14. (D \o X) \o O = D \o (X \o O)
    BY SMTT(60), <1>4, <1>11, ConcatAssociative
<1> QED
    BY <1>6, <1>9, <1>10, <1>12, <1>13, <1>14

(* Two plain calls before the others.                                      *)
LEMMA SkipsTwo ==
    ASSUME NEW T, T \cap Plain = {}, NEW x \in Plain, NEW y \in Plain,
           NEW a \in Seq(Tasks)
    PROVE  Only(<<x, y>> \o a, T) = Only(a, T)
<1>1. x \in Tasks /\ y \in Tasks
    BY DEF Plain
<1>2. <<x, y>> \in Seq(Tasks) /\ Elems(<<x, y>>) \subseteq Plain
    BY <1>1 DEF Elems
<1> DEFINE w == <<x, y>>
<1> HIDE DEF w
<1>3. w \in Seq(Tasks) /\ Elems(w) \subseteq Plain
    BY <1>2 DEF w
<1>4. Only(w \o a, T) = Only(a, T)
    BY <1>3, Skips
<1> QED
    BY <1>4 DEF w

LEMMA LineReads ==
    ASSUME TypeInv, NEW T, T \cap Plain = {}, Reads
    PROVE  Line(T)' = Line(T)
<1>0. /\ agenda # <<>> /\ agenda \in Seq(Tasks) /\ IdleLast(agenda)
      /\ Rest \in Seq(Tasks) /\ agenda = <<Head(agenda)>> \o Rest /\ Head(agenda) \in Tasks
      /\ Head(agenda) \in IdleTask => Elems(agenda) \subseteq IdleTask
    <2>1. agenda # <<>>
        BY DEF Reads, ForwardPendingMessages, ForwardPendingInputs, ReleaseExpired,
               AwaitMessage, AwaitInput, AwaitCancel, AwaitExpiry, Doing
    <2> QED
        BY <2>1, RestTypes, HandlerFacts
<1>1. Head(agenda) \in Plain => Only(Rest, T) = Only(agenda, T)
    BY <1>0, SkipsTask
<1>2. /\ Head(agenda).t \in {"pending", "inputs", "expired", "await"} => Head(agenda) \in Plain
      /\ Head(agenda).t \in {"inputs", "expired", "await"} => Head(agenda) \in IdleTask
    BY <1>0 DEF Plain, IdleTask
<1>3. Loop \in Seq(Tasks) /\ IdleLast(Loop) /\ Elems(Loop) \subseteq IdleTask
    BY IdleLoop
<1>4. Only(Loop, T) = <<>>
    BY <1>3, PlainTasks, OnlyNone
<1>5. Head(agenda).t \in {"inputs", "expired", "await"} => Only(agenda, T) = <<>>
    BY <1>0, <1>2, PlainTasks, OnlyNone
<1>6. CASE Head(agenda).t \in {"pending", "inputs"} /\ Return
    BY <1>1, <1>2, <1>6, LineStack DEF Return, inputVars
<1>7. CASE ForwardPendingMessages
    <2>1. Head(agenda).t = "pending"
        BY <1>7 DEF ForwardPendingMessages, Doing
    <2>2. Return \/ (receive # <<>> /\ ObserveMessage(agenda))
        BY <1>7 DEF ForwardPendingMessages
    <2> QED
        BY <1>0, <1>6, <2>1, <2>2, LineObserve
<1>8. CASE ForwardPendingInputs
    <2>1. Head(agenda).t = "inputs"
        BY <1>8 DEF ForwardPendingInputs, Doing
    <2>2. \/ receive # <<>> /\ ObserveMessage(agenda)
          \/ TakeCancel(agenda)
          \/ ordered # <<>> /\ TakeInput(agenda)
          \/ Return
        BY <1>8 DEF ForwardPendingInputs
    <2>3. CASE TakeCancel(agenda)
        <3>1. agenda' = <<Task("cancel", 0)>> \o agenda /\ st' = st /\ ordered' = ordered
            BY <2>3 DEF TakeCancel
        <3>2. Only(agenda', T) = Only(agenda, T)
            BY <1>0, <3>1, PlainTasks, SkipsTask
        <3> QED
            BY <3>1, <3>2, LineStack
    <2>4. CASE ordered # <<>> /\ TakeInput(agenda)
        BY <1>0, <1>2, <2>1, <2>4, LineTake
    <2> QED
        BY <1>0, <1>6, <2>1, <2>2, <2>3, <2>4, LineObserve
<1>9. CASE ReleaseExpired
    <2>1. /\ Head(agenda).t = "expired" /\ st' = st /\ ordered' = ordered
          /\ agenda' \in {<<Task("flush", 0)>> \o Rest, Rest}
        BY <1>9 DEF ReleaseExpired, Doing, inputVars
    <2>2. Only(<<Task("flush", 0)>> \o Rest, T) = Only(Rest, T)
        BY <1>0, PlainTasks, SkipsTask
    <2> QED
        BY <1>1, <1>2, <2>1, <2>2, LineStack
<1>10. CASE AwaitMessage
    BY <1>3, <1>4, <1>5, <1>10, LineObserve DEF AwaitMessage, Doing
<1>11. CASE AwaitInput
    BY <1>0, <1>2, <1>3, <1>11, LineTake DEF AwaitInput, Doing
<1>12. CASE AwaitCancel
    <2>1. /\ agenda' = <<Task("pending", 0), Task("cancel", 0)>> \o Loop
          /\ st' = st /\ ordered' = ordered /\ Head(agenda).t = "await"
        BY <1>12 DEF AwaitCancel, Doing
    <2>2. Task("pending", 0) \in Plain /\ Task("cancel", 0) \in Plain
        BY PlainTasks
    <2>3. Only(agenda', T) = Only(Loop, T)
        BY <1>3, <2>1, <2>2, SkipsTwo
    <2> QED
        BY <1>4, <1>5, <2>1, <2>3, LineStack
<1>13. CASE AwaitExpiry
    <2>1. st.held # <<>> /\ st.held[1].n \in Nat
        <3>1. st.held # <<>> /\ st.held[1] \in AudioTask
            BY <1>13, HandlerFacts, TailType DEF AwaitExpiry
        <3> QED
            BY <3>1 DEF AudioTask
    <2> DEFINE h == st.held[1].n
    <2>2. /\ agenda' = <<Task("inputs", 0), Task("expired", h)>> \o Loop
          /\ st' = st /\ ordered' = ordered /\ Head(agenda).t = "await"
        BY <1>13 DEF AwaitExpiry, Doing, inputVars
    <2>3. h \in Nat
        BY <2>1
    <2> HIDE DEF h
    <2>4. Task("inputs", 0) \in Plain /\ Task("expired", h) \in Plain
        BY <2>3, PlainTasks
    <2>5. Only(agenda', T) = Only(Loop, T)
        BY <1>3, <2>2, <2>4, SkipsTwo
    <2> QED
        BY <1>4, <1>5, <2>2, <2>5, LineStack
<1> QED
    BY <1>7, <1>8, <1>9, <1>10, <1>11, <1>12, <1>13 DEF Reads

(* Steps that let every tool event wait where it is.                       *)
MayReport ==
    \/ st'.failures = st.failures /\ reported' = reported
    \/ st'.failures = {} /\ reported' = reported \cup st.failures

Idles(T) ==
    /\ Line(T)' = Line(T) /\ st'.rejected = st.rejected /\ MayReport
    /\ UNCHANGED <<toolEvents, forwarder, inbox, asked, undelivered, over>>

KeepsFrames ==
    /\ UNCHANGED <<frames, lastFrame>> /\ st'.held = st.held
    /\ scenario.refused \subseteq scenario'.refused

IdleStep == \/ SendControl \/ Provider \/ Reads \/ ForwardCancel \/ ForwardCommit
            \/ ForwardMessage \/ Report \/ UNCHANGED vars

(* A plain call is over.                                                   *)
LEMMA LinePlain ==
    ASSUME TypeInv, NEW T, T \cap Plain = {}, agenda # <<>>, Head(agenda) \in Plain,
           ordered' = ordered, st'.deferred = st.deferred,
           agenda' = Rest \/ \E x \in Plain : agenda' = <<x>> \o Rest
    PROVE  Line(T)' = Line(T)
<1>1. Rest \in Seq(Tasks) /\ agenda = <<Head(agenda)>> \o Rest
    BY RestTypes
<1>2. Only(agenda, T) = Only(Rest, T)
    BY <1>1, SkipsTask
<1>3. Only(agenda', T) = Only(Rest, T)
    BY <1>1, SkipsTask
<1> QED
    BY <1>2, <1>3 DEF Line, LineOf

LEMMA ControlIdles ==
    ASSUME TypeInv, NEW T, T \cap Plain = {}, SendControl
    PROVE  Idles(T) /\ KeepsFrames
<1>1. PICK t \in {"commit", "cancel", "message"} :
         IF t = "cancel" /\ Controls = {} /\ lane < LaneCap
         THEN ~over /\ lane' = lane + 1 /\ UNCHANGED <<ordered, toolEvents>>
         ELSE Push(Task(t, 0)) /\ UNCHANGED lane
    BY DEF SendControl
<1>2. /\ UNCHANGED <<inbox, forwarder, frames, agenda, st, over, asked, undelivered, reported,
                     lastFrame>>
      /\ scenario'.refused = scenario.refused
    <2>1. Spend("controls")
        BY DEF SendControl
    <2>2. scenario' = [scenario EXCEPT !["controls"] = @ - 1]
        BY <2>1 DEF Spend
    <2>3. scenario \in Scenario
        BY HandlerFacts
    <2> QED
        BY <2>2, <2>3 DEF SendControl, Scenario, provVars, sendVars
<1>3. Line(T)' = Line(T) /\ toolEvents' = toolEvents
    <2>1. CASE Push(Task(t, 0))
        <3>1. Task(t, 0) \in Inputs /\ Task(t, 0) \in Plain
            BY InputNames, PlainTasks
        <3>2. Line(T)' = Line(T)
            BY <1>2, <2>1, <3>1, LinePush
        <3>3. Task(t, 0).t \notin ToolEvent
            BY TaskTypes DEF ToolEvent
        <3> QED
            BY <2>1, <3>2, <3>3 DEF Push
    <2>2. CASE UNCHANGED <<ordered, toolEvents>>
        BY <1>2, <2>2, LineStack
    <2> QED
        BY <1>1, <2>1, <2>2
<1> QED
    BY <1>2, <1>3 DEF Idles, KeepsFrames, MayReport

(* What the reads and the observed message leave alone.                    *)
LEMMA ReadsKeep ==
    ASSUME TypeInv, Reads
    PROVE  /\ UNCHANGED <<scenario, toolEvents, forwarder, inbox, frames, over, sendVars,
                          wire, prov, origin>>
           /\ st'.rejected = st.rejected /\ st'.held = st.held /\ MayReport
<1>1. ASSUME NEW next \in Seq(Tasks), receive # <<>>, ObserveMessage(next)
      PROVE  /\ UNCHANGED <<scenario, toolEvents, forwarder, inbox, frames, over, sendVars,
                            wire, prov, origin>>
             /\ st'.rejected = st.rejected /\ st'.held = st.held /\ MayReport
    <2>1. st \in State /\ st.ack # "ended" /\ st.cont # "ended" /\ receive \in Seq(Message)
        BY DEF TypeInv, RunnerTypes, Steady, ProviderTypes
    <2> DEFINE m == Head(receive)
    <2>2. /\ UNCHANGED <<scenario, inputVars, wire, prov, origin, over, sendVars>>
          /\ st'.rejected = st.rejected /\ st'.held = st.held
          /\ st'.failures = IF m.t = "close" THEN {} ELSE st.failures
          /\ reported' = IF m.t = "close" THEN reported \cup st.failures ELSE reported
        BY <1>1, <2>1, Observed
    <2> QED
        BY <2>2 DEF inputVars, MayReport
<1>2. ASSUME \/ Return \/ TakeCancel(agenda) \/ TakeInput(agenda) \/ TakeInput(Loop)
             \/ ReleaseExpired \/ AwaitCancel \/ AwaitExpiry
      PROVE  /\ UNCHANGED <<scenario, toolEvents, forwarder, inbox, frames, over, sendVars,
                            wire, prov, origin>>
             /\ st'.rejected = st.rejected /\ st'.held = st.held /\ MayReport
    BY <1>2 DEF Return, TakeCancel, TakeInput, ReleaseExpired, AwaitCancel, AwaitExpiry,
                inputVars, provVars, MayReport
<1>3. \/ receive # <<>> /\ (ObserveMessage(agenda) \/ ObserveMessage(Loop))
      \/ Return \/ TakeCancel(agenda) \/ TakeInput(agenda) \/ TakeInput(Loop)
      \/ ReleaseExpired \/ AwaitCancel \/ AwaitExpiry
    <2>1. ForwardPendingInputs =>
            \/ receive # <<>> /\ ObserveMessage(agenda)
            \/ TakeCancel(agenda) \/ TakeInput(agenda) \/ Return
        BY DEF ForwardPendingInputs
    <2> QED
        BY <2>1 DEF Reads, ForwardPendingMessages, AwaitMessage, AwaitInput
<1> QED
    BY <1>1, <1>2, <1>3, HandlerFacts, IdleLoop

LEMMA IdleSteps ==
    ASSUME TypeInv, NEW T, T \cap Plain = {}, IdleStep
    PROVE  Idles(T) /\ KeepsFrames
<1>1. CASE SendControl
    BY <1>1, ControlIdles
<1>2. CASE Provider
    <2>1. ProvidersOnly /\ scenario'.refused = scenario.refused
        BY <1>2, ProviderCases
    <2>2. Line(T)' = Line(T)
        BY <2>1, LineStack DEF ProvidersOnly, inputVars
    <2> QED
        BY <2>1, <2>2 DEF ProvidersOnly, Idles, KeepsFrames, MayReport, inputVars, sendVars
<1>3. CASE Reads
    <2>1. Line(T)' = Line(T)
        BY <1>3, LineReads
    <2> QED
        BY <1>3, <2>1, ReadsKeep DEF Idles, KeepsFrames, sendVars
<1>4. CASE ForwardCancel
    <2>1. /\ agenda # <<>> /\ Head(agenda).t = "cancel"
          /\ agenda' \in {Rest, <<Task("flush", 0)>> \o Rest}
          /\ KeepsQueues /\ scenario.refused \subseteq scenario'.refused
          /\ UNCHANGED <<inputVars, over, lastFrame, asked, undelivered, reported>>
        BY <1>4, CancelStep
    <2>2. Head(agenda) \in Plain
        BY <2>1, RestTypes DEF Plain
    <2>3. Line(T)' = Line(T)
        BY <2>1, <2>2, PlainTasks, LinePlain DEF KeepsQueues, inputVars
    <2> QED
        BY <2>1, <2>3 DEF Idles, KeepsFrames, KeepsQueues, MayReport, inputVars
<1>5. CASE ForwardCommit
    <2>1. /\ agenda # <<>> /\ Head(agenda).t = "commit" /\ agenda' = Rest
          /\ Defers(Head(agenda)) \/ UNCHANGED st
          /\ UNCHANGED <<scenario, inputVars, over, sendVars, reported>>
        BY <1>5, CommitStep
    <2>2. Head(agenda) \in Plain
        BY <2>1, RestTypes DEF Plain
    <2>3. Line(T)' = Line(T)
        <3>1. CASE Defers(Head(agenda))
            BY <2>1, <2>2, <3>1, LineDefer, LineHead DEF inputVars
        <3>2. CASE UNCHANGED st
            BY <2>1, <2>2, <3>2, LinePlain DEF inputVars
        <3> QED
            BY <2>1, <3>1, <3>2
    <2> QED
        BY <2>1, <2>3 DEF Idles, KeepsFrames, Defers, MayReport, inputVars, sendVars
<1>6. CASE ForwardMessage
    <2>1. /\ agenda # <<>> /\ Head(agenda).t = "message" /\ agenda' = Rest
          /\ UNCHANGED <<scenario, inputVars, st, over, sendVars, reported>>
        BY <1>6, MessageStep
    <2>2. Head(agenda) \in Plain
        BY <2>1, RestTypes DEF Plain
    <2>3. Line(T)' = Line(T)
        BY <2>1, <2>2, LinePlain DEF inputVars
    <2> QED
        BY <2>1, <2>3 DEF Idles, KeepsFrames, MayReport, inputVars, sendVars
<1>7. CASE Report
    <2>1. /\ agenda # <<>> /\ Head(agenda).t = "report" /\ agenda' = Rest
          /\ Reports /\ st'.rejected = st.rejected
          /\ UNCHANGED <<scenario, inputVars, over, sendVars>>
        BY <1>7, ReportStep
    <2>2. Head(agenda) \in Plain
        BY <2>1, RestTypes DEF Plain
    <2>3. Line(T)' = Line(T)
        BY <2>1, <2>2, LinePlain DEF inputVars, Reports
    <2> QED
        BY <2>1, <2>3 DEF Idles, KeepsFrames, Reports, MayReport, inputVars, sendVars
<1>8. CASE UNCHANGED vars
    <2>1. Line(T)' = Line(T)
        BY <1>8, LineStack DEF vars, inputVars
    <2> QED
        BY <1>8, <2>1 DEF Idles, KeepsFrames, MayReport, vars, inputVars, sendVars
<1> QED
    BY <1>1, <1>2, <1>3, <1>4, <1>5, <1>6, <1>7, <1>8 DEF IdleStep

(* Held frames go, or a control waits until they went.                     *)
LEMMA FlushIdles ==
    ASSUME TypeInv, NEW T, T \cap Plain = {}, FlushHeld
    PROVE  Idles(T)
<1>1. /\ agenda # <<>>
      /\ \/ Head(agenda).t = "flush" /\ agenda' = Rest
         \/ agenda' = agenda
      /\ st'.deferred = st.deferred /\ st'.rejected = st.rejected
      /\ st'.failures = st.failures
      /\ UNCHANGED <<inputVars, over, asked, undelivered, reported>>
    BY FlushStep
<1>2. Line(T)' = Line(T)
    <2>1. CASE agenda' = agenda
        BY <1>1, <2>1 DEF Line, LineOf, inputVars
    <2>2. CASE Head(agenda).t = "flush" /\ agenda' = Rest
        <3>1. Head(agenda) \in Plain
            BY <1>1, <2>2, RestTypes DEF Plain
        <3> QED
            BY <1>1, <2>2, <3>1, LinePlain DEF inputVars
    <2> QED
        BY <1>1, <2>1, <2>2
<1> QED
    BY <1>1, <1>2 DEF Idles, MayReport, inputVars

(* The session is over: what the stack held is dropped.                    *)
LEMMA LineEnds ==
    ASSUME TypeInv, NEW T, agenda' = <<>>, st'.deferred = st.deferred, ordered' = ordered
    PROVE  Line(T)' \in Seq(Tasks) /\ Elems(Line(T)') \subseteq Elems(Line(T))
<1> DEFINE l == LineOf(st.deferred, <<>>, ordered, T)
           none == <<>>
           d == st.deferred
<1>1. Line(T)' = l
    BY DEF Line
<1>2. none \in Seq(Tasks) /\ d \in Seq(Tasks) /\ agenda \in Seq(Tasks) /\ ordered \in Seq(Tasks)
    BY QueueFacts
<1>3. Elems(none) = {}
    BY ElemsSmall
<1>4. l = LineOf(d, none, ordered, T) /\ Line(T) = LineOf(d, agenda, ordered, T)
    BY DEF Line
<1> HIDE DEF l, none, d
<1>5. /\ l \in Seq(Tasks)
      /\ \A x : x \in Elems(l) <=> x \in T /\ (x \in Elems(d) \/ x \in Elems(none) \/ x \in Elems(ordered))
    BY <1>2, <1>4, LineType
<1>6. \A x : x \in Elems(Line(T)) <=>
             x \in T /\ (x \in Elems(d) \/ x \in Elems(agenda) \/ x \in Elems(ordered))
    BY ZenonT(60), <1>2, <1>4, LineType
<1>7. Elems(l) \subseteq Elems(Line(T))
    BY <1>3, <1>5, <1>6
<1> QED
    BY <1>1, <1>5, <1>7

LEMMA Regroup ==
    ASSUME NEW d \in Seq(Tasks), NEW r \in Seq(Tasks), NEW o \in Seq(Tasks), NEW x \in Tasks
    PROVE  /\ (d \o r) \o o = d \o (r \o o)
           /\ (d \o (<<x>> \o r)) \o o = d \o (<<x>> \o (r \o o))
<1> DEFINE X == <<x>>
           Y == X \o r
<1>1. X \in Seq(Tasks)
    BY SingletonType
<1> HIDE DEF X
<1>2. Y \in Seq(Tasks)
    BY <1>1, ConcatType
<1>5. (X \o r) \o o = X \o (r \o o)
    BY <1>1, ConcatAssociative, SMTT(60)
<1> HIDE DEF Y
<1>3. (d \o Y) \o o = d \o (Y \o o)
    BY <1>2, ConcatAssociative, SMTT(60)
<1>4. (d \o r) \o o = d \o (r \o o)
    BY ConcatAssociative, SMTT(60)
<1> QED
    BY <1>3, <1>4, <1>5 DEF X, Y

(* A continuation has drained Receive first: it becomes a request.         *)
Syncs(b) ==
    /\ agenda' = <<Task("pending", 0), Task("request", b)>> \o Rest
    /\ UNCHANGED <<st, ordered>>

LEMMA LineSync ==
    ASSUME TypeInv, NEW T, T \cap Plain = {}, agenda # <<>>, NEW b \in Batch, Syncs(b)
    PROVE  Line(T)' = IF Task("request", b) \in T
                      THEN Served(T) \o (<<Task("request", b)>> \o Behind(T))
                      ELSE Served(T) \o Behind(T)
<1> DEFINE D == Only(st.deferred, T)
           R == Only(Rest, T)
           O == Only(ordered, T)
           x == Task("request", b)
<1>0. Rest \in Seq(Tasks) /\ IdleLast(Rest) /\ x \in Tasks \ IdleTask
      /\ Task("pending", 0) \in Tasks \ IdleTask
    BY RestTypes, BusyTasks
<1>1. D \in Seq(Tasks) /\ R \in Seq(Tasks) /\ O \in Seq(Tasks)
    BY <1>0, QueueFacts, LineType
<1>2. agenda' = <<Task("pending", 0)>> \o (<<x>> \o Rest)
    BY <1>0, PushTasks DEF Syncs
<1>3. Only(<<x>> \o Rest, T) = IF x \in T THEN <<x>> \o R ELSE R
    BY <1>0, KeepsTask
<1>4. <<x>> \o Rest \in Seq(Tasks)
    BY <1>0, PushTask
<1>5. Only(agenda', T) = Only(<<x>> \o Rest, T)
    <2> DEFINE q == <<x>> \o Rest
    <2> HIDE DEF q
    <2>1. q \in Seq(Tasks)
        BY <1>4 DEF q
    <2>2. Only(<<Task("pending", 0)>> \o q, T) = Only(q, T)
        BY <2>1, PlainTasks, SkipsTask
    <2> QED
        BY <1>2, <2>2 DEF q
<1>6. Line(T)' = (D \o Only(agenda', T)) \o O
    BY DEF Line, LineOf, Syncs
<1>7. Served(T) = D /\ Behind(T) = R \o O
    BY DEF Served, Behind
<1>8. x \in Tasks
    BY <1>0
<1> HIDE DEF D, R, O, x
<1>9. /\ (D \o R) \o O = D \o (R \o O)
      /\ (D \o (<<x>> \o R)) \o O = D \o (<<x>> \o (R \o O))
    BY <1>1, <1>8, Regroup, SMTT(30)
<1> QED
    BY <1>3, <1>5, <1>6, <1>7, <1>9 DEF x

(* An idle runner takes a coordinator's request.                           *)
LEMMA LineAwait ==
    ASSUME TypeInv, NEW T, T \cap Plain = {}, agenda # <<>>, Head(agenda).t = "await",
           agenda' = Loop, UNCHANGED <<st, ordered>>
    PROVE  Line(T)' = Line(T) /\ Only(agenda, T) = <<>>
<1>1. Head(agenda) \in IdleTask
    BY RestTypes DEF IdleTask
<1>2. Elems(agenda) \subseteq IdleTask
    BY <1>1, RestTypes
<1>3. Only(agenda, T) = <<>> /\ Only(Loop, T) = <<>>
    BY <1>2, QueueFacts, IdleLoop, PlainTasks, OnlyNone
<1> QED
    BY <1>3, LineStack

LEMMA SplitLen ==
    ASSUME NEW s \in Seq(Tasks), NEW t \in Seq(Tasks), NEW x \in Tasks
    PROVE  /\ s \o t \in Seq(Tasks) /\ s \o (<<x>> \o t) \in Seq(Tasks)
           /\ Len(s \o t) \in Nat /\ Len(s \o (<<x>> \o t)) = Len(s \o t) + 1
           /\ Elems(s \o t) = Elems(s) \cup Elems(t)
           /\ Elems(s \o (<<x>> \o t)) = {x} \cup Elems(s \o t)
<1> DEFINE X == <<x>>
           q == X \o t
<1>1. X \in Seq(Tasks) /\ Len(X) = 1 /\ Elems(X) = {x}
    BY SingletonType, ElemsSmall
<1> HIDE DEF X
<1>2. q \in Seq(Tasks) /\ Len(q) = 1 + Len(t) /\ Elems(q) = Elems(X) \cup Elems(t)
    <2>1. q \in Seq(Tasks) /\ Len(q) = Len(X) + Len(t)
        BY <1>1, ConcatType
    <2>3. Len(q) = 1 + Len(t)
        BY <1>1, <2>1
    <2>2. Elems(q) = Elems(X) \cup Elems(t)
        BY <1>1, ElemsConcat
    <2> QED
        BY <2>1, <2>2, <2>3
<1> HIDE DEF q
<1>3. s \o q \in Seq(Tasks) /\ Len(s \o q) = Len(s) + Len(q)
      /\ Elems(s \o q) = Elems(s) \cup Elems(q)
    <2>1. s \o q \in Seq(Tasks) /\ Len(s \o q) = Len(s) + Len(q)
        BY <1>2, ConcatType
    <2>2. Elems(s \o q) = Elems(s) \cup Elems(q)
        BY <1>2, ElemsConcat
    <2> QED
        BY <2>1, <2>2
<1>4. s \o t \in Seq(Tasks) /\ Len(s \o t) = Len(s) + Len(t)
      /\ Elems(s \o t) = Elems(s) \cup Elems(t)
    BY ConcatType, ElemsConcat
<1>5. Len(s) \in Nat /\ Len(t) \in Nat
    OBVIOUS
<1>6. Len(s \o q) = Len(s \o t) + 1
    BY <1>2, <1>3, <1>4, <1>5
<1>7. Elems(s \o q) = {x} \cup Elems(s \o t)
    BY <1>1, <1>2, <1>3, <1>4
<1>8. Len(s \o t) \in Nat
    BY <1>4, <1>5
<1> QED
    BY <1>3, <1>4, <1>6, <1>7, <1>8 DEF q, X

LEMMA ToolTasks ==
    /\ \A x \in Tasks : x \in ToolTask <=> x.t \in {"result", "cont", "ack", "request"}
    /\ \A t \in {"result", "cont", "ack", "request"} : \A n \in Nat : Task(t, n) \in ToolTask
    /\ AudioTask \cap ToolTask = {}
<1>1. \A x \in Tasks : x \in ToolTask <=> x.t \in {"result", "cont", "ack", "request"}
    BY DEF Tasks, ToolTask, ToolEvent
<1>2. \A t \in {"result", "cont", "ack", "request"} : \A n \in Nat : Task(t, n) \in ToolTask
    BY DEF Task, ToolTask, ToolEvent
<1> QED
    BY <1>1, <1>2 DEF AudioTask, ToolTask, Audio, ToolEvent

(* Which inputs arrive, and what the forwarder is about.                   *)
ResultArrives ==
    /\ forwarder.step = "result" /\ Push(Task("result", forwarder.batch))
    /\ forwarder' = [forwarder EXCEPT !.step = "cont"] /\ UNCHANGED inbox
ContArrives ==
    /\ forwarder.step = "cont" /\ Push(Task("cont", forwarder.batch))
    /\ forwarder' = [forwarder EXCEPT !.step = "request"] /\ UNCHANGED inbox
RequestArrives ==
    /\ forwarder.step = "request" /\ ~over
    /\ inbox' = Append(inbox, forwarder.batch)
    /\ forwarder' = [batch |-> forwarder.batch + 1, step |-> "result"]
    /\ UNCHANGED <<ordered, toolEvents>>
ForwarderFails ==
    /\ forwarder.step \in {"result", "cont"} /\ ~over
    /\ forwarder' = [forwarder EXCEPT !.step = "failed"]
    /\ UNCHANGED <<inbox, ordered, toolEvents>>

LEMMA ForwardCases ==
    ASSUME TypeInv, ForwardResult
    PROVE  /\ forwarder.batch \in Batch
           /\ ResultArrives \/ ContArrives \/ RequestArrives \/ ForwarderFails
           /\ UNCHANGED <<lane, frames, provVars, agenda, st, flag, over, sendVars, leaked,
                          reported>>
           /\ scenario'.refused = scenario.refused /\ scenario'.acked = scenario.acked
           /\ SameProvider
<1> DEFINE b == forwarder.batch
<1>0. /\ scenario \in Scenario /\ MaxBatches \in Nat
      /\ forwarder \in [batch : Nat, step : {"result", "cont", "request", "failed"}]
      /\ b \in Nat /\ b >= 1
      /\ b - (IF forwarder.step \in {"result", "failed"} THEN 1 ELSE 0) + scenario.batches <= MaxBatches
    BY SessionAssumption DEF TypeInv, InputTypes
<1>1. scenario.batches \in Nat
    BY <1>0 DEF Scenario
<1>2. UNCHANGED <<lane, frames, provVars, agenda, st, flag, over, sendVars, leaked, reported>>
    BY DEF ForwardResult
<1>3. CASE forwarder.step = "result" /\ Spend("batches") /\ Push(Task("result", b))
           /\ forwarder' = [forwarder EXCEPT !.step = "cont"] /\ UNCHANGED inbox
    <2>1. /\ scenario.batches > 0 /\ SameProvider /\ scenario'.refused = scenario.refused
          /\ scenario'.acked = scenario.acked
        BY <1>0, <1>3, SpendFields
    <2>2. b \in Batch
        BY <1>0, <1>1, <1>3, <2>1 DEF Batch
    <2> QED
        BY <1>2, <1>3, <2>1, <2>2 DEF ResultArrives
<1>4. CASE /\ forwarder.step = "cont" /\ Push(Task("cont", b))
           /\ forwarder' = [forwarder EXCEPT !.step = "request"]
           /\ UNCHANGED <<scenario, inbox>>
    <2>1. b \in Batch
        BY <1>0, <1>1, <1>4 DEF Batch
    <2> QED
        BY <1>2, <1>4, <2>1 DEF ContArrives, SameProvider
<1>5. CASE /\ forwarder.step = "request" /\ ~over
           /\ inbox' = Append(inbox, b)
           /\ forwarder' = [batch |-> b + 1, step |-> "result"]
           /\ UNCHANGED <<scenario, ordered, toolEvents>>
    <2>1. b \in Batch
        BY <1>0, <1>1, <1>5 DEF Batch
    <2> QED
        BY <1>2, <1>5, <2>1 DEF RequestArrives, SameProvider
<1>6. CASE /\ forwarder.step = "cont" \/ (forwarder.step = "result" /\ scenario.batches > 0)
           /\ ~over /\ Len(ordered) = IngressCap
           /\ forwarder' = [forwarder EXCEPT !.step = "failed"]
           /\ UNCHANGED <<scenario, inbox, ordered, toolEvents>>
    <2>1. b \in Batch
        BY <1>0, <1>1, <1>6 DEF Batch
    <2> QED
        BY <1>2, <1>6, <2>1 DEF ForwarderFails, SameProvider
<1> QED
    BY <1>3, <1>4, <1>5, <1>6 DEF ForwardResult

-----------------------------------------------------------------------------
(* The steps that are not idle, one by one                                 *)

LEMMA StepCases ==
    ASSUME [Next]_vars
    PROVE  \/ IdleStep \/ FlushHeld \/ SendAudio \/ SendAck \/ ForwardResult
           \/ ForwardAudio \/ ForwardToolResult \/ SuppressContinuation \/ HoldOrSync
           \/ RequestContinuation \/ ForwardAck \/ AwaitRequest \/ AwaitEnd
BY DEF Next, Environment, Runner, Events, Await, IdleStep, Reads

(* A call is over, or has become another one; T is what is followed.       *)
Gone(T) == Line(T)' = Served(T) \o Behind(T)
Becomes(T, y) ==
    Line(T)' = IF y \in T THEN Served(T) \o (<<y>> \o Behind(T)) ELSE Served(T) \o Behind(T)

(* What the steps of the tool events and the frames do to the line.        *)
LEMMA LineSteps ==
    ASSUME TypeInv, NEW T, T \cap Plain = {}
    PROVE  /\ ForwardToolResult => Gone(T)
           /\ SuppressContinuation => Gone(T)
           /\ ForwardAck => Gone(T)
           /\ ForwardAudio /\ ~over' => Gone(T)
           /\ HoldOrSync => \/ Becomes(T, Head(agenda))
                            \/ Becomes(T, Task("request", Head(agenda).n))
           /\ RequestContinuation =>
                \/ UNCHANGED <<toolEvents, asked>> /\ Becomes(T, Task("cont", Head(agenda).n))
                \/ Asks(Head(agenda).n) /\ Gone(T)
           /\ AwaitRequest => Line(T)' = Line(T) /\ Only(agenda, T) = <<>>
<1>1. ASSUME ForwardToolResult PROVE Gone(T)
    <2>1. /\ agenda # <<>> /\ agenda' = Rest /\ st'.deferred = st.deferred
          /\ ordered' = ordered
        BY <1>1, ResultStep DEF Delivers, Refuses, KeepInput
    <2> QED
        BY <2>1, LineDrop DEF Gone
<1>2. ASSUME SuppressContinuation PROVE Gone(T)
    <2>1. /\ agenda # <<>> /\ agenda' = Rest /\ st'.deferred = st.deferred
          /\ ordered' = ordered
        BY <1>2, SuppressStep DEF Reports, KeepInput
    <2> QED
        BY <2>1, LineDrop DEF Gone
<1>3. ASSUME ForwardAck PROVE Gone(T)
    <2>1. /\ agenda # <<>> /\ agenda' = Rest /\ st'.deferred = st.deferred
          /\ ordered' = ordered
        BY <1>3, AckStep DEF Acknowledges, KeepsQueues, KeepInput
    <2> QED
        BY <2>1, LineDrop DEF Gone
<1>4. ASSUME ForwardAudio, ~over' PROVE Gone(T)
    <2>1. /\ agenda # <<>> /\ agenda' = Rest /\ st'.deferred = st.deferred
          /\ ordered' = ordered
        BY <1>4, AudioCases DEF HoldsFrame, SendsFrame, LosesSession, inputVars
    <2> QED
        BY <2>1, LineDrop DEF Gone
<1>5. ASSUME HoldOrSync
      PROVE  Becomes(T, Head(agenda)) \/ Becomes(T, Task("request", Head(agenda).n))
    <2>0. /\ agenda # <<>> /\ Head(agenda).n \in Batch /\ ordered' = ordered
        BY <1>5, HoldStep DEF inputVars
    <2>1. CASE Defers(Head(agenda)) /\ agenda' = Rest
        BY <2>0, <2>1, LineDefer DEF Becomes
    <2>2. CASE /\ UNCHANGED st
               /\ agenda' = <<Task("pending", 0), Task("request", Head(agenda).n)>> \o Rest
        <3>1. Syncs(Head(agenda).n)
            BY <2>0, <2>2 DEF Syncs
        <3> QED
            BY <2>0, <3>1, LineSync DEF Becomes
    <2> QED
        BY <1>5, <2>1, <2>2, HoldStep
<1>6. ASSUME RequestContinuation
      PROVE  \/ UNCHANGED <<toolEvents, asked>> /\ Becomes(T, Task("cont", Head(agenda).n))
             \/ Asks(Head(agenda).n) /\ Gone(T)
    <2>0. /\ agenda # <<>> /\ Head(agenda).n \in Batch /\ ordered' = ordered /\ agenda' = Rest
        BY <1>6, RequestStep DEF KeepInput
    <2>1. CASE /\ Defers(Task("cont", Head(agenda).n)) /\ UNCHANGED <<toolEvents, asked>>
        BY <2>0, <2>1, LineDefer DEF Becomes
    <2>2. CASE Asks(Head(agenda).n)
        <3>1. st'.deferred = st.deferred
            BY <2>2 DEF Asks, KeepsQueues
        <3> QED
            BY <2>0, <2>2, <3>1, LineDrop DEF Gone
    <2> QED
        BY <1>6, <2>1, <2>2, RequestStep
<1>7. ASSUME AwaitRequest PROVE Line(T)' = Line(T) /\ Only(agenda, T) = <<>>
    BY <1>7, InboxStep, LineAwait
<1> QED
    BY <1>1, <1>2, <1>3, <1>4, <1>5, <1>6, <1>7

-----------------------------------------------------------------------------
(* pendingToolEvents counts the line of the tool events                    *)

CountInv == ~over => toolEvents = Len(Line(ToolTask))

LEMMA LineLen ==
    ASSUME TypeInv, NEW T
    PROVE  Len(Line(T)) \in Nat /\ Line(T) \in Seq(Tasks)
BY QueueFacts

(* An event that is served was counted.                                    *)
LEMMA CountServed ==
    ASSUME TypeInv, CountInv, agenda # <<>>, ~over, Head(agenda) \in ToolTask,
           Gone(ToolTask), Consumed
    PROVE  toolEvents' = Len(Line(ToolTask)')
<1> DEFINE S == Served(ToolTask)
           B == Behind(ToolTask)
           x == Head(agenda)
<1>1. S \in Seq(Tasks) /\ B \in Seq(Tasks) /\ x \in Tasks
    BY LineHead, RestTypes
<1>2. Line(ToolTask) = S \o (<<x>> \o B)
    BY LineHead
<1>3. Line(ToolTask)' = S \o B
    BY DEF Gone
<1> HIDE DEF S, B, x
<1>4. Len(S \o B) \in Nat /\ Len(S \o (<<x>> \o B)) = Len(S \o B) + 1
    BY <1>1, SplitLen
<1>5. toolEvents = Len(S \o B) + 1
    BY <1>2, <1>4 DEF CountInv
<1>6. toolEvents' = toolEvents - 1
    BY <1>4, <1>5 DEF Consumed
<1> QED
    BY <1>3, <1>4, <1>5, <1>6

(* An event that goes on waiting as another is counted still.              *)
LEMMA CountTurned ==
    ASSUME TypeInv, CountInv, agenda # <<>>, ~over, Head(agenda) \in ToolTask,
           NEW y \in Tasks, y \in ToolTask, Becomes(ToolTask, y), toolEvents' = toolEvents
    PROVE  toolEvents' = Len(Line(ToolTask)')
<1> DEFINE S == Served(ToolTask)
           B == Behind(ToolTask)
           x == Head(agenda)
<1>1. S \in Seq(Tasks) /\ B \in Seq(Tasks) /\ x \in Tasks
    BY LineHead, RestTypes
<1>2. Line(ToolTask) = S \o (<<x>> \o B)
    BY LineHead
<1>3. Line(ToolTask)' = S \o (<<y>> \o B)
    BY DEF Becomes
<1> HIDE DEF S, B, x
<1>4. /\ Len(S \o (<<x>> \o B)) = Len(S \o B) + 1
      /\ Len(S \o (<<y>> \o B)) = Len(S \o B) + 1
    BY <1>1, SplitLen
<1> QED
    BY <1>2, <1>3, <1>4 DEF CountInv

(* An event arrives.                                                       *)
LEMMA CountPushed ==
    ASSUME TypeInv, CountInv, NEW x \in Inputs, Push(x), UNCHANGED <<st, agenda>>
    PROVE  toolEvents' = Len(Line(ToolTask)')
<1>1. Line(ToolTask)' = IF x \in ToolTask THEN Append(Line(ToolTask), x) ELSE Line(ToolTask)
    BY LinePush, PlainTasks
<1>2. x \in Tasks /\ (x \in ToolTask <=> x.t \in ToolEvent)
    BY TaskTypes DEF Inputs, ToolTask, ToolEvent, Tasks, Audio
<1>3. Line(ToolTask) \in Seq(Tasks) /\ Len(Line(ToolTask)) \in Nat
    BY LineLen
<1>4. /\ toolEvents = Len(Line(ToolTask))
      /\ toolEvents' = IF x.t \in ToolEvent THEN toolEvents + 1 ELSE toolEvents
    BY DEF Push, CountInv
<1>5. Len(Append(Line(ToolTask), x)) = Len(Line(ToolTask)) + 1
    BY <1>2, <1>3, AppendType
<1> QED
    BY <1>1, <1>2, <1>4, <1>5

LEMMA CountStep ==
    ASSUME TypeInv, CountInv, [Next]_vars, ~over'
    PROVE  toolEvents' = Len(Line(ToolTask)')
<1>0. ToolTask \cap Plain = {}
    BY PlainTasks
<1>1. CASE IdleStep
    BY <1>0, <1>1, IdleSteps DEF Idles, CountInv
<1>2. CASE FlushHeld
    BY <1>0, <1>2, FlushIdles DEF Idles, CountInv
<1>3. CASE SendAudio
    <2>1. PICK t \in Audio : Push(Task(t, frames + 1))
        BY <1>3 DEF SendAudio
    <2>2. Task(t, frames + 1) \in Inputs
        BY InputNames DEF TypeInv, InputTypes
    <2> QED
        BY <1>3, <2>1, <2>2, CountPushed DEF SendAudio
<1>4. CASE SendAck
    <2>1. Task("ack", 0) \in Inputs
        BY InputNames
    <2> QED
        BY <1>4, <2>1, CountPushed DEF SendAck
<1>5. CASE ForwardResult
    <2>0. /\ forwarder.batch \in Batch
          /\ ResultArrives \/ ContArrives \/ RequestArrives \/ ForwarderFails
          /\ UNCHANGED <<st, agenda, over>>
        BY <1>5, ForwardCases
    <2>1. CASE ResultArrives \/ ContArrives
        <3>1. /\ Task("result", forwarder.batch) \in Inputs
              /\ Task("cont", forwarder.batch) \in Inputs
            BY <2>0, InputNames
        <3> QED
            BY <2>0, <2>1, <3>1, CountPushed DEF ResultArrives, ContArrives
    <2>2. CASE RequestArrives \/ ForwarderFails
        <3>1. UNCHANGED <<st, ordered, agenda, toolEvents>>
            BY <2>0, <2>2 DEF RequestArrives, ForwarderFails
        <3>2. Line(ToolTask)' = Line(ToolTask)
            BY <3>1, LineStack
        <3> QED
            BY <2>0, <3>1, <3>2 DEF CountInv
    <2> QED
        BY <2>0, <2>1, <2>2
<1>6. CASE ForwardAudio
    <2>1. agenda # <<>> /\ Head(agenda) \in AudioTask /\ UNCHANGED toolEvents /\ ~over
        BY <1>6, AudioCases DEF inputVars
    <2>2. Head(agenda) \notin ToolTask
        BY <2>1, ToolTasks
    <2>3. Line(ToolTask) = Served(ToolTask) \o Behind(ToolTask)
        BY <2>1, <2>2, LineHead
    <2>4. Gone(ToolTask)
        BY <1>0, <1>6, LineSteps
    <2> QED
        BY <2>1, <2>3, <2>4 DEF Gone, CountInv
<1>7. CASE ForwardToolResult \/ SuppressContinuation \/ ForwardAck
    <2>1. /\ agenda # <<>> /\ ~over /\ Consumed /\ Head(agenda) \in Tasks
          /\ Head(agenda).t \in {"result", "cont", "ack"}
        BY <1>7, ResultStep, SuppressStep, AckStep, RestTypes
    <2>2. Head(agenda) \in ToolTask
        BY <2>1, ToolTasks
    <2>3. Gone(ToolTask)
        BY <1>0, <1>7, LineSteps
    <2> QED
        BY <2>1, <2>2, <2>3, CountServed
<1>8. CASE HoldOrSync
    <2>1. /\ agenda # <<>> /\ ~over /\ UNCHANGED toolEvents /\ Head(agenda) \in Tasks
          /\ Head(agenda).t = "cont" /\ Head(agenda).n \in Batch
        BY <1>8, HoldStep DEF inputVars
    <2>2. Head(agenda) \in ToolTask
        BY <2>1, ToolTasks
    <2>3. Task("request", Head(agenda).n) \in Tasks /\ Task("request", Head(agenda).n) \in ToolTask
        BY <2>1, TaskTypes, ToolTasks DEF Batch
    <2> QED
        BY <1>0, <1>8, <2>1, <2>2, <2>3, LineSteps, CountTurned
<1>9. CASE RequestContinuation
    <2>1. /\ agenda # <<>> /\ ~over /\ Head(agenda).t = "request" /\ Head(agenda).n \in Batch
          /\ Head(agenda) \in Tasks
        BY <1>9, RequestStep, RestTypes
    <2>2. Head(agenda) \in ToolTask
        BY <2>1, ToolTasks
    <2>3. Task("cont", Head(agenda).n) \in Tasks /\ Task("cont", Head(agenda).n) \in ToolTask
        BY <2>1, TaskTypes, ToolTasks DEF Batch
    <2>4. CASE Asks(Head(agenda).n) /\ Gone(ToolTask)
        BY <2>1, <2>2, <2>4, CountServed DEF Asks
    <2>5. CASE UNCHANGED <<toolEvents, asked>> /\ Becomes(ToolTask, Task("cont", Head(agenda).n))
        BY <2>1, <2>2, <2>3, <2>5, CountTurned
    <2> QED
        BY <1>0, <1>9, <2>4, <2>5, LineSteps
<1>10. CASE AwaitRequest
    BY <1>0, <1>10, LineSteps, InboxStep DEF CountInv
<1>11. CASE AwaitEnd
    BY <1>11, EndStep
<1> QED
    BY <1>1, <1>2, <1>3, <1>4, <1>5, <1>6, <1>7, <1>8, <1>9, <1>10, <1>11, StepCases

LEMMA InitLine ==
    ASSUME Init, NEW T, T \cap Plain = {}
    PROVE  Line(T) = <<>>
<1>1. TypeInv
    BY InitTypes
<1>2. agenda = Loop /\ ordered = <<>> /\ st.deferred = <<>>
    BY DEF Init, Loop
<1>3. Elems(agenda) \subseteq Plain
    BY <1>2, IdleLoop, PlainTasks
<1>4. Only(agenda, T) = <<>> /\ Only(ordered, T) = <<>> /\ Only(st.deferred, T) = <<>>
    <2>1. Only(agenda, T) = <<>>
        BY <1>1, <1>3, QueueFacts, OnlyNone
    <2> QED
        BY <1>2, <2>1, OnlyEmpty
<1> QED
    BY <1>4, EmptyPath DEF Line, LineOf

LEMMA CountHolds ==
    Spec => []CountInv
<1>1. Init => CountInv
    <2> SUFFICES ASSUME Init PROVE CountInv
        OBVIOUS
    <2>1. toolEvents = 0 /\ Line(ToolTask) = <<>>
        BY InitLine, PlainTasks DEF Init
    <2> QED
        BY <2>1 DEF CountInv
<1>2. TypeInv /\ CountInv /\ [Next]_vars => CountInv'
    BY CountStep DEF CountInv
<1> QED
    BY <1>1, <1>2, TypesHold, PTL DEF Spec

(* The line and Pending hold the same tasks, in another order.             *)
LEMMA PendingLine ==
    ASSUME TypeInv, NEW T
    PROVE  /\ Pending \in Seq(Tasks)
           /\ Len(Only(Pending, T)) = Len(Line(T))
           /\ Elems(Pending) \cap T = Elems(Line(T))
<1> DEFINE d == st.deferred
           p == agenda \o d
           D == Only(d, T)
           A == Only(agenda, T)
           O == Only(ordered, T)
<1>1. agenda \in Seq(Tasks) /\ d \in Seq(Tasks) /\ ordered \in Seq(Tasks)
    BY QueueFacts
<1>2. Pending = p \o ordered /\ Line(T) = (D \o A) \o O /\ Line(T) = LineOf(d, agenda, ordered, T)
    BY DEF Pending, Line, LineOf
<1>3. D \in Seq(Tasks) /\ A \in Seq(Tasks) /\ O \in Seq(Tasks)
    BY <1>1, LineType
<1>4. \A x : x \in Elems(Line(T)) <=>
                 x \in T /\ (x \in Elems(d) \/ x \in Elems(agenda) \/ x \in Elems(ordered))
    BY <1>1, <1>2, LineType
<1> HIDE DEF d
<1>5. p \in Seq(Tasks) /\ Only(p, T) = A \o D
    <2>1. p \in Seq(Tasks)
        BY <1>1, ConcatType
    <2>2. Only(p, T) = A \o D
        BY <1>1, OnlyConcat
    <2> QED
        BY <2>1, <2>2
<1>6. Elems(p) = Elems(agenda) \cup Elems(d)
    BY <1>1, ElemsConcat
<1> HIDE DEF p, D, A, O
<1>7. p \o ordered \in Seq(Tasks)
    BY <1>1, <1>5, ConcatType
<1>8. Only(p \o ordered, T) = Only(p, T) \o O
    <2>1. p \in Seq(Tasks) /\ ordered \in Seq(Tasks)
        BY <1>1, <1>5
    <2>2. Only(p \o ordered, T) = Only(p, T) \o Only(ordered, T)
        BY <2>1, OnlyConcat
    <2> QED
        BY <2>2 DEF O
<1>9. Elems(p \o ordered) = Elems(p) \cup Elems(ordered)
    BY <1>1, <1>5, ElemsConcat
<1>10. A \o D \in Seq(Tasks) /\ Len(A \o D) = Len(A) + Len(D)
    BY <1>3, ConcatType
<1>11. D \o A \in Seq(Tasks) /\ Len(D \o A) = Len(D) + Len(A)
    BY <1>3, ConcatType
<1>12. Len((A \o D) \o O) = (Len(A) + Len(D)) + Len(O)
    BY <1>3, <1>10, ConcatType
<1>13. Len((D \o A) \o O) = (Len(D) + Len(A)) + Len(O)
    BY <1>3, <1>11, ConcatType
<1>14. Len(A) \in Nat /\ Len(D) \in Nat
    BY <1>3
<1>15. Len(Only(Pending, T)) = Len(Line(T))
    BY <1>2, <1>5, <1>8, <1>12, <1>13, <1>14
<1>16. Elems(Pending) \cap T = Elems(Line(T))
    BY <1>2, <1>4, <1>6, <1>9
<1> QED
    BY <1>2, <1>7, <1>15, <1>16

(* Until the session ends, pendingToolEvents.count is the number of tool   *)
(* events that wait in the ingress, in the goroutine's calls and among the *)
(* deferred events: AwaitRequest, which looks at the count alone, never    *)
(* misses a result and never waits for one that is gone.                   *)
THEOREM CountCorrect == Spec => []ToolEventsCounted
<1>1. TypeInv /\ CountInv => ToolEventsCounted
    BY PendingLine DEF CountInv, ToolEventsCounted
<1> QED
    BY <1>1, TypesHold, CountHolds, PTL

-----------------------------------------------------------------------------
(* The order of a line                                                     *)

(* Frames by their number; the events of a batch after its result.         *)
Key(x) == IF x.t \in Audio THEN x.n ELSE IF x.t = "result" THEN 2 * x.n ELSE 2 * x.n + 1
Rising(s) == \A i, j \in 1..Len(s) : i < j => Key(s[i]) < Key(s[j])

LEMMA KeyType ==
    \A x \in Tasks : Key(x) \in Nat /\ x.n \in Nat
BY DEF Key, Tasks

LEMMA RisingEmpty == Rising(<<>>)
BY DEF Rising

LEMMA RisingAppend ==
    ASSUME NEW s \in Seq(Tasks), NEW x \in Tasks
    PROVE  Rising(Append(s, x)) <=> Rising(s) /\ \A y \in Elems(s) : Key(y) < Key(x)
<1> DEFINE t == Append(s, x)
<1>1. /\ t \in Seq(Tasks) /\ Len(t) = Len(s) + 1 /\ Len(s) \in Nat
      /\ \A i \in 1..Len(s) : t[i] = s[i]
      /\ t[Len(s) + 1] = x
    BY AppendType
<1>2. \A y : y \in Elems(s) <=> \E i \in 1..Len(s) : s[i] = y
    BY DEF Elems
<1> HIDE DEF t
<1>3. ASSUME Rising(t) PROVE Rising(s) /\ \A y \in Elems(s) : Key(y) < Key(x)
    <2>1. \A i, j \in 1..Len(t) : i < j => Key(t[i]) < Key(t[j])
        BY <1>3 DEF Rising
    <2>2. \A i, j \in 1..Len(s) : i < j => Key(s[i]) < Key(s[j])
        BY <1>1, <2>1
    <2>3. \A i \in 1..Len(s) : Key(s[i]) < Key(x)
        BY <1>1, <2>1
    <2> QED
        BY <1>2, <2>2, <2>3 DEF Rising
<1>4. ASSUME Rising(s), \A y \in Elems(s) : Key(y) < Key(x) PROVE Rising(t)
    <2>1. \A i, j \in 1..Len(s) : i < j => Key(s[i]) < Key(s[j])
        BY <1>4 DEF Rising
    <2>2. \A i \in 1..Len(s) : Key(s[i]) < Key(x)
        BY <1>2, <1>4
    <2>3. ASSUME NEW i \in 1..Len(t), NEW j \in 1..Len(t), i < j
          PROVE  Key(t[i]) < Key(t[j])
        <3>1. i \in 1..Len(s)
            BY <1>1, <2>3
        <3>2. CASE j \in 1..Len(s)
            BY <1>1, <2>1, <2>3, <3>1, <3>2
        <3>3. CASE j = Len(s) + 1
            BY <1>1, <2>2, <3>1, <3>3
        <3> QED
            BY <1>1, <3>2, <3>3
    <2> QED
        BY <2>3 DEF Rising
<1> QED
    BY <1>3, <1>4 DEF t

LEMMA RisingParts ==
    ASSUME NEW s \in Seq(Tasks), NEW t \in Seq(Tasks)
    PROVE  Rising(s \o t) <=>
             /\ Rising(s) /\ Rising(t)
             /\ \A x \in Elems(s), y \in Elems(t) : Key(x) < Key(y)
<1> DEFINE q == s \o t
<1>1. /\ q \in Seq(Tasks) /\ Len(q) = Len(s) + Len(t)
      /\ Len(s) \in Nat /\ Len(t) \in Nat
      /\ \A i \in 1..Len(s) : q[i] = s[i]
      /\ \A i \in 1..Len(t) : q[Len(s) + i] = t[i]
    BY ConcatType
<1>2. /\ \A y : y \in Elems(s) <=> \E i \in 1..Len(s) : s[i] = y
      /\ \A y : y \in Elems(t) <=> \E i \in 1..Len(t) : t[i] = y
    BY DEF Elems
<1> HIDE DEF q
<1>3. ASSUME Rising(q)
      PROVE  Rising(s) /\ Rising(t) /\ \A x \in Elems(s), y \in Elems(t) : Key(x) < Key(y)
    <2>1. \A i, j \in 1..Len(q) : i < j => Key(q[i]) < Key(q[j])
        BY <1>3 DEF Rising
    <2>2. \A i, j \in 1..Len(s) : i < j => Key(s[i]) < Key(s[j])
        BY <1>1, <2>1
    <2>3. ASSUME NEW i \in 1..Len(t), NEW j \in 1..Len(t), i < j
          PROVE  Key(t[i]) < Key(t[j])
        <3>1. Len(s) + i \in 1..Len(q) /\ Len(s) + j \in 1..Len(q) /\ Len(s) + i < Len(s) + j
            BY <1>1, <2>3
        <3> QED
            BY <1>1, <2>1, <3>1
    <2>4. ASSUME NEW i \in 1..Len(s), NEW j \in 1..Len(t) PROVE Key(s[i]) < Key(t[j])
        <3>1. i \in 1..Len(q) /\ Len(s) + j \in 1..Len(q) /\ i < Len(s) + j
            BY <1>1
        <3> QED
            BY <1>1, <2>1, <3>1
    <2> QED
        BY <1>2, <2>2, <2>3, <2>4 DEF Rising
<1>4. ASSUME Rising(s), Rising(t), \A x \in Elems(s), y \in Elems(t) : Key(x) < Key(y)
      PROVE  Rising(q)
    <2>1. /\ \A i, j \in 1..Len(s) : i < j => Key(s[i]) < Key(s[j])
          /\ \A i, j \in 1..Len(t) : i < j => Key(t[i]) < Key(t[j])
        BY <1>4 DEF Rising
    <2>2. \A i \in 1..Len(s), j \in 1..Len(t) : Key(s[i]) < Key(t[j])
        BY <1>2, <1>4
    <2>3. ASSUME NEW i \in 1..Len(q), NEW j \in 1..Len(q), i < j
          PROVE  Key(q[i]) < Key(q[j])
        <3>1. CASE j \in 1..Len(s)
            BY <1>1, <2>1, <2>3, <3>1
        <3>2. CASE i \in 1..Len(s) /\ j \notin 1..Len(s)
            <4>1. j - Len(s) \in 1..Len(t) /\ j = Len(s) + (j - Len(s))
                BY <1>1, <3>2
            <4> QED
                BY <1>1, <2>2, <3>2, <4>1
        <3>3. CASE i \notin 1..Len(s)
            <4>1. /\ j - Len(s) \in 1..Len(t) /\ j = Len(s) + (j - Len(s))
                  /\ i - Len(s) \in 1..Len(t) /\ i = Len(s) + (i - Len(s))
                  /\ i - Len(s) < j - Len(s)
                BY <1>1, <2>3, <3>3
            <4> QED
                BY <1>1, <2>1, <4>1
        <3> QED
            BY <3>1, <3>2, <3>3
    <2> QED
        BY <2>3 DEF Rising
<1> QED
    BY <1>3, <1>4 DEF q

LEMMA RisingOne ==
    ASSUME NEW x
    PROVE  Rising(<<x>>)
BY DEF Rising

(* One task within the line.                                               *)
LEMMA RisingSplit ==
    ASSUME NEW s \in Seq(Tasks), NEW t \in Seq(Tasks), NEW x \in Tasks
    PROVE  Rising(s \o (<<x>> \o t)) <=>
             /\ Rising(s \o t)
             /\ \A y \in Elems(s) : Key(y) < Key(x)
             /\ \A y \in Elems(t) : Key(x) < Key(y)
<1> DEFINE X == <<x>>
           q == X \o t
<1>1. X \in Seq(Tasks) /\ Elems(X) = {x} /\ Rising(X)
    BY SingletonType, ElemsSmall, RisingOne
<1> HIDE DEF X
<1>2. Rising(q) <=> Rising(t) /\ \A y \in Elems(t) : Key(x) < Key(y)
    BY <1>1, RisingParts
<1>3. Elems(q) = {x} \cup Elems(t)
    BY <1>1, ElemsConcat
<1>4. q \in Seq(Tasks)
    BY <1>1, ConcatType
<1> HIDE DEF q
<1>5. Rising(s \o q) <=>
             /\ Rising(s) /\ Rising(q)
             /\ \A y \in Elems(s), z \in Elems(q) : Key(y) < Key(z)
    BY <1>4, RisingParts
<1>6. Rising(s \o t) <=>
             /\ Rising(s) /\ Rising(t)
             /\ \A y \in Elems(s), z \in Elems(t) : Key(y) < Key(z)
    BY RisingParts
<1>7. Rising(s \o q) <=>
             /\ Rising(s \o t)
             /\ \A y \in Elems(s) : Key(y) < Key(x)
             /\ \A y \in Elems(t) : Key(x) < Key(y)
    BY <1>2, <1>3, <1>5, <1>6
<1> QED
    BY <1>7 DEF q, X

-----------------------------------------------------------------------------
(* The events of the batches keep the order in which they were forwarded   *)

(* An acknowledgement names no batch.                                      *)
BatchTask == ToolTask \ {Task("ack", 0)}
Open == forwarder.step # "failed"
Position == 2 * forwarder.batch + (IF forwarder.step = "result" THEN 0
                                   ELSE IF forwarder.step = "cont" THEN 1 ELSE 2)

(* Nothing of a batch waits that the forwarder has not come to.            *)
Forwarded == Open => \A x \in Elems(Line(BatchTask)) : Key(x) < Position
AskedLast ==
    \A b \in Batch : asked[b] > 0 =>
        /\ Open => 2 * b + 1 < Position
        /\ \A x \in Elems(Line(BatchTask)) : x.n # b
InboxBehind == Open => \A b \in Elems(inbox) : 2 * b + 1 < Position
RefusedGone ==
    \A b \in undelivered :
        /\ Open => 2 * b < Position
        /\ Task("result", b) \notin Elems(Line(BatchTask))
BatchInv ==
    /\ ~over => Rising(Line(BatchTask))
    /\ Forwarded /\ AskedLast /\ InboxBehind /\ RefusedGone

LEMMA BatchTasks ==
    /\ BatchTask \cap Plain = {} /\ BatchTask \subseteq ToolTask
    /\ AudioTask \cap BatchTask = {} /\ Task("ack", 0) \notin BatchTask
    /\ \A x \in Tasks : x.t \in {"result", "cont", "request"} => x \in BatchTask
    /\ \A x \in Tasks : x \in ToolTask /\ x.n \in Batch => x \in BatchTask
    /\ \A b \in Batch : \A t \in {"result", "cont", "request"} :
          Task(t, b) \in Tasks /\ Task(t, b) \in BatchTask
<1>1. BatchTask \cap Plain = {} /\ BatchTask \subseteq ToolTask
    BY PlainTasks DEF BatchTask
<1>2. AudioTask \cap BatchTask = {} /\ Task("ack", 0) \notin BatchTask
    BY ToolTasks DEF BatchTask
<1>3. Task("ack", 0).t = "ack" /\ Task("ack", 0).n = 0
    BY TaskTypes
<1>4. \A x \in Tasks : x.t \in {"result", "cont", "request"} => x \in BatchTask
    BY <1>3, ToolTasks DEF BatchTask
<1>5. \A x \in Tasks : x \in ToolTask /\ x.n \in Batch => x \in BatchTask
    BY <1>3 DEF BatchTask, Batch
<1>6. \A b \in Batch : \A t \in {"result", "cont", "request"} :
          Task(t, b) \in Tasks /\ Task(t, b) \in BatchTask
    BY <1>4, TaskTypes
<1> QED
    BY <1>1, <1>2, <1>4, <1>5, <1>6

LEMMA BatchFacts ==
    ASSUME TypeInv
    PROVE  /\ Line(BatchTask) \in Seq(Tasks)
           /\ \A x \in Elems(Line(BatchTask)) : x \in Tasks /\ Key(x) \in Nat /\ x.n \in Nat
           /\ forwarder.batch \in Nat
           /\ forwarder \in [batch : Nat, step : {"result", "cont", "request", "failed"}]
           /\ Position \in Nat
<1>1. Line(BatchTask) \in Seq(Tasks)
    BY QueueFacts
<1>2. \A x \in Elems(Line(BatchTask)) : x \in Tasks
    BY <1>1, ElemsType
<1>3. forwarder \in [batch : Nat, step : {"result", "cont", "request", "failed"}]
    BY DEF TypeInv, InputTypes
<1> QED
    BY <1>1, <1>2, <1>3, KeyType DEF Position

(* Whatever only shortens the line keeps the order.                        *)
LEMMA BatchShrinks ==
    ASSUME BatchInv, Elems(Line(BatchTask)') \subseteq Elems(Line(BatchTask)),
           ~over' => Rising(Line(BatchTask)'),
           UNCHANGED <<forwarder, asked, undelivered, inbox>>
    PROVE  BatchInv'
<1>1. Open' = Open /\ Position' = Position
    BY DEF Open, Position
<1>2. Forwarded'
    BY <1>1 DEF BatchInv, Forwarded
<1>3. AskedLast'
    BY <1>1 DEF BatchInv, AskedLast
<1>4. InboxBehind'
    BY <1>1 DEF BatchInv, InboxBehind
<1>5. RefusedGone'
    BY <1>1 DEF BatchInv, RefusedGone
<1> QED
    BY <1>2, <1>3, <1>4, <1>5 DEF BatchInv

(* The served task and what is left, one line down.                        *)
LEMMA BatchServed ==
    ASSUME TypeInv, BatchInv, agenda # <<>>, ~over, Gone(BatchTask)
    PROVE  /\ Elems(Line(BatchTask)') \subseteq Elems(Line(BatchTask))
           /\ Rising(Line(BatchTask)')
           /\ Head(agenda) \in BatchTask =>
                 /\ Head(agenda) \in Elems(Line(BatchTask))
                 /\ \A y \in Elems(Line(BatchTask)') :
                       IF y \in Elems(Served(BatchTask)) THEN Key(y) < Key(Head(agenda))
                       ELSE Key(Head(agenda)) < Key(y)
<1> DEFINE S == Served(BatchTask)
           B == Behind(BatchTask)
           x == Head(agenda)
           L == Line(BatchTask)
           M == Line(BatchTask)'
<1>1. S \in Seq(Tasks) /\ B \in Seq(Tasks) /\ x \in Tasks
    BY LineHead, RestTypes
<1>2. L = IF x \in BatchTask THEN S \o (<<x>> \o B) ELSE S \o B
    BY LineHead
<1>3. M = S \o B
    BY DEF Gone
<1>4. Rising(L)
    BY DEF BatchInv
<1> HIDE DEF S, B, x, L, M
<1>5. /\ Elems(S \o B) = Elems(S) \cup Elems(B)
      /\ Elems(S \o (<<x>> \o B)) = {x} \cup Elems(S \o B)
    BY <1>1, SplitLen
<1>6. Rising(S \o (<<x>> \o B)) <=>
             /\ Rising(S \o B)
             /\ \A y \in Elems(S) : Key(y) < Key(x)
             /\ \A y \in Elems(B) : Key(x) < Key(y)
    BY <1>1, RisingSplit
<1>7. Elems(M) \subseteq Elems(L) /\ Rising(M)
    BY <1>2, <1>3, <1>4, <1>5, <1>6
<1>8. ASSUME x \in BatchTask
      PROVE  /\ x \in Elems(L)
             /\ \A y \in Elems(M) : IF y \in Elems(S) THEN Key(y) < Key(x) ELSE Key(x) < Key(y)
    BY <1>2, <1>3, <1>4, <1>5, <1>6, <1>8
<1> QED
    BY <1>7, <1>8 DEF S, x, L, M

(* A continuation and the request it becomes have the same place.          *)
LEMMA BatchTurned ==
    ASSUME TypeInv, BatchInv, agenda # <<>>, ~over, Head(agenda) \in BatchTask,
           NEW y \in Tasks, y \in BatchTask, y.n = Head(agenda).n,
           Key(y) = Key(Head(agenda)), y.t # "result" \/ y = Head(agenda),
           Becomes(BatchTask, y), UNCHANGED <<forwarder, asked, undelivered, inbox>>
    PROVE  BatchInv'
<1> DEFINE S == Served(BatchTask)
           B == Behind(BatchTask)
           x == Head(agenda)
           L == Line(BatchTask)
           M == Line(BatchTask)'
<1>1. S \in Seq(Tasks) /\ B \in Seq(Tasks) /\ x \in Tasks
    BY LineHead, RestTypes
<1>2. L = S \o (<<x>> \o B)
    BY LineHead
<1>3. M = S \o (<<y>> \o B)
    BY DEF Becomes
<1>4. Rising(L)
    BY DEF BatchInv
<1> HIDE DEF S, B, x, L, M
<1>5. /\ Elems(L) = {x} \cup Elems(S \o B)
      /\ Elems(M) = {y} \cup Elems(S \o B)
    BY <1>1, <1>2, <1>3, SplitLen
<1>6. Rising(S \o (<<x>> \o B)) <=>
             /\ Rising(S \o B)
             /\ \A z \in Elems(S) : Key(z) < Key(x)
             /\ \A z \in Elems(B) : Key(x) < Key(z)
    BY <1>1, RisingSplit
<1>7. Rising(S \o (<<y>> \o B)) <=>
             /\ Rising(S \o B)
             /\ \A z \in Elems(S) : Key(z) < Key(y)
             /\ \A z \in Elems(B) : Key(y) < Key(z)
    BY <1>1, RisingSplit
<1>8. Key(y) = Key(x) /\ y.n = x.n
    BY DEF x
<1>9. Rising(M)
    BY <1>2, <1>3, <1>4, <1>6, <1>7, <1>8
<1>10. Open' = Open /\ Position' = Position
    BY DEF Open, Position
<1>11. Forwarded'
    BY <1>5, <1>8, <1>10 DEF BatchInv, Forwarded, L, M
<1>12. AskedLast'
    BY <1>5, <1>8, <1>10 DEF BatchInv, AskedLast, L, M
<1>13. InboxBehind'
    BY <1>10 DEF BatchInv, InboxBehind
<1>14. RefusedGone'
    <2> SUFFICES ASSUME NEW b \in undelivered
                 PROVE  (Open => 2 * b < Position) /\ Task("result", b) \notin Elems(M)
        BY <1>10 DEF RefusedGone, M
    <2>1. (Open => 2 * b < Position) /\ Task("result", b) \notin Elems(L)
        BY DEF BatchInv, RefusedGone, L
    <2>2. Task("result", b).t = "result"
        BY TaskTypes
    <2> QED
        BY <1>5, <2>1, <2>2 DEF x
<1> QED
    BY <1>9, <1>11, <1>12, <1>13, <1>14 DEF BatchInv, M

LEMMA BatchResultArrives ==
    ASSUME TypeInv, BatchInv, ResultArrives, forwarder.batch \in Batch,
           UNCHANGED <<st, agenda, over, asked, undelivered>>
    PROVE  BatchInv'
<1> DEFINE b == forwarder.batch
           x == Task("result", b)
           L == Line(BatchTask)
<1>1. /\ x \in Inputs /\ x \in Tasks /\ x \in BatchTask /\ x.t = "result" /\ x.n = b
      /\ BatchTask \cap Plain = {} /\ b \in Nat
    BY InputNames, BatchTasks, TaskTypes DEF Batch
<1>2. Line(BatchTask)' = Append(L, x)
    BY <1>1, LinePush DEF ResultArrives
<1>3. L \in Seq(Tasks) /\ (\A y \in Elems(L) : Key(y) \in Nat /\ y.n \in Nat)
    BY BatchFacts
<1>4. Open /\ Position = 2 * b /\ Open' /\ Position' = 2 * b + 1 /\ Key(x) = 2 * b
    BY <1>1, BatchFacts DEF ResultArrives, Open, Position, Key, Audio
<1>5. \A y \in Elems(L) : Key(y) < 2 * b
    BY <1>4 DEF BatchInv, Forwarded
<1>6. ~over' => Rising(Line(BatchTask)')
    BY <1>1, <1>2, <1>3, <1>4, <1>5, RisingAppend DEF BatchInv
<1>7. Elems(Append(L, x)) = Elems(L) \cup {x}
    BY <1>1, <1>3, ElemsAppend
<1>8. Forwarded'
    BY <1>1, <1>2, <1>3, <1>4, <1>5, <1>7 DEF Forwarded
<1>9. AskedLast'
    <2> SUFFICES ASSUME NEW c \in Batch, asked[c] > 0
                 PROVE  2 * c + 1 < 2 * b + 1 /\ \A y \in Elems(Append(L, x)) : y.n # c
        BY <1>2, <1>4 DEF AskedLast
    <2>1. 2 * c + 1 < 2 * b /\ \A y \in Elems(L) : y.n # c
        BY <1>4 DEF BatchInv, AskedLast
    <2> QED
        BY <1>1, <1>7, <2>1 DEF Batch
<1>10. InboxBehind'
    <2> SUFFICES ASSUME NEW c \in Elems(inbox) PROVE 2 * c + 1 < 2 * b + 1
        BY <1>4 DEF InboxBehind, ResultArrives
    <2>1. 2 * c + 1 < 2 * b
        BY <1>4 DEF BatchInv, InboxBehind
    <2>2. c \in Nat
        <3>1. inbox \in Seq(Batch)
            BY DEF TypeInv, InputTypes
        <3>2. c \in Batch
            BY <3>1, ElemsType
        <3> QED
            BY <3>2 DEF Batch
    <2> QED
        BY <1>1, <2>1, <2>2
<1>11. RefusedGone'
    <2> SUFFICES ASSUME NEW c \in undelivered
                 PROVE  2 * c < 2 * b + 1 /\ Task("result", c) \notin Elems(Append(L, x))
        BY <1>2, <1>4 DEF RefusedGone
    <2>1. 2 * c < 2 * b /\ Task("result", c) \notin Elems(L)
        BY <1>4 DEF BatchInv, RefusedGone
    <2>2. c \in Nat
        BY DEF TypeInv, HistoryTypes
    <2>3. Task("result", c) # x
        BY <1>1, <2>1, <2>2, TaskTypes
    <2> QED
        BY <1>1, <1>7, <2>1, <2>2, <2>3
<1> QED
    BY <1>6, <1>8, <1>9, <1>10, <1>11 DEF BatchInv

LEMMA BatchContArrives ==
    ASSUME TypeInv, BatchInv, ContArrives, forwarder.batch \in Batch,
           UNCHANGED <<st, agenda, over, asked, undelivered>>
    PROVE  BatchInv'
<1> DEFINE b == forwarder.batch
           x == Task("cont", b)
           L == Line(BatchTask)
<1>1. /\ x \in Inputs /\ x \in Tasks /\ x \in BatchTask /\ x.t = "cont" /\ x.n = b
      /\ BatchTask \cap Plain = {} /\ b \in Nat
    BY InputNames, BatchTasks, TaskTypes DEF Batch
<1>2. Line(BatchTask)' = Append(L, x)
    BY <1>1, LinePush DEF ContArrives
<1>3. L \in Seq(Tasks) /\ (\A y \in Elems(L) : Key(y) \in Nat /\ y.n \in Nat)
    BY BatchFacts
<1>4. Open /\ Position = 2 * b + 1 /\ Open' /\ Position' = 2 * b + 2 /\ Key(x) = 2 * b + 1
    BY <1>1, BatchFacts DEF ContArrives, Open, Position, Key, Audio
<1>5. \A y \in Elems(L) : Key(y) < 2 * b + 1
    BY <1>4 DEF BatchInv, Forwarded
<1>6. ~over' => Rising(Line(BatchTask)')
    BY <1>1, <1>2, <1>3, <1>4, <1>5, RisingAppend DEF BatchInv
<1>7. Elems(Append(L, x)) = Elems(L) \cup {x}
    BY <1>1, <1>3, ElemsAppend
<1>8. Forwarded'
    BY <1>1, <1>2, <1>3, <1>4, <1>5, <1>7 DEF Forwarded
<1>9. AskedLast'
    <2> SUFFICES ASSUME NEW c \in Batch, asked[c] > 0
                 PROVE  2 * c + 1 < 2 * b + 2 /\ \A y \in Elems(Append(L, x)) : y.n # c
        BY <1>2, <1>4 DEF AskedLast
    <2>1. 2 * c + 1 < 2 * b + 1 /\ \A y \in Elems(L) : y.n # c
        BY <1>4 DEF BatchInv, AskedLast
    <2> QED
        BY <1>1, <1>7, <2>1 DEF Batch
<1>10. InboxBehind'
    <2> SUFFICES ASSUME NEW c \in Elems(inbox) PROVE 2 * c + 1 < 2 * b + 2
        BY <1>4 DEF InboxBehind, ContArrives
    <2>1. 2 * c + 1 < 2 * b + 1
        BY <1>4 DEF BatchInv, InboxBehind
    <2>2. c \in Nat
        <3>1. inbox \in Seq(Batch)
            BY DEF TypeInv, InputTypes
        <3>2. c \in Batch
            BY <3>1, ElemsType
        <3> QED
            BY <3>2 DEF Batch
    <2> QED
        BY <1>1, <2>1, <2>2
<1>11. RefusedGone'
    <2> SUFFICES ASSUME NEW c \in undelivered
                 PROVE  2 * c < 2 * b + 2 /\ Task("result", c) \notin Elems(Append(L, x))
        BY <1>2, <1>4 DEF RefusedGone
    <2>1. 2 * c < 2 * b + 1 /\ Task("result", c) \notin Elems(L)
        BY <1>4 DEF BatchInv, RefusedGone
    <2>2. c \in Nat
        BY DEF TypeInv, HistoryTypes
    <2>3. Task("result", c) # x
        BY <1>1, TaskTypes
    <2> QED
        BY <1>1, <1>7, <2>1, <2>2, <2>3
<1> QED
    BY <1>6, <1>8, <1>9, <1>10, <1>11 DEF BatchInv

LEMMA BatchForwards ==
    ASSUME TypeInv, BatchInv, ForwardResult
    PROVE  BatchInv'
<1>0. /\ forwarder.batch \in Batch
      /\ ResultArrives \/ ContArrives \/ RequestArrives \/ ForwarderFails
      /\ UNCHANGED <<st, agenda, over, asked, undelivered>>
    BY ForwardCases DEF sendVars
<1>1. ASSUME UNCHANGED <<st, agenda, ordered>> PROVE Line(BatchTask)' = Line(BatchTask)
    BY <1>1, LineStack
<1>2. CASE RequestArrives
    <2>1. Line(BatchTask)' = Line(BatchTask)
        BY <1>0, <1>1, <1>2 DEF RequestArrives
    <2>2. /\ Open /\ Open' /\ Position = 2 * forwarder.batch + 2
          /\ Position' = Position
        BY <1>2, BatchFacts DEF RequestArrives, Open, Position
    <2>3. Elems(inbox') = Elems(inbox) \cup {forwarder.batch}
        BY <1>0, <1>2, ElemsAppend DEF RequestArrives, TypeInv, InputTypes
    <2>4. InboxBehind'
        <3> SUFFICES ASSUME NEW c \in Elems(inbox') PROVE 2 * c + 1 < Position
            BY <2>2 DEF InboxBehind
        <3>1. CASE c \in Elems(inbox)
            BY <2>2, <3>1 DEF BatchInv, InboxBehind
        <3>2. CASE c = forwarder.batch
            BY <2>2, <3>2, BatchFacts
        <3> QED
            BY <2>3, <3>1, <3>2
    <2>5. Forwarded' /\ AskedLast' /\ RefusedGone'
        BY <1>0, <2>1, <2>2 DEF BatchInv, Forwarded, AskedLast, RefusedGone
    <2> QED
        BY <1>0, <2>1, <2>4, <2>5 DEF BatchInv
<1>3. CASE ForwarderFails
    <2>1. Line(BatchTask)' = Line(BatchTask) /\ inbox' = inbox
        BY <1>0, <1>1, <1>3 DEF ForwarderFails
    <2>2. ~Open'
        BY <1>3, BatchFacts DEF ForwarderFails, Open
    <2> QED
        BY <1>0, <2>1, <2>2 DEF BatchInv, Forwarded, AskedLast, InboxBehind, RefusedGone
<1> QED
    BY <1>0, <1>2, <1>3, BatchResultArrives, BatchContArrives

(* A request is made for a batch of which nothing waits any more.          *)
LEMMA BatchAsks ==
    ASSUME TypeInv, BatchInv, NEW b \in Batch, asked' = [asked EXCEPT ![b] = @ + 1],
           Elems(Line(BatchTask)') \subseteq Elems(Line(BatchTask)),
           ~over' => Rising(Line(BatchTask)'),
           \A x \in Elems(Line(BatchTask)') : x.n # b,
           Open => 2 * b + 1 < Position,
           UNCHANGED <<forwarder, undelivered>>, Elems(inbox') \subseteq Elems(inbox)
    PROVE  BatchInv'
<1>1. Open' = Open /\ Position' = Position
    BY DEF Open, Position
<1>2. Forwarded'
    BY <1>1 DEF BatchInv, Forwarded
<1>3. AskedLast'
    <2> SUFFICES ASSUME NEW c \in Batch, asked'[c] > 0
                 PROVE  /\ Open => 2 * c + 1 < Position
                        /\ \A x \in Elems(Line(BatchTask)') : x.n # c
        BY <1>1 DEF AskedLast
    <2>1. CASE c = b
        BY <2>1
    <2>2. CASE c # b
        <3>1. asked[c] > 0
            BY <2>2 DEF TypeInv, HistoryTypes
        <3> QED
            BY <3>1 DEF BatchInv, AskedLast
    <2> QED
        BY <2>1, <2>2
<1>4. InboxBehind'
    BY <1>1 DEF BatchInv, InboxBehind
<1>5. RefusedGone'
    BY <1>1 DEF BatchInv, RefusedGone
<1> QED
    BY <1>2, <1>3, <1>4, <1>5 DEF BatchInv

(* What is deferred is a commit or a continuation.                         *)
LEMMA ServedConts ==
    ASSUME TypeInv
    PROVE  \A y \in Elems(Served(BatchTask)) : y.t = "cont" /\ Key(y) = 2 * y.n + 1
<1>1. st.deferred \in Seq(Deferrable)
    BY QueueFacts
<1>2. Elems(Served(BatchTask)) = Elems(st.deferred) \cap BatchTask
    BY <1>1, OnlyElems DEF Served
<1>3. Elems(st.deferred) \subseteq Deferrable
    BY <1>1, ElemsType
<1>4. \A y \in Deferrable : y \in BatchTask => y.t = "cont"
    BY BatchTasks, ToolTasks DEF Deferrable
<1>5. \A y \in Elems(Served(BatchTask)) : y.t = "cont"
    BY <1>2, <1>3, <1>4
<1> QED
    BY <1>5 DEF Key, Audio

LEMMA BatchRequests ==
    ASSUME TypeInv, BatchInv, RequestContinuation
    PROVE  BatchInv'
<1> DEFINE b == Head(agenda).n
           x == Head(agenda)
<1>0. /\ agenda # <<>> /\ ~over /\ x.t = "request" /\ b \in Batch /\ x \in Tasks
      /\ UNCHANGED <<forwarder, inbox, undelivered, over>>
    BY RequestStep, RestTypes DEF KeepInput
<1>1. /\ x \in BatchTask /\ BatchTask \cap Plain = {}
      /\ Task("cont", b) \in Tasks /\ Task("cont", b) \in BatchTask
      /\ Task("cont", b).t = "cont" /\ Task("cont", b).n = b
    BY <1>0, BatchTasks, TaskTypes
<1>2. Key(x) = 2 * b + 1 /\ Key(Task("cont", b)) = 2 * b + 1
    BY <1>0, <1>1 DEF Key, Audio
<1>3. CASE UNCHANGED <<toolEvents, asked>> /\ Becomes(BatchTask, Task("cont", b))
    BY <1>0, <1>1, <1>2, <1>3, BatchTurned
<1>4. CASE Asks(b) /\ Gone(BatchTask)
    <2>1. /\ Elems(Line(BatchTask)') \subseteq Elems(Line(BatchTask))
          /\ Rising(Line(BatchTask)')
          /\ x \in Elems(Line(BatchTask))
          /\ \A y \in Elems(Line(BatchTask)') :
                IF y \in Elems(Served(BatchTask)) THEN Key(y) < Key(x) ELSE Key(x) < Key(y)
        BY <1>0, <1>1, <1>4, BatchServed
    <2>2. Open => 2 * b + 1 < Position
        BY <1>2, <2>1 DEF BatchInv, Forwarded
    <2>3. ASSUME NEW y \in Elems(Line(BatchTask)'), y.n = b PROVE FALSE
        <3>1. y \in Tasks /\ b \in Nat
            BY <2>1, BatchFacts, <1>0 DEF Batch
        <3>2. CASE y \in Elems(Served(BatchTask))
            BY <1>2, <2>1, <2>3, <3>1, <3>2, ServedConts
        <3>3. CASE y \notin Elems(Served(BatchTask))
            <4>1. 2 * b + 1 < Key(y)
                BY <1>2, <2>1, <3>3
            <4>2. Key(y) \in {b, 2 * b, 2 * b + 1}
                BY <2>3 DEF Key
            <4> QED
                BY <3>1, <4>1, <4>2
        <3> QED
            BY <3>2, <3>3
    <2>4. asked' = [asked EXCEPT ![b] = @ + 1]
        BY <1>4 DEF Asks
    <2> QED
        BY <1>0, <2>1, <2>2, <2>3, <2>4, BatchAsks
<1> QED
    BY <1>1, <1>3, <1>4, LineSteps

LEMMA BatchResults ==
    ASSUME TypeInv, BatchInv, ForwardToolResult
    PROVE  BatchInv'
<1> DEFINE b == Head(agenda).n
           x == Head(agenda)
<1>0. /\ agenda # <<>> /\ ~over /\ x.t = "result" /\ b \in Batch /\ x \in Tasks
      /\ UNCHANGED <<forwarder, inbox, over, asked>>
      /\ Delivers \/ Refuses(b)
    BY ResultStep DEF KeepInput
<1>1. x \in BatchTask /\ BatchTask \cap Plain = {} /\ Gone(BatchTask)
    BY <1>0, BatchTasks, LineSteps
<1>2. Key(x) = 2 * b /\ b \in Nat
    BY <1>0 DEF Key, Audio, Batch
<1>3. /\ Elems(Line(BatchTask)') \subseteq Elems(Line(BatchTask))
      /\ Rising(Line(BatchTask)')
      /\ x \in Elems(Line(BatchTask))
      /\ \A y \in Elems(Line(BatchTask)') :
            IF y \in Elems(Served(BatchTask)) THEN Key(y) < Key(x) ELSE Key(x) < Key(y)
    BY <1>0, <1>1, BatchServed
<1>4. CASE Delivers
    BY <1>0, <1>3, <1>4, BatchShrinks DEF Delivers
<1>5. CASE Refuses(b)
    <2>1. undelivered' = undelivered \cup {b}
        BY <1>5 DEF Refuses
    <2>2. Open' = Open /\ Position' = Position
        BY <1>0 DEF Open, Position
    <2>3. Forwarded' /\ AskedLast' /\ InboxBehind'
        BY <1>0, <1>3, <2>2 DEF BatchInv, Forwarded, AskedLast, InboxBehind
    <2>4. Open => 2 * b < Position
        BY <1>2, <1>3 DEF BatchInv, Forwarded
    <2>5. Task("result", b) \notin Elems(Line(BatchTask)')
        <3>1. Key(Task("result", b)) = 2 * b
            BY TaskTypes DEF Key, Audio
        <3> QED
            BY <1>2, <1>3, <3>1
    <2>6. RefusedGone'
        BY <1>3, <2>1, <2>2, <2>4, <2>5 DEF BatchInv, RefusedGone
    <2> QED
        BY <1>0, <1>3, <2>3, <2>6 DEF BatchInv
<1> QED
    BY <1>0, <1>4, <1>5

(* The session's end leaves what was not served.                           *)
LEMMA BatchEnds ==
    ASSUME TypeInv, BatchInv, over', agenda' = <<>>, st'.deferred = st.deferred,
           ordered' = ordered, UNCHANGED <<forwarder, asked, undelivered, inbox>>
    PROVE  BatchInv'
<1>1. Elems(Line(BatchTask)') \subseteq Elems(Line(BatchTask))
    BY BatchTasks, LineEnds
<1> QED
    BY <1>1, BatchShrinks

LEMMA BatchStep ==
    ASSUME TypeInv, CountInv, BatchInv, [Next]_vars
    PROVE  BatchInv'
<1>0. BatchTask \cap Plain = {}
    BY BatchTasks
<1> DEFINE L == Line(BatchTask)
<1>1. ASSUME L' = L, UNCHANGED <<over, forwarder, asked, undelivered, inbox>> PROVE BatchInv'
    BY <1>1, BatchShrinks DEF BatchInv
<1>2. CASE IdleStep \/ FlushHeld
    BY <1>0, <1>1, <1>2, IdleSteps, FlushIdles DEF Idles
<1>3. CASE SendAudio
    <2>1. PICK t \in Audio : Push(Task(t, frames + 1))
        BY <1>3 DEF SendAudio
    <2>2. Task(t, frames + 1) \in Inputs /\ Task(t, frames + 1) \in AudioTask
        BY InputNames DEF TypeInv, InputTypes, Task, AudioTask
    <2>3. L' = L
        BY <1>0, <1>3, <2>1, <2>2, LinePush, BatchTasks DEF SendAudio
    <2> QED
        BY <1>1, <1>3, <2>3 DEF SendAudio, sendVars
<1>4. CASE SendAck
    <2>1. Task("ack", 0) \in Inputs
        BY InputNames
    <2>2. L' = L
        BY <1>0, <1>4, <2>1, LinePush, BatchTasks DEF SendAck
    <2> QED
        BY <1>1, <1>4, <2>2 DEF SendAck, sendVars
<1>5. CASE ForwardResult
    BY <1>5, BatchForwards
<1>6. CASE ForwardAudio
    <2>0. /\ agenda # <<>> /\ ~over /\ UNCHANGED <<forwarder, inbox, asked, undelivered>>
          /\ st'.deferred = st.deferred /\ ordered' = ordered
          /\ HoldsFrame \/ SendsFrame \/ LosesSession
        BY <1>6, AudioCases DEF inputVars
    <2>1. CASE LosesSession
        BY <2>0, <2>1, BatchEnds DEF LosesSession
    <2>2. CASE ~over'
        <3>1. Gone(BatchTask)
            BY <1>0, <1>6, <2>2, LineSteps
        <3> QED
            BY <2>0, <3>1, BatchServed, BatchShrinks
    <2> QED
        BY <2>0, <2>1, <2>2 DEF HoldsFrame, SendsFrame
<1>7. CASE ForwardToolResult
    BY <1>7, BatchResults
<1>8. CASE SuppressContinuation \/ ForwardAck
    <2>1. /\ agenda # <<>> /\ ~over /\ UNCHANGED <<forwarder, inbox, asked, undelivered>>
        BY <1>8, SuppressStep, AckStep DEF KeepInput, sendVars
    <2>2. Gone(BatchTask)
        BY <1>0, <1>8, LineSteps
    <2> QED
        BY <2>1, <2>2, BatchServed, BatchShrinks
<1>9. CASE HoldOrSync
    <2>0. /\ agenda # <<>> /\ ~over /\ Head(agenda) \in Tasks
          /\ Head(agenda).t = "cont" /\ Head(agenda).n \in Batch
          /\ UNCHANGED <<forwarder, inbox, asked, undelivered>>
        BY <1>9, HoldStep DEF inputVars, sendVars
    <2>1. /\ Head(agenda) \in BatchTask
          /\ Task("request", Head(agenda).n) \in Tasks
          /\ Task("request", Head(agenda).n) \in BatchTask
          /\ Task("request", Head(agenda).n).t = "request"
          /\ Task("request", Head(agenda).n).n = Head(agenda).n
        BY <2>0, BatchTasks, TaskTypes
    <2>2. Key(Task("request", Head(agenda).n)) = Key(Head(agenda))
        BY <2>0, <2>1 DEF Key, Audio
    <2> QED
        BY <1>0, <1>9, <2>0, <2>1, <2>2, LineSteps, BatchTurned
<1>10. CASE RequestContinuation
    BY <1>10, BatchRequests
<1>11. CASE AwaitRequest
    <2>0. /\ ~over /\ inbox # <<>> /\ Head(inbox) \in Batch /\ inbox' = Tail(inbox)
          /\ UNCHANGED <<over, forwarder, undelivered>>
          /\ L' = L
        BY <1>0, <1>11, InboxStep, LineSteps
    <2>1. /\ Head(inbox) \in Elems(inbox) /\ Elems(inbox') \subseteq Elems(inbox)
        BY <2>0, ElemsTail DEF TypeInv, InputTypes
    <2>2. CASE asked' = asked
        <3>1. Open' = Open /\ Position' = Position
            BY <2>0 DEF Open, Position
        <3> QED
            BY <2>0, <2>1, <2>2, <3>1
               DEF BatchInv, Forwarded, AskedLast, InboxBehind, RefusedGone
    <2>3. CASE toolEvents = 0 /\ asked' = [asked EXCEPT ![Head(inbox)] = @ + 1]
        <3>1. Line(ToolTask) \in Seq(Tasks) /\ Len(Line(ToolTask)) = 0
            BY <2>0, <2>3, LineLen DEF CountInv
        <3>2. Elems(Line(ToolTask)) = {}
            BY <3>1 DEF Elems
        <3>3. Elems(Line(BatchTask)) \subseteq Elems(Line(ToolTask))
            BY PendingLine, BatchTasks
        <3>4. Open => 2 * Head(inbox) + 1 < Position
            BY <2>1 DEF BatchInv, InboxBehind
        <3>5. ~over' => Rising(L')
            BY <2>0 DEF BatchInv
        <3> QED
            BY <2>0, <2>1, <2>3, <3>2, <3>3, <3>4, <3>5, BatchAsks
    <2> QED
        BY <1>11, <2>2, <2>3, InboxStep
<1>12. CASE AwaitEnd
    <2>1. /\ agenda' = <<>> /\ over' /\ st'.deferred = st.deferred
          /\ UNCHANGED <<ordered, forwarder, inbox, asked, undelivered>>
        BY <1>12, EndStep DEF Reports, inputVars, sendVars
    <2> QED
        BY <2>1, BatchEnds
<1> QED
    BY <1>2, <1>3, <1>4, <1>5, <1>6, <1>7, <1>8, <1>9, <1>10, <1>11, <1>12, StepCases

LEMMA BatchHolds ==
    Spec => []BatchInv
<1>1. Init => BatchInv
    <2> SUFFICES ASSUME Init PROVE BatchInv
        OBVIOUS
    <2>1. Line(BatchTask) = <<>>
        BY InitLine, BatchTasks
    <2>2. Elems(Line(BatchTask)) = {} /\ Rising(Line(BatchTask))
        BY <2>1, ElemsSmall, RisingEmpty
    <2>3. inbox = <<>> /\ undelivered = {} /\ \A b \in Batch : asked[b] = 0
        BY DEF Init
    <2>4. Elems(inbox) = {}
        BY <2>3, ElemsSmall
    <2> QED
        BY <2>2, <2>3, <2>4 DEF BatchInv, Forwarded, AskedLast, InboxBehind, RefusedGone
<1>2. TypeInv /\ CountInv /\ BatchInv /\ [Next]_vars => BatchInv'
    BY BatchStep
<1> QED
    BY <1>1, <1>2, TypesHold, CountHolds, PTL DEF Spec

(* Until a batch's result and continuation have left the ingress, the      *)
(* goroutine's calls and the deferred events, no response is requested for *)
(* it: neither by requestContinuation nor, for the coordinator's request,  *)
(* by sendLatestUserText, in whatever order handlers, cancels, messages of *)
(* the provider and the forwarder of the loop are interleaved.             *)
THEOREM ResultsFirst == Spec => []ResultsBeforeRequest
<1>1. ASSUME TypeInv, BatchInv PROVE ResultsBeforeRequest
    <2> SUFFICES ASSUME NEW b \in Batch, asked[b] > 0,
                        NEW i \in DOMAIN Pending, Pending[i] \in ToolTask, Pending[i].n = b
                 PROVE  FALSE
        BY DEF ResultsBeforeRequest
    <2>1. Pending \in Seq(Tasks) /\ Elems(Pending) \cap BatchTask = Elems(Line(BatchTask))
        BY <1>1, PendingLine
    <2>2. Pending[i] \in Elems(Pending) /\ Pending[i] \in Tasks
        BY <2>1 DEF Elems
    <2>3. Pending[i] \in BatchTask
        BY <2>2, BatchTasks
    <2> QED
        BY <1>1, <2>1, <2>2, <2>3 DEF BatchInv, AskedLast
<1> QED
    BY <1>1, TypesHold, BatchHolds, PTL

-----------------------------------------------------------------------------
(* Refused results                                                         *)

LEMMA MayReportKeeps ==
    ASSUME FailuresReported, MayReport, undelivered' = undelivered, over' => over \/ st'.failures = {}
    PROVE  FailuresReported'
<1>1. CASE st'.failures = st.failures /\ reported' = reported
    BY <1>1 DEF FailuresReported
<1>2. CASE st'.failures = {} /\ reported' = reported \cup st.failures
    BY <1>2 DEF FailuresReported
<1> QED
    BY <1>1, <1>2 DEF MayReport

LEMMA ReportedStep ==
    ASSUME TypeInv, BatchInv, FailuresReported, [Next]_vars
    PROVE  FailuresReported'
<1>1. CASE IdleStep \/ FlushHeld
    <2>1. Idles(BatchTask)
        BY <1>1, BatchTasks, IdleSteps, FlushIdles
    <2> QED
        BY <2>1, MayReportKeeps DEF Idles
<1>2. CASE SendAudio \/ SendAck
    <2>1. UNCHANGED <<st, reported, undelivered, over>>
        BY <1>2 DEF SendAudio, SendAck, sendVars
    <2> QED
        BY <2>1, MayReportKeeps DEF MayReport
<1>3. CASE ForwardResult
    <2>1. UNCHANGED <<st, reported, undelivered, over>>
        BY <1>3, ForwardCases DEF sendVars
    <2> QED
        BY <2>1, MayReportKeeps DEF MayReport
<1>4. CASE ForwardAudio
    <2>1. undelivered' = undelivered /\ (HoldsFrame \/ SendsFrame \/ LosesSession)
        BY <1>4, AudioCases
    <2>2. /\ MayReport /\ (over' => over \/ st'.failures = {})
        <3>1. CASE HoldsFrame
            <4>1. UNCHANGED <<over, reported>> /\ st'.failures = st.failures
                BY <3>1 DEF HoldsFrame
            <4> QED
                BY <4>1 DEF MayReport
        <3>2. CASE SendsFrame
            <4>1. UNCHANGED <<over, reported>> /\ st'.failures = st.failures
                BY <3>2 DEF SendsFrame
            <4> QED
                BY <4>1 DEF MayReport
        <3>3. CASE LosesSession
            BY <3>3 DEF LosesSession, MayReport
        <3> QED
            BY <2>1, <3>1, <3>2, <3>3
    <2> QED
        BY <2>1, <2>2, MayReportKeeps
<1>5. CASE ForwardToolResult
    <2> DEFINE b == Head(agenda).n
    <2>0. /\ agenda # <<>> /\ ~over /\ Head(agenda).t = "result" /\ b \in Batch
          /\ Head(agenda) \in Tasks /\ UNCHANGED <<reported, over>>
          /\ Delivers \/ Refuses(b)
        BY <1>5, ResultStep
    <2>1. CASE Delivers
        BY <2>0, <2>1, MayReportKeeps DEF Delivers, MayReport
    <2>2. CASE Refuses(b)
        <3>1. st'.failures = st.failures \cup {b} /\ undelivered' = undelivered \cup {b}
            BY <2>2 DEF Refuses
        <3>2. Gone(BatchTask) /\ Head(agenda) \in BatchTask
            BY <1>5, <2>0, BatchTasks, LineSteps
        <3>3. Head(agenda) \in Elems(Line(BatchTask))
            BY <2>0, <3>2, BatchServed
        <3>4. Head(agenda) = Task("result", b)
            BY <2>0 DEF Tasks, Task
        <3>5. b \notin undelivered
            BY <3>3, <3>4 DEF BatchInv, RefusedGone
        <3> QED
            BY <2>0, <3>1, <3>5 DEF FailuresReported
    <2> QED
        BY <2>0, <2>1, <2>2
<1>6. CASE SuppressContinuation
    <2>1. Reports /\ undelivered' = undelivered
        BY <1>6, SuppressStep DEF sendVars
    <2> QED
        BY <2>1, MayReportKeeps DEF Reports, MayReport
<1>7. CASE HoldOrSync
    <2>1. /\ UNCHANGED <<reported, undelivered, over>> /\ st'.failures = st.failures
        BY <1>7, HoldStep DEF Defers, sendVars
    <2> QED
        BY <2>1, MayReportKeeps DEF MayReport
<1>8. CASE RequestContinuation
    <2>1. /\ UNCHANGED <<reported, undelivered, over>> /\ st'.failures = st.failures
        BY <1>8, RequestStep DEF Defers, Asks, KeepsQueues
    <2> QED
        BY <2>1, MayReportKeeps DEF MayReport
<1>9. CASE ForwardAck
    <2>1. /\ UNCHANGED <<reported, undelivered, over>> /\ st'.failures = st.failures
        BY <1>9, AckStep DEF Acknowledges, KeepsQueues, sendVars
    <2> QED
        BY <2>1, MayReportKeeps DEF MayReport
<1>10. CASE AwaitRequest
    <2>1. UNCHANGED <<reported, undelivered, over, st>>
        BY <1>10, InboxStep
    <2> QED
        BY <2>1, MayReportKeeps DEF MayReport
<1>11. CASE AwaitEnd
    <2>1. Reports /\ undelivered' = undelivered
        BY <1>11, EndStep DEF sendVars
    <2> QED
        BY <2>1, MayReportKeeps DEF Reports, MayReport
<1> QED
    BY <1>1, <1>2, <1>3, <1>4, <1>5, <1>6, <1>7, <1>8, <1>9, <1>10, <1>11, StepCases

(* Every batch whose result the provider refused is, at every moment,      *)
(* either among the failures still to report or among those written to the *)
(* outbox, never both, and none is left when the session is over: each     *)
(* refusal is reported exactly once on the way of a continuation, of a     *)
(* suppressed batch, of a close by the provider or of the session's end.   *)
THEOREM FailuresKept == Spec => []FailuresReported
<1>1. Init => FailuresReported
    BY DEF Init, FailuresReported
<1>2. TypeInv /\ BatchInv /\ FailuresReported /\ [Next]_vars => FailuresReported'
    BY ReportedStep
<1> QED
    BY <1>1, <1>2, TypesHold, BatchHolds, PTL DEF Spec

-----------------------------------------------------------------------------
(* The frames                                                              *)

(* The frames that have not gone to the provider: held ones first.         *)
Left == st.held \o Line(AudioTask)
RunFrom(s, n) == \A i \in 1..Len(s) : s[i].n = n + i
FramesInv ==
    ~over =>
      /\ lastFrame <= frames
      /\ Rising(Left)
      /\ \A x \in Elems(Left) : lastFrame < x.n /\ x.n <= frames
      /\ "audio" \notin scenario.refused =>
            RunFrom(Left, lastFrame) /\ Len(Left) = frames - lastFrame

LEMMA AudioTasks ==
    /\ AudioTask \cap Plain = {} /\ AudioTask \subseteq Tasks
    /\ \A x \in AudioTask : Key(x) = x.n /\ x.n \in Nat
    /\ \A t \in Audio : \A n \in Nat : Task(t, n) \in AudioTask
BY PlainTasks DEF AudioTask, Key, Audio, Tasks, TaskName, Task

(* No frame is deferred.                                                   *)
LEMMA NoFrameDeferred ==
    ASSUME TypeInv
    PROVE  /\ Served(AudioTask) = <<>>
           /\ Line(AudioTask) = Only(agenda, AudioTask) \o Only(ordered, AudioTask)
           /\ Line(AudioTask) \in Seq(AudioTask)
           /\ st.held \in Seq(AudioTask) /\ Left \in Seq(AudioTask)
           /\ st.held \in Seq(Tasks) /\ Line(AudioTask) \in Seq(Tasks) /\ Left \in Seq(Tasks)
<1> DEFINE d == st.deferred
           A == Only(agenda, AudioTask)
           O == Only(ordered, AudioTask)
           none == <<>>
<1>1. d \in Seq(Tasks) /\ d \in Seq(Deferrable) /\ agenda \in Seq(Tasks) /\ ordered \in Seq(Tasks)
      /\ st.held \in Seq(AudioTask)
    BY QueueFacts
<1>2. Elems(d) \cap AudioTask = {}
    <2>1. Elems(d) \subseteq Deferrable
        BY <1>1, ElemsType
    <2>2. Deferrable \cap AudioTask = {}
        BY DEF Deferrable, AudioTask, Audio
    <2> QED
        BY <2>1, <2>2
<1>3. Only(d, AudioTask) = <<>>
    BY <1>1, <1>2, OnlyNone
<1>4. A \in Seq(Tasks) /\ O \in Seq(Tasks)
    BY <1>1, LineType
<1>5. Line(AudioTask) = (none \o A) \o O
    BY <1>3 DEF Line, LineOf
<1>6. Line(AudioTask) \in Seq(Tasks) /\ \A i \in 1..Len(Line(AudioTask)) : Line(AudioTask)[i] \in AudioTask
    <2>1. Line(AudioTask) \in Seq(Tasks)
        BY QueueFacts
    <2>2. Elems(Line(AudioTask)) \subseteq AudioTask
        BY <1>1, LineType DEF Line
    <2> QED
        BY <2>1, <2>2, ElemsType
<1> HIDE DEF A, O, none
<1>7. none \o A = A
    BY <1>4, ConcatSimplifications DEF none
<1>8. Line(AudioTask) \in Seq(AudioTask)
    <2> DEFINE L == Line(AudioTask)
    <2>1. L \in Seq(Tasks) /\ \A i \in 1..Len(L) : L[i] \in AudioTask
        BY <1>6
    <2> HIDE DEF L
    <2>2. L \in Seq(AudioTask)
        BY <2>1
    <2> QED
        BY <2>2 DEF L
<1>9. st.held \o Line(AudioTask) \in Seq(AudioTask)
    BY <1>1, <1>8, ConcatType
<1> QED
    BY <1>1, <1>3, <1>5, <1>6, <1>7, <1>8, <1>9, Widen DEF A, O, Left, Served

LEMMA RunParts ==
    ASSUME NEW s \in Seq(Tasks), NEW t \in Seq(Tasks), NEW n \in Nat
    PROVE  RunFrom(s \o t, n) <=> RunFrom(s, n) /\ RunFrom(t, n + Len(s))
<1> DEFINE q == s \o t
<1>1. /\ q \in Seq(Tasks) /\ Len(q) = Len(s) + Len(t)
      /\ Len(s) \in Nat /\ Len(t) \in Nat
      /\ \A i \in 1..Len(s) : q[i] = s[i]
      /\ \A i \in 1..Len(t) : q[Len(s) + i] = t[i]
    BY ConcatType
<1> HIDE DEF q
<1>2. ASSUME RunFrom(q, n) PROVE RunFrom(s, n) /\ RunFrom(t, n + Len(s))
    <2>1. \A i \in 1..Len(s) : s[i].n = n + i
        BY <1>1, <1>2 DEF RunFrom
    <2>2. ASSUME NEW i \in 1..Len(t) PROVE t[i].n = (n + Len(s)) + i
        <3>1. Len(s) + i \in 1..Len(q)
            BY <1>1
        <3>2. q[Len(s) + i].n = n + (Len(s) + i)
            BY <1>2, <3>1 DEF RunFrom
        <3> QED
            BY <1>1, <3>2
    <2> QED
        BY <2>1, <2>2 DEF RunFrom
<1>3. ASSUME RunFrom(s, n), RunFrom(t, n + Len(s)) PROVE RunFrom(q, n)
    <2> SUFFICES ASSUME NEW i \in 1..Len(q) PROVE q[i].n = n + i
        BY DEF RunFrom
    <2>1. CASE i \in 1..Len(s)
        BY <1>1, <1>3, <2>1 DEF RunFrom
    <2>2. CASE i \notin 1..Len(s)
        <3>1. i - Len(s) \in 1..Len(t) /\ i = Len(s) + (i - Len(s))
            BY <1>1, <2>2
        <3>2. t[i - Len(s)].n = (n + Len(s)) + (i - Len(s))
            BY <1>3, <3>1 DEF RunFrom
        <3> QED
            BY <1>1, <3>1, <3>2
    <2> QED
        BY <2>1, <2>2
<1> QED
    BY <1>2, <1>3 DEF q

(* No frame comes or goes.                                                 *)
LEMMA FramesKeep ==
    ASSUME FramesInv, Line(AudioTask)' = Line(AudioTask), KeepsFrames, ~over' => ~over
    PROVE  FramesInv'
<1>1. Left' = Left
    BY DEF Left, KeepsFrames
<1> QED
    BY <1>1 DEF FramesInv, KeepsFrames

LEMMA FramesAdmit ==
    ASSUME TypeInv, FramesInv, SendAudio
    PROVE  FramesInv'
<1>1. PICK t \in Audio : Push(Task(t, frames + 1))
    BY DEF SendAudio
<1> DEFINE x == Task(t, frames + 1)
           L == Left
<1>2. /\ frames \in Nat /\ lastFrame \in Nat /\ scenario \in Scenario
    BY DEF TypeInv, InputTypes, HistoryTypes
<1>3. /\ x \in Inputs /\ x \in AudioTask /\ x \in Tasks /\ Key(x) = frames + 1 /\ x.n = frames + 1
    BY <1>2, InputNames, AudioTasks, TaskTypes
<1>4. /\ frames' = frames + 1 /\ UNCHANGED <<lastFrame, st, agenda, over>> /\ ~over
      /\ scenario'.refused = scenario.refused
    BY <1>1, <1>2, SpendFields DEF SendAudio, Push, sendVars
<1>5. Line(AudioTask)' = Append(Line(AudioTask), x)
    BY <1>1, <1>3, <1>4, AudioTasks, LinePush
<1>6. Left' = Append(L, x)
    <2> HIDE DEF x
    <2> DEFINE h == st.held
               l == Line(AudioTask)
    <2>1. h \in Seq(Tasks) /\ l \in Seq(Tasks) /\ x \in Tasks
        BY <1>3, NoFrameDeferred
    <2>2. Left' = h \o Append(l, x) /\ Left = h \o l
        BY <1>4, <1>5 DEF Left
    <2> HIDE DEF h, l
    <2>3. h \o Append(l, x) = Append(h \o l, x)
        BY <2>1, AppendConcat
    <2> QED
        BY <2>2, <2>3
<1>7. L \in Seq(Tasks) /\ L \in Seq(AudioTask)
    BY NoFrameDeferred
<1>8. /\ Rising(L) /\ \A y \in Elems(L) : lastFrame < y.n /\ y.n <= frames
      /\ "audio" \notin scenario.refused =>
               RunFrom(L, lastFrame) /\ Len(L) = frames - lastFrame
      /\ lastFrame <= frames
    BY <1>4 DEF FramesInv
<1> HIDE DEF x, L
<1>9. \A y \in Elems(L) : Key(y) < Key(x)
    <2> SUFFICES ASSUME NEW y \in Elems(L) PROVE Key(y) < frames + 1
        BY <1>3
    <2>1. y \in AudioTask
        BY <1>7, ElemsType
    <2>2. Key(y) = y.n /\ y.n \in Nat
        BY <2>1, AudioTasks
    <2>3. y.n <= frames
        BY <1>8
    <2> QED
        BY <1>2, <2>2, <2>3
<1>10. Elems(Append(L, x)) = Elems(L) \cup {x} /\ Rising(Append(L, x))
    BY <1>3, <1>7, <1>8, <1>9, ElemsAppend, RisingAppend
<1>11. \A y \in Elems(Append(L, x)) : lastFrame < y.n /\ y.n <= frames + 1
    <2>1. ASSUME NEW y \in Elems(L) PROVE lastFrame < y.n /\ y.n <= frames + 1
        <3>1. y \in AudioTask
            BY <1>7, ElemsType
        <3>2. y.n \in Nat
            BY <3>1, AudioTasks
        <3>3. lastFrame < y.n /\ y.n <= frames
            BY <1>8
        <3> QED
            BY <1>2, <3>2, <3>3
    <2>2. lastFrame < x.n /\ x.n <= frames + 1
        BY <1>2, <1>3, <1>8
    <2> QED
        BY <1>10, <2>1, <2>2
<1>12. ASSUME "audio" \notin scenario.refused
       PROVE  RunFrom(Append(L, x), lastFrame) /\ Len(Append(L, x)) = (frames + 1) - lastFrame
    <2>1. /\ Len(Append(L, x)) = Len(L) + 1 /\ Len(L) \in Nat
          /\ \A i \in 1..Len(L) : Append(L, x)[i] = L[i]
          /\ Append(L, x)[Len(L) + 1] = x
        BY <1>3, <1>7, AppendType
    <2>2. \A i \in 1..Len(L) : L[i].n = lastFrame + i
        BY <1>8, <1>12 DEF RunFrom
    <2>3. Len(L) = frames - lastFrame
        BY <1>8, <1>12
    <2>4. x.n = lastFrame + (Len(L) + 1)
        BY <1>2, <1>3, <2>3
    <2>5. \A i \in 1..Len(Append(L, x)) : Append(L, x)[i].n = lastFrame + i
        BY <2>1, <2>2, <2>4
    <2> QED
        BY <1>2, <2>1, <2>3, <2>5 DEF RunFrom
<1> QED
    BY <1>2, <1>4, <1>6, <1>8, <1>10, <1>11, <1>12 DEF FramesInv

(* The next frame is held, which leaves the order as it is, or goes after  *)
(* the held ones.                                                          *)
LEMMA FramesNext ==
    ASSUME TypeInv, agenda # <<>>, Head(agenda) \in AudioTask
    PROVE  /\ Behind(AudioTask) \in Seq(Tasks) /\ Head(agenda) \in Tasks
           /\ Line(AudioTask) = <<Head(agenda)>> \o Behind(AudioTask)
           /\ Gone(AudioTask) => Line(AudioTask)' = Behind(AudioTask)
           /\ Left = st.held \o (<<Head(agenda)>> \o Behind(AudioTask))
           /\ Left = Append(st.held, Head(agenda)) \o Behind(AudioTask)
<1> DEFINE x == Head(agenda)
           B == Behind(AudioTask)
           h == st.held
           none == <<>>
           X == <<x>>
           q == X \o B
<1>1. x \in Tasks /\ B \in Seq(Tasks) /\ h \in Seq(Tasks)
    BY RestTypes, LineHead, NoFrameDeferred
<1>2. Line(AudioTask) = none \o q /\ (Gone(AudioTask) => Line(AudioTask)' = none \o B)
    BY LineHead, NoFrameDeferred DEF Gone
<1>3. Left = h \o Line(AudioTask)
    BY DEF Left
<1>4. X \in Seq(Tasks)
    BY <1>1, SingletonType
<1> HIDE DEF x, B, h, none, X
<1>5. q \in Seq(Tasks)
    BY <1>1, <1>4, ConcatType
<1>6. none \o B = B /\ h \o X = Append(h, x)
    <2>1. none \o B = B
        BY <1>1, ConcatSimplifications DEF none
    <2>2. h \o X = Append(h, x)
        BY <1>1, AppendIsConcat DEF X
    <2> QED
        BY <2>1, <2>2
<1>7. (h \o X) \o B = h \o (X \o B)
    BY <1>1, <1>4, ConcatAssociative
<1> HIDE DEF q
<1>8. none \o q = q
    BY <1>5, ConcatSimplifications DEF none
<1> QED
    BY <1>1, <1>2, <1>3, <1>6, <1>7, <1>8 DEF q, X, x, B, h

(* What is left after the first frames went: s went, t is left.            *)
LEMMA FramesGo ==
    ASSUME TypeInv, NEW s \in Seq(Tasks), NEW t \in Seq(Tasks), s \o t = Left, FramesInv, ~over,
           NEW last \in Nat, last = IF Len(s) > 0 THEN s[Len(s)].n ELSE lastFrame,
           Elems(s) \subseteq AudioTask, Elems(t) \subseteq AudioTask
    PROVE  /\ last <= frames /\ Rising(t)
           /\ \A x \in Elems(t) : last < x.n /\ x.n <= frames
           /\ "audio" \notin scenario.refused => RunFrom(t, last) /\ Len(t) = frames - last
<1>1. /\ frames \in Nat /\ lastFrame \in Nat /\ Len(s) \in Nat /\ Len(t) \in Nat
    BY DEF TypeInv, InputTypes, HistoryTypes
<1>2. Rising(s) /\ Rising(t) /\ \A x \in Elems(s), y \in Elems(t) : Key(x) < Key(y)
    BY RisingParts DEF FramesInv
<1>3. Elems(Left) = Elems(s) \cup Elems(t) /\ Len(Left) = Len(s) + Len(t)
    <2>1. Elems(s \o t) = Elems(s) \cup Elems(t)
        BY ZenonT(60), ElemsConcat
    <2>2. Len(s \o t) = Len(s) + Len(t)
        BY ConcatType
    <2> QED
        BY <2>1, <2>2
<1>4. \A x \in Elems(s) \cup Elems(t) : lastFrame < x.n /\ x.n <= frames
    BY <1>3 DEF FramesInv
<1>5. \A x \in Elems(s) \cup Elems(t) : Key(x) = x.n /\ x.n \in Nat
    BY AudioTasks
<1>6. CASE Len(s) = 0
    <2>1. last = lastFrame
        BY <1>6
    <2>2. "audio" \notin scenario.refused => RunFrom(t, last) /\ Len(t) = frames - last
        <3> SUFFICES ASSUME "audio" \notin scenario.refused
                     PROVE  RunFrom(t, last) /\ Len(t) = frames - last
            OBVIOUS
        <3>1. RunFrom(s \o t, lastFrame) /\ Len(Left) = frames - lastFrame
            BY DEF FramesInv
        <3>2. RunFrom(t, lastFrame + Len(s))
            BY <1>1, <3>1, RunParts
        <3>3. lastFrame + Len(s) = last
            BY <1>1, <1>6, <2>1
        <3> QED
            BY <1>1, <1>3, <1>6, <2>1, <3>1, <3>2, <3>3
    <2> QED
        BY <1>2, <1>4, <2>1, <2>2 DEF FramesInv
<1>7. CASE Len(s) > 0
    <2> DEFINE x == s[Len(s)]
    <2>1. x \in Elems(s) /\ last = x.n
        BY <1>1, <1>7, ElemsType
    <2> HIDE DEF x
    <2>2. last <= frames /\ last \in Nat
        BY <1>4, <1>5, <2>1
    <2>3. \A y \in Elems(t) : last < y.n /\ y.n <= frames
        BY <1>2, <1>4, <1>5, <2>1
    <2>4. "audio" \notin scenario.refused => RunFrom(t, last) /\ Len(t) = frames - last
        <3> SUFFICES ASSUME "audio" \notin scenario.refused
                     PROVE  RunFrom(t, last) /\ Len(t) = frames - last
            OBVIOUS
        <3>1. RunFrom(s \o t, lastFrame) /\ Len(Left) = frames - lastFrame
            BY DEF FramesInv
        <3>2. RunFrom(s, lastFrame) /\ RunFrom(t, lastFrame + Len(s))
            BY <1>1, <3>1, RunParts
        <3>3. x.n = lastFrame + Len(s)
            BY <1>1, <1>7, <3>2 DEF RunFrom, x
        <3>4. last = lastFrame + Len(s)
            BY <2>1, <3>3
        <3>5. Len(s) + Len(t) = frames - lastFrame
            BY <1>3, <3>1
        <3>6. Len(t) = frames - last
            BY <1>1, <3>4, <3>5
        <3> QED
            BY <3>2, <3>4, <3>6
    <2> QED
        BY <1>2, <2>2, <2>3, <2>4
<1> QED
    BY <1>1, <1>6, <1>7

LEMMA EmptyHeld ==
    ASSUME NEW t \in Seq(Tasks)
    PROVE  <<>> \o t = t
BY ConcatSimplifications

LEMMA FramesServed ==
    ASSUME TypeInv, FramesInv, ForwardAudio
    PROVE  FramesInv'
<1> DEFINE x == Head(agenda)
           B == Behind(AudioTask)
           h == st.held
<1>0. /\ agenda # <<>> /\ ~over /\ x \in AudioTask /\ frames' = frames
      /\ HoldsFrame \/ SendsFrame \/ LosesSession
      /\ frames \in Nat
    BY AudioCases DEF inputVars, TypeInv, InputTypes
<1>1. /\ B \in Seq(Tasks) /\ x \in Tasks
      /\ Left = Append(h, x) \o B
      /\ Gone(AudioTask) => Line(AudioTask)' = B
    BY <1>0, FramesNext
<1>2. ~over' => Line(AudioTask)' = B
    BY <1>1, AudioTasks, LineSteps
<1>3. h \in Seq(AudioTask) /\ h \in Seq(Tasks)
    BY NoFrameDeferred
<1>4. CASE HoldsFrame
    <2>1. /\ UNCHANGED <<scenario, over, lastFrame>> /\ st'.held = Append(h, x)
        BY <1>4 DEF HoldsFrame
    <2>2. Left' = Left
        BY <1>0, <1>1, <1>2, <2>1 DEF Left
    <2> QED
        BY <1>0, <2>1, <2>2 DEF FramesInv
<1>5. CASE SendsFrame
    <2>1. /\ UNCHANGED <<scenario, over>> /\ st'.held = <<>> /\ lastFrame' = x.n
        BY <1>5 DEF SendsFrame
    <2>2. Left' = B
        BY <1>0, <1>1, <1>2, <2>1, EmptyHeld DEF Left
    <2> DEFINE s == Append(h, x)
    <2>3. s \in Seq(AudioTask) /\ Len(s) = Len(h) + 1 /\ s[Len(s)] = x /\ Len(h) \in Nat
        BY <1>0, <1>3, AppendType
    <2>4. s \in Seq(Tasks) /\ Elems(s) \subseteq AudioTask
        BY <2>3, Widen, ElemsType
    <2>5. s \o B = Left
        BY <1>1
    <2>6. Elems(B) \subseteq AudioTask
        <3>1. Elems(B) = (Elems(Rest) \cap AudioTask) \cup (Elems(ordered) \cap AudioTask)
            <4>1. Rest \in Seq(Tasks) /\ ordered \in Seq(Tasks)
                BY <1>0, RestTypes, QueueFacts
            <4>2. /\ Only(Rest, AudioTask) \in Seq(Tasks) /\ Only(ordered, AudioTask) \in Seq(Tasks)
                BY <4>1, OnlyType
            <4>3. /\ Elems(Only(Rest, AudioTask)) = Elems(Rest) \cap AudioTask
                  /\ Elems(Only(ordered, AudioTask)) = Elems(ordered) \cap AudioTask
                BY <4>1, OnlyElems
            <4> QED
                BY <4>2, <4>3, ElemsConcat DEF Behind
        <3> QED
            BY <3>1
    <2> HIDE DEF s, B
    <2>7. x.n \in Nat /\ x.n = IF Len(s) > 0 THEN s[Len(s)].n ELSE lastFrame
        BY <1>0, <2>3, AudioTasks
    <2>8. /\ x.n <= frames /\ Rising(B)
          /\ \A y \in Elems(B) : x.n < y.n /\ y.n <= frames
          /\ "audio" \notin scenario.refused => RunFrom(B, x.n) /\ Len(B) = frames - x.n
        BY <1>0, <1>1, <2>4, <2>5, <2>6, <2>7, FramesGo
    <2> QED
        BY <1>0, <2>1, <2>2, <2>8 DEF FramesInv
<1>6. CASE LosesSession
    BY <1>6 DEF LosesSession, FramesInv
<1> QED
    BY <1>0, <1>4, <1>5, <1>6

(* flushHeldAudio: the provider takes k of the held frames, the rest is    *)
(* lost with the send that failed.                                         *)
LEMMA FramesFlushed ==
    ASSUME TypeInv, FramesInv, FlushHeld
    PROVE  FramesInv'
<1> DEFINE h == st.held
           L == Line(AudioTask)
<1>0. /\ ~over /\ st'.held = <<>> /\ UNCHANGED <<over, frames>>
      /\ frames \in Nat /\ lastFrame \in Nat
      /\ scenario.refused \in SUBSET {"audio", "result", "cont", "cancel"}
    BY FlushStep DEF inputVars, TypeInv, InputTypes, HistoryTypes, Scenario
<1>1. L' = L
    BY AudioTasks, FlushIdles DEF Idles
<1>2. PICK k \in 0..Len(h) :
         /\ lastFrame' = IF k > 0 THEN h[k].n ELSE lastFrame
         /\ scenario'.refused = IF k = Len(h) THEN scenario.refused
                                ELSE scenario.refused \cup {"audio"}
    BY FlushStep
<1>3. /\ h \in Seq(AudioTask) /\ h \in Seq(Tasks) /\ L \in Seq(Tasks) /\ L \in Seq(AudioTask)
      /\ Left = h \o L
    BY NoFrameDeferred DEF Left
<1>4. Left' = L
    BY <1>0, <1>1, <1>3, EmptyHeld DEF Left
<1>5. Elems(h) \subseteq AudioTask /\ Elems(L) \subseteq AudioTask /\ Len(h) \in Nat
    BY <1>3, ElemsType
<1> HIDE DEF h, L
<1>6. \A x \in AudioTask : x.n \in Nat /\ Key(x) = x.n
    BY AudioTasks
<1>7. CASE k = Len(h)
    <2> DEFINE last == IF Len(h) > 0 THEN h[Len(h)].n ELSE lastFrame
    <2>1. lastFrame' = last /\ scenario'.refused = scenario.refused
        BY <1>2, <1>7
    <2>2. last \in Nat
        BY <1>0, <1>3, <1>5, <1>6, ElemsType
    <2> HIDE DEF last
    <2>3. /\ last <= frames /\ Rising(L)
          /\ \A x \in Elems(L) : last < x.n /\ x.n <= frames
          /\ "audio" \notin scenario.refused => RunFrom(L, last) /\ Len(L) = frames - last
        BY <1>0, <1>3, <1>5, <2>2, FramesGo DEF last
    <2> QED
        BY <1>0, <1>4, <2>1, <2>3 DEF FramesInv
<1>8. CASE k # Len(h)
    <2>1. "audio" \in scenario'.refused
        BY <1>2, <1>8
    <2>2. /\ Rising(h) /\ Rising(L)
          /\ \A x \in Elems(h), y \in Elems(L) : Key(x) < Key(y)
        BY <1>0, <1>3, RisingParts DEF FramesInv
    <2>3. Elems(Left) = Elems(h) \cup Elems(L)
        BY <1>3, ElemsConcat
    <2>4. /\ \A x \in Elems(h) \cup Elems(L) : lastFrame < x.n /\ x.n <= frames
          /\ lastFrame <= frames
        BY <1>0, <2>3 DEF FramesInv
    <2>5. lastFrame' <= frames /\ \A y \in Elems(L) : lastFrame' < y.n /\ y.n <= frames
        <3>1. CASE k = 0
            BY <1>2, <2>4, <3>1
        <3>2. CASE k # 0
            <4>1. k \in 1..Len(h) /\ lastFrame' = h[k].n
                BY <1>2, <1>5, <3>2
            <4>2. h[k] \in Elems(h)
                BY <1>3, <4>1, ElemsType
            <4> DEFINE x == h[k]
            <4>3. x \in Elems(h) /\ lastFrame' = x.n
                BY <4>1, <4>2
            <4> HIDE DEF x
            <4>4. \A y \in Elems(L) : x.n < y.n
                BY <1>5, <1>6, <2>2, <4>3
            <4> QED
                BY <2>4, <4>3, <4>4
        <3> QED
            BY <3>1, <3>2
    <2> QED
        BY <1>0, <1>4, <2>1, <2>2, <2>5 DEF FramesInv
<1> QED
    BY <1>7, <1>8

LEMMA FramesStep ==
    ASSUME TypeInv, FramesInv, [Next]_vars
    PROVE  FramesInv'
<1>0. /\ AudioTask \cap Plain = {}
      /\ \A x \in Tasks : x.t \in {"result", "cont", "request", "ack"} => x \notin AudioTask
      /\ scenario \in Scenario
    BY AudioTasks DEF AudioTask, Audio, TypeInv, InputTypes
<1> DEFINE L == Line(AudioTask)
<1>1. CASE IdleStep
    BY <1>0, <1>1, IdleSteps, FramesKeep DEF Idles
<1>2. CASE FlushHeld
    BY <1>2, FramesFlushed
<1>3. CASE SendAudio
    BY <1>3, FramesAdmit
<1>4. CASE SendAck
    <2>1. /\ Task("ack", 0) \in Inputs /\ Task("ack", 0) \notin AudioTask
        BY <1>0, InputNames, TaskTypes
    <2>2. L' = L
        BY <1>0, <1>4, <2>1, LinePush DEF SendAck
    <2>3. scenario'.refused = scenario.refused
        BY <1>0, <1>4 DEF SendAck, Scenario
    <2> QED
        BY <1>4, <2>2, <2>3, FramesKeep DEF SendAck, KeepsFrames, sendVars
<1>5. CASE ForwardResult
    <2>0. /\ forwarder.batch \in Batch
          /\ ResultArrives \/ ContArrives \/ RequestArrives \/ ForwarderFails
          /\ UNCHANGED <<frames, agenda, st, over, sendVars>>
          /\ scenario'.refused = scenario.refused
        BY <1>5, ForwardCases
    <2>1. KeepsFrames
        BY <2>0 DEF KeepsFrames, sendVars
    <2>2. CASE ResultArrives \/ ContArrives
        <3>1. /\ Task("result", forwarder.batch) \in Inputs
              /\ Task("cont", forwarder.batch) \in Inputs
              /\ Task("result", forwarder.batch) \notin AudioTask
              /\ Task("cont", forwarder.batch) \notin AudioTask
            BY <1>0, <2>0, InputNames, TaskTypes
        <3>2. L' = L
            BY <1>0, <2>0, <2>2, <3>1, LinePush DEF ResultArrives, ContArrives
        <3> QED
            BY <2>0, <2>1, <3>2, FramesKeep
    <2>3. CASE RequestArrives \/ ForwarderFails
        <3>1. L' = L
            BY <2>0, <2>3, LineStack DEF RequestArrives, ForwarderFails
        <3> QED
            BY <2>0, <2>1, <3>1, FramesKeep
    <2> QED
        BY <2>0, <2>2, <2>3
<1>6. CASE ForwardAudio
    BY <1>6, FramesServed
<1>7. ASSUME agenda # <<>>, Head(agenda) \notin AudioTask, Gone(AudioTask) PROVE L' = L
    BY <1>7, LineHead DEF Gone
<1>8. ASSUME agenda # <<>>, Head(agenda) \notin AudioTask, NEW y, y \notin AudioTask,
             Becomes(AudioTask, y)
      PROVE  L' = L
    BY <1>8, LineHead DEF Becomes
<1>9. CASE ForwardToolResult
    <2>1. /\ agenda # <<>> /\ Head(agenda) \notin AudioTask /\ UNCHANGED <<frames, lastFrame, over>>
          /\ st'.held = st.held /\ scenario.refused \subseteq scenario'.refused
        BY <1>0, <1>9, ResultStep DEF KeepInput, Delivers, Refuses
    <2> QED
        BY <1>0, <1>7, <1>9, <2>1, LineSteps, FramesKeep DEF KeepsFrames
<1>10. CASE SuppressContinuation
    <2>1. /\ agenda # <<>> /\ Head(agenda) \notin AudioTask
          /\ UNCHANGED <<frames, lastFrame, over, scenario>> /\ st'.held = st.held
        BY <1>0, <1>10, SuppressStep, RestTypes DEF KeepInput, Reports, sendVars
    <2> QED
        BY <1>0, <1>7, <1>10, <2>1, LineSteps, FramesKeep DEF KeepsFrames
<1>11. CASE ForwardAck
    <2>1. /\ agenda # <<>> /\ Head(agenda) \notin AudioTask
          /\ UNCHANGED <<frames, lastFrame, over, scenario>> /\ st'.held = st.held
        BY <1>0, <1>11, AckStep, RestTypes DEF KeepInput, Acknowledges, KeepsQueues, sendVars
    <2> QED
        BY <1>0, <1>7, <1>11, <2>1, LineSteps, FramesKeep DEF KeepsFrames
<1>12. CASE HoldOrSync
    <2>1. /\ agenda # <<>> /\ Head(agenda) \notin AudioTask
          /\ Task("request", Head(agenda).n) \notin AudioTask
          /\ UNCHANGED <<frames, lastFrame, over, scenario>> /\ st'.held = st.held
        BY <1>0, <1>12, HoldStep, TaskTypes DEF Defers, inputVars, sendVars
    <2>2. L' = L
        BY <1>0, <1>8, <1>12, <2>1, LineSteps
    <2> QED
        BY <2>1, <2>2, FramesKeep DEF KeepsFrames
<1>13. CASE RequestContinuation
    <2>1. /\ agenda # <<>> /\ Head(agenda) \notin AudioTask
          /\ Task("cont", Head(agenda).n) \notin AudioTask
          /\ UNCHANGED <<frames, lastFrame, over>> /\ st'.held = st.held
          /\ scenario.refused \subseteq scenario'.refused
        BY <1>0, <1>13, RequestStep, RestTypes, TaskTypes DEF Defers, Asks, KeepsQueues, KeepInput
    <2>2. L' = L
        BY <1>0, <1>7, <1>8, <1>13, <2>1, LineSteps
    <2> QED
        BY <2>1, <2>2, FramesKeep DEF KeepsFrames
<1>14. CASE AwaitRequest
    <2>1. UNCHANGED <<frames, lastFrame, over, scenario, st>>
        BY <1>14, InboxStep
    <2> QED
        BY <1>0, <1>14, <2>1, LineSteps, FramesKeep DEF KeepsFrames
<1>15. CASE AwaitEnd
    BY <1>15, EndStep DEF FramesInv
<1> QED
    BY <1>1, <1>2, <1>3, <1>4, <1>5, <1>6, <1>9, <1>10, <1>11, <1>12, <1>13, <1>14, <1>15,
       StepCases

LEMMA FramesHold ==
    Spec => []FramesInv
<1>1. Init => FramesInv
    <2> SUFFICES ASSUME Init PROVE FramesInv
        OBVIOUS
    <2>1. Line(AudioTask) = <<>> /\ st.held = <<>>
        BY InitLine, AudioTasks DEF Init
    <2>2. Left = <<>>
        BY <2>1, EmptyPath DEF Left
    <2>3. Elems(Left) = {} /\ Rising(Left) /\ Len(Left) = 0
        BY <2>2, ElemsSmall, RisingEmpty
    <2>4. frames = 0 /\ lastFrame = 0
        BY DEF Init
    <2> QED
        BY <2>3, <2>4 DEF FramesInv, RunFrom
<1>2. TypeInv /\ FramesInv /\ [Next]_vars => FramesInv'
    BY FramesStep
<1> QED
    BY <1>1, <1>2, TypesHold, PTL DEF Spec

(* Through barge-in holds, releases, flushes and timeouts the frames that  *)
(* wait are in admission order behind the last one the provider took, and  *)
(* while no audio send was refused none is missing between them.           *)
THEOREM FramesInOrder == Spec => []AudioInOrder
<1>1. ASSUME TypeInv, FramesInv PROVE AudioInOrder
    <2> DEFINE l == st.held \o Only(agenda \o ordered, AudioTask)
    <2>1. l = Left /\ l \in Seq(AudioTask)
        <3>1. agenda \in Seq(Tasks) /\ ordered \in Seq(Tasks)
            BY <1>1, QueueFacts
        <3>2. Only(agenda \o ordered, AudioTask)
                = Only(agenda, AudioTask) \o Only(ordered, AudioTask)
            BY <3>1, OnlyConcat
        <3> QED
            BY <1>1, <3>2, NoFrameDeferred DEF Left
    <2> SUFFICES ASSUME ~over
                 PROVE  /\ \A i \in 1..Len(l) - 1 : l[i].n < l[i + 1].n
                        /\ l # <<>> => lastFrame < l[1].n
                        /\ "audio" \notin scenario.refused => Len(l) = frames - lastFrame
        BY DEF AudioInOrder
    <2> HIDE DEF l
    <2>2. /\ Rising(l) /\ \A x \in Elems(l) : lastFrame < x.n /\ x.n <= frames
          /\ "audio" \notin scenario.refused => Len(l) = frames - lastFrame
        BY <1>1, <2>1 DEF FramesInv
    <2>3. Len(l) \in Nat /\ \A i \in 1..Len(l) : l[i] \in AudioTask /\ l[i] \in Elems(l)
        BY <2>1, ElemsType
    <2>4. \A i \in 1..Len(l) : Key(l[i]) = l[i].n
        BY <2>3, AudioTasks
    <2>5. ASSUME NEW i \in 1..Len(l) - 1 PROVE l[i].n < l[i + 1].n
        <3>1. i \in 1..Len(l) /\ i + 1 \in 1..Len(l) /\ i < i + 1
            BY <2>3
        <3> QED
            BY <2>2, <2>4, <3>1 DEF Rising
    <2>6. ASSUME l # <<>> PROVE lastFrame < l[1].n
        <3>1. 1 \in 1..Len(l)
            BY <2>1, <2>3, <2>6
        <3> QED
            BY <2>2, <2>3, <3>1
    <2> QED
        BY <2>2, <2>5, <2>6
<1> QED
    BY <1>1, TypesHold, FramesHold, PTL

-----------------------------------------------------------------------------
(* The steps by what they do to the response lifecycle                     *)

(* A message of the provider is taken from Receive.                        *)
Hears ==
    /\ receive # <<>>
    /\ \E next \in Seq(Tasks) : ObserveMessage(next)

(* The lifecycle is left alone; what is deferred waits for something.      *)
Lives ==
    /\ SameLife(st, st') /\ UNCHANGED <<cut, cancels>>
    /\ st'.deferred = st.deferred \/ InFlight(st) \/ AckOutstanding(st)

(* A cancel of the current response is sent.                               *)
Cuts ==
    /\ NotesCancel(st, st') /\ cut' = cut \cup ({st.r} \ {0})
    /\ \/ cancels' = cancels
       \/ /\ CancelTarget(st)
          /\ cancels' = IF st.r = 0 THEN cancels ELSE [cancels EXCEPT ![st.r] = @ + 1]
    /\ st'.deferred = st.deferred

(* A continuation is requested, or the request refused.                    *)
Continues ==
    /\ ~InFlight(st) /\ st'.cont \in {"requested", st.cont}
    /\ st'.phase = st.phase /\ st'.r = st.r /\ st'.ack = st.ack
    /\ st'.ledger = st.ledger /\ st'.closed = st.closed
    /\ st'.deferred = st.deferred /\ UNCHANGED <<cut, cancels>>

(* An acknowledgement is requested.                                        *)
Acks ==
    /\ ForwardAck /\ ~InFlight(st) /\ ~AckOutstanding(st) /\ Acknowledges
    /\ UNCHANGED <<cut, cancels>>

LEMMA RunnerFacts ==
    ASSUME TypeInv
    PROVE  /\ st \in State /\ st.r \in 0..Len(origin) /\ Len(origin) \in Nat
           /\ (st.r # 0 => st.r \in 1..Len(origin) /\ st.r \in Response)
           /\ (InFlight(st) <=> st.r # 0)
           /\ st.ack \in {"none", "outstanding", "cancelled"}
           /\ st.cont \in {"none", "requested", "tagged", "guessed"}
           /\ cancels \in [Response -> Nat] /\ st.closed \in BOOLEAN
           /\ Len(origin) <= MaxResponses
<1>1. /\ st \in State /\ st.ack # "ended" /\ st.cont # "ended" /\ st.r <= Len(origin)
      /\ (InFlight(st) <=> st.r # 0)
    BY DEF TypeInv, RunnerTypes, Steady
<1>2. Len(origin) \in Nat /\ Len(origin) <= MaxResponses /\ cancels \in [Response -> Nat]
    BY DEF TypeInv, ProviderTypes, HistoryTypes
<1>3. /\ st.r \in Nat /\ st.ack \in Acknowledgement \cup {"ended"}
      /\ st.cont \in Continuation \cup {"ended"} /\ st.closed \in BOOLEAN
    BY <1>1 DEF State
<1>4. st.r # 0 => st.r \in 1..Len(origin) /\ st.r \in Response
    BY <1>1, <1>2, <1>3, SessionAssumption DEF Response
<1> QED
    BY <1>1, <1>2, <1>3, <1>4 DEF Acknowledgement, Continuation

Handles ==
    /\ UNCHANGED <<prov, origin, receive, leaked>>
    /\ Lives \/ Cuts \/ Continues \/ Acks
    /\ wire' = wire \/ \E q \in Wired : /\ wire' = Append(wire, q)
                                        /\ q.r # 0 => cancels'[q.r] # 0

LEMMA HandlesNothing ==
    ASSUME UNCHANGED <<provVars, st, cut, cancels, leaked>>
    PROVE  Handles
BY DEF Handles, Lives, SameLife, provVars

LEMMA CallerLife ==
    ASSUME TypeInv, SendAudio \/ SendControl \/ SendAck \/ ForwardResult
    PROVE  Handles /\ SameProvider
<1>1. UNCHANGED <<provVars, st, sendVars, leaked>>
    BY DEF SendAudio, SendControl, SendAck, ForwardResult
<1> QED
    BY <1>1, HandlesNothing, AudioTypes, ControlTypes, AckTypes, ForwardTypes DEF sendVars

LEMMA ReadLife ==
    ASSUME TypeInv, Reads
    PROVE  (Hears \/ Handles) /\ UNCHANGED scenario
<1>1. UNCHANGED scenario
    BY ReadsKeep
<1>2. CASE receive # <<>> /\ (ObserveMessage(agenda) \/ ObserveMessage(Loop))
    BY <1>1, <1>2, HandlerFacts, IdleLoop DEF Hears
<1>3. CASE \/ Return \/ TakeCancel(agenda) \/ TakeInput(agenda) \/ TakeInput(Loop)
           \/ ReleaseExpired \/ AwaitCancel \/ AwaitExpiry
    <2>1. UNCHANGED <<provVars, st, sendVars, leaked>>
        BY <1>3 DEF Return, TakeCancel, TakeInput, ReleaseExpired, AwaitCancel, AwaitExpiry
    <2> QED
        BY <1>1, <2>1, HandlesNothing DEF sendVars
<1>4. \/ receive # <<>> /\ (ObserveMessage(agenda) \/ ObserveMessage(Loop))
      \/ Return \/ TakeCancel(agenda) \/ TakeInput(agenda) \/ TakeInput(Loop)
      \/ ReleaseExpired \/ AwaitCancel \/ AwaitExpiry
    <2>1. ForwardPendingInputs =>
            \/ receive # <<>> /\ ObserveMessage(agenda)
            \/ TakeCancel(agenda) \/ TakeInput(agenda) \/ Return
        BY DEF ForwardPendingInputs
    <2> QED
        BY <2>1 DEF Reads, ForwardPendingMessages, AwaitMessage, AwaitInput
<1> QED
    BY <1>1, <1>2, <1>3, <1>4

LEMMA HandlerLife ==
    ASSUME TypeInv, \/ ForwardAudio \/ FlushHeld \/ Events \/ Report \/ AwaitRequest \/ AwaitEnd
    PROVE  Handles /\ SameProvider /\ scenario'.acked = scenario.acked
<1> USE RequestTypes, WiredTypes
<1>1. CASE ForwardAudio
    <2>1. /\ UNCHANGED <<prov, origin, receive, leaked>> /\ st'.deferred = st.deferred
          /\ \/ CancelTarget(st) /\ CancelCurrent /\ NotesCancel(st, st')
             \/ SameLife(st, st') /\ UNCHANGED <<cancels, cut, wire>>
          /\ SameProvider /\ scenario'.acked = scenario.acked
        BY <1>1, AudioCases
    <2>2. CASE CancelTarget(st) /\ CancelCurrent /\ NotesCancel(st, st')
        <3>1. Cuts /\ wire' = Append(wire, Msg("cancel", st.r))
            BY <2>1, <2>2 DEF CancelCurrent, Cuts
        <3>2. /\ cancels \in [Response -> Nat] /\ st.r \in {0} \cup Response
            BY RunnerFacts
        <3>3. Msg("cancel", st.r) \in Wired /\ Msg("cancel", st.r).r = st.r
            BY <3>2 DEF Msg, Wired
        <3>4. st.r # 0 => cancels'[st.r] # 0
            BY <2>2, <3>2 DEF CancelCurrent
        <3> QED
            BY <2>1, <3>1, <3>3, <3>4 DEF Handles
    <2> QED
        BY <2>1, <2>2 DEF Handles, Lives
<1>2. CASE FlushHeld
    BY <1>2, FlushStep DEF Handles, Lives, provVars
<1>3. CASE ForwardCancel
    <2>1. /\ UNCHANGED <<prov, origin, receive, leaked, cancels>> /\ st'.deferred = st.deferred
          /\ \/ /\ NotesCancel(st, st') /\ wire' = Append(wire, Msg("cancel", 0))
                /\ cut' = cut \cup ({st.r} \ {0})
             \/ SameLife(st, st') /\ UNCHANGED <<wire, cut>>
          /\ SameProvider /\ scenario'.acked = scenario.acked
        BY <1>3, CancelStep DEF KeepsQueues
    <2> QED
        BY <2>1 DEF Handles, Lives, Cuts
<1>4. CASE ForwardCommit
    <2>1. /\ UNCHANGED <<scenario, prov, origin, receive, leaked, cut, cancels>>
          /\ \/ CancelPending(st) /\ Defers(Head(agenda)) /\ UNCHANGED wire
             \/ UNCHANGED st /\ wire' = Append(wire, Msg("turn", 0))
        BY <1>4, CommitStep DEF sendVars
    <2>2. CancelPending(st) => InFlight(st) \/ AckOutstanding(st)
        BY DEF CancelPending, InFlight, AckOutstanding
    <2>3. Lives /\ (wire' = wire \/ wire' = Append(wire, Msg("turn", 0)))
        BY <2>1, <2>2 DEF Lives, Defers, SameLife
    <2> QED
        BY <2>1, <2>3 DEF Handles, SameProvider
<1>5. CASE ForwardMessage
    <2>1. /\ UNCHANGED <<scenario, prov, origin, receive, leaked, cut, cancels, st>>
          /\ wire' = Append(wire, Msg("turn", 0))
        BY <1>5, MessageStep DEF sendVars
    <2> QED
        BY <2>1 DEF Handles, SameProvider, Lives, SameLife
<1>6. CASE ForwardToolResult
    <2>1. /\ UNCHANGED <<provVars, leaked, cut, cancels>>
          /\ Delivers \/ Refuses(Head(agenda).n)
          /\ SameProvider /\ scenario'.acked = scenario.acked
        BY <1>6, ResultStep
    <2>2. Lives
        BY <2>1 DEF Delivers, Refuses, Lives, SameLife
    <2> QED
        BY <2>1, <2>2 DEF Handles, provVars
<1>7. CASE SuppressContinuation
    <2>1. UNCHANGED <<scenario, provVars, leaked, cut, cancels>> /\ Reports
        BY <1>7, SuppressStep DEF sendVars
    <2> QED
        BY <2>1 DEF Handles, provVars, Lives, Reports, SameProvider
<1>8. CASE HoldOrSync
    <2>1. /\ UNCHANGED <<scenario, provVars, leaked, cut, cancels>>
          /\ (AckOutstanding(st) /\ Defers(Head(agenda))) \/ UNCHANGED st
        BY <1>8, HoldStep DEF sendVars
    <2> QED
        BY <2>1 DEF Handles, provVars, Lives, Defers, SameLife, SameProvider
<1>9. CASE RequestContinuation
    <2>1. /\ UNCHANGED <<prov, origin, receive, leaked, cut, cancels>>
          /\ \/ /\ DefersContinuation(st) /\ Defers(Task("cont", Head(agenda).n))
                /\ UNCHANGED wire
             \/ ~DefersContinuation(st) /\ Asks(Head(agenda).n)
          /\ SameProvider /\ scenario'.acked = scenario.acked
        BY <1>9, RequestStep
    <2>2. CASE DefersContinuation(st) /\ Defers(Task("cont", Head(agenda).n)) /\ UNCHANGED wire
        <3>1. InFlight(st) \/ AckOutstanding(st)
            BY <2>2 DEF DefersContinuation, CancelPending, InFlight, AckOutstanding
        <3> QED
            BY <2>1, <2>2, <3>1 DEF Handles, Lives, Defers
    <2>3. CASE ~DefersContinuation(st) /\ Asks(Head(agenda).n)
        <3>1. ~InFlight(st)
            BY <2>3 DEF DefersContinuation
        <3>2. /\ st'.phase = st.phase /\ st'.r = st.r /\ st'.ack = st.ack
              /\ st'.ledger = st.ledger /\ st'.closed = st.closed /\ st'.deferred = st.deferred
              /\ \/ st'.cont = st.cont /\ UNCHANGED wire
                 \/ st'.cont = "requested" /\ wire' = Append(wire, Msg("cont", 0))
            BY <2>3 DEF Asks, KeepsQueues
        <3> QED
            BY <2>1, <3>1, <3>2 DEF Handles, Continues
    <2> QED
        BY <2>1, <2>2, <2>3
<1>10. CASE ForwardAck
    <2>1. /\ UNCHANGED <<scenario, prov, origin, receive, leaked, cut, cancels>>
          /\ \/ UNCHANGED <<st, wire>>
             \/ ~InFlight(st) /\ ~AckOutstanding(st) /\ Acknowledges
        BY <1>10, AckStep DEF sendVars
    <2>2. CASE UNCHANGED <<st, wire>>
        BY <2>1, <2>2 DEF Handles, Lives, SameLife, SameProvider
    <2>3. CASE ~InFlight(st) /\ ~AckOutstanding(st) /\ Acknowledges
        <3>1. Acks /\ wire' = Append(wire, Msg("ack", 0))
            BY <1>10, <2>1, <2>3 DEF Acks, Acknowledges
        <3> QED
            BY <2>1, <3>1 DEF Handles, SameProvider
    <2> QED
        BY <2>1, <2>2, <2>3
<1>11. CASE Report
    <2>1. UNCHANGED <<scenario, provVars, leaked, cut, cancels>> /\ Reports
        BY <1>11, ReportStep DEF sendVars
    <2> QED
        BY <2>1 DEF Handles, provVars, Lives, Reports, SameProvider
<1>12. CASE AwaitRequest
    <2>1. /\ UNCHANGED <<scenario, prov, origin, receive, leaked, cut, cancels, st>>
          /\ wire' = wire \/ wire' = Append(wire, Msg("turn", 0))
        BY <1>12, InboxStep
    <2> QED
        BY <2>1 DEF Handles, SameProvider, Lives, SameLife
<1>13. CASE AwaitEnd
    <2>1. /\ UNCHANGED <<provVars, leaked, cut, cancels>> /\ Reports
          /\ SameProvider /\ scenario'.acked = scenario.acked
        BY <1>13, EndStep DEF sendVars
    <2> QED
        BY <2>1 DEF Handles, provVars, Lives, Reports
<1> QED
    BY <1>1, <1>2, <1>3, <1>4, <1>5, <1>6, <1>7, <1>8, <1>9, <1>10, <1>11, <1>12, <1>13
       DEF Events

LEMMA LifeCases ==
    ASSUME TypeInv, [Next]_vars
    PROVE  Hears \/ Provider \/ Handles
<1>1. CASE UNCHANGED vars
    BY <1>1, HandlesNothing DEF vars, sendVars
<1>2. CASE Next
    BY <1>2, CallerLife, ReadLife, HandlerLife DEF Next, Environment, Runner, Await, Reads
<1> QED
    BY <1>1, <1>2

LEMMA StepProvider ==
    ASSUME TypeInv, [Next]_vars
    PROVE  SameProvider
<1>1. CASE UNCHANGED vars
    BY <1>1 DEF vars, SameProvider
<1>2. CASE Provider
    BY <1>2, ProviderCases
<1>3. CASE Next /\ ~Provider
    BY <1>3, CallerLife, ReadLife, HandlerLife
       DEF Next, Environment, Runner, Await, Reads, SameProvider
<1> QED
    BY <1>1, <1>2, <1>3

(* What a response answers never changes.                                  *)
LEMMA OriginGrows ==
    ASSUME TypeInv, [Next]_vars
    PROVE  /\ Len(origin) \in Nat /\ Len(origin') \in Nat /\ Len(origin) <= Len(origin')
           /\ \A i \in 1..Len(origin) : origin'[i] = origin[i]
<1>0. Len(origin) \in Nat /\ TypeInv
    BY DEF TypeInv, ProviderTypes
<1>1. ASSUME origin' = origin
      PROVE  Len(origin) <= Len(origin') /\ \A i \in 1..Len(origin) : origin'[i] = origin[i]
    BY <1>0, <1>1
<1>2. ASSUME NEW why \in Request \cup {"vad"}, NEW msgs \in Seq(Message),
             \A m \in Elems(msgs) : m.r \in 1..Len(origin), Opens(why, msgs)
      PROVE  Len(origin) <= Len(origin') /\ \A i \in 1..Len(origin) : origin'[i] = origin[i]
    <2>1. /\ Len(origin) \in Nat /\ Len(origin') = Next1
          /\ \A i \in 1..Len(origin) : origin'[i] = origin[i]
        BY <1>2, OpensTypes
    <2> QED
        BY <2>1 DEF Next1
<1>3. CASE Provider
    <2>1. CASE Speaks \/ TakesRequest
        <3> DEFINE none == <<>>
        <3>1. none \in Seq(Message)
            OBVIOUS
        <3>2. Elems(none) = {}
            BY ElemsSmall
        <3>3. PICK why \in Request \cup {"vad"} : Opens(why, none)
            BY <2>1 DEF Speaks, TakesRequest
        <3> HIDE DEF none
        <3> QED
            BY SMTT(60), <1>2, <3>1, <3>2, <3>3
    <2>2. CASE StreamsFresh \/ StreamsLate \/ TakesCancel \/ TakesSecond \/ Closes
        BY <1>1, <2>2 DEF StreamsFresh, StreamsLate, TakesCancel, TakesSecond, Closes
    <2>3. CASE EndsResponse
        <3>1. CASE EndsPlain
            BY <1>1, <3>1 DEF EndsPlain
        <3>2. CASE EndsAgain
            <4> DEFINE w == <<Msg("end", prov.active)>>
                       why == Head(prov.retry)
            <4>1. /\ w \in Seq(Message)
                  /\ Elems(w) = {Msg("end", prov.active)}
                  /\ prov.active \in 1..Len(origin)
                BY <2>3, EndMsg DEF EndsResponse
            <4>2. Opens(why, w) /\ why \in Request \cup {"vad"}
                BY <3>2 DEF EndsAgain
            <4> HIDE DEF w, why
            <4>3. \A m \in Elems(w) : m.r \in 1..Len(origin)
                BY <4>1, MsgTypes
            <4>4. why \in Request \cup {"vad"} /\ w \in Seq(Message) /\ Opens(why, w)
                BY <4>1, <4>2
            <4> QED
                BY <1>2, <4>3, <4>4, SMTT(30)
        <3> QED
            BY <2>3, <3>1, <3>2, EndsCases DEF EndsResponse
    <2> QED
        BY <1>3, <2>1, <2>2, <2>3, ProviderCases
<1>4. CASE Hears
    <2>1. origin' = origin
        BY <1>4, Observed DEF Hears, TypeInv, RunnerTypes, Steady, ProviderTypes
    <2> QED
        BY <1>1, <2>1
<1>5. CASE Handles
    BY <1>1, <1>5 DEF Handles
<1>6. TypeInv'
    BY TypeStep
<1>7. Len(origin') \in Nat
    BY <1>6 DEF TypeInv, ProviderTypes
<1> QED
    BY <1>0, <1>3, <1>4, <1>5, <1>7, LifeCases

(* Whether an acknowledgement was ever requested.                          *)
LEMMA AckedStep ==
    ASSUME TypeInv, [Next]_vars
    PROVE  scenario'.acked = scenario.acked \/ (SendAck /\ scenario'.acked)
<1>0. scenario \in Scenario
    BY DEF TypeInv, InputTypes
<1>1. CASE UNCHANGED vars
    BY <1>1 DEF vars
<1>2. CASE SendAudio \/ SendControl
    BY <1>0, <1>2, SpendFields DEF SendAudio, SendControl
<1>3. CASE SendAck
    BY <1>0, <1>3 DEF SendAck, Scenario
<1>4. CASE ForwardResult
    BY <1>4, ForwardCases
<1>5. CASE Provider
    BY <1>5, ProviderCases
<1>6. CASE Runner
    BY <1>6, ReadLife, HandlerLife DEF Runner, Await, Reads
<1> QED
    BY <1>1, <1>2, <1>3, <1>4, <1>5, <1>6 DEF Next, Environment

AckTask == [t : {"ack"}, n : Nat]

LEMMA AcksAbsent ==
    ASSUME TypeInv, [Next]_vars, ~SendAck, Elems(Line(AckTask)) = {}
    PROVE  Elems(Line(AckTask)') = {}
<1>0. /\ AckTask \cap Plain = {}
      /\ \A x : x.t # "ack" => x \notin AckTask
    BY DEF AckTask, Plain
<1> DEFINE L == Line(AckTask)
<1>1. ASSUME L' = L PROVE Elems(L') = {}
    BY <1>1
<1>2. ASSUME agenda # <<>>, \/ Gone(AckTask)
                            \/ \E y \in Tasks : y.t # "ack" /\ Becomes(AckTask, y)
      PROVE  Elems(L') = {}
    <2> DEFINE S == Served(AckTask)
               B == Behind(AckTask)
               x == Head(agenda)
               M == L'
    <2>1. S \in Seq(Tasks) /\ B \in Seq(Tasks) /\ x \in Tasks
        BY <1>2, LineHead, RestTypes
    <2>2. L = IF x \in AckTask THEN S \o (<<x>> \o B) ELSE S \o B
        BY <1>2, LineHead
    <2>3. M = S \o B
        BY <1>0, <1>2 DEF Gone, Becomes
    <2> HIDE DEF S, B, x, M, L
    <2>4. /\ Elems(S \o (<<x>> \o B)) = {x} \cup Elems(S \o B)
        BY <2>1, SplitLen
    <2>5. Elems(L) = {}
        BY DEF L
    <2>6. Elems(M) = {}
        BY <2>2, <2>3, <2>4, <2>5
    <2> QED
        BY <2>6 DEF M
<1>3. CASE IdleStep \/ FlushHeld
    BY <1>0, <1>1, <1>3, IdleSteps, FlushIdles DEF Idles
<1>4. CASE SendAudio
    <2>1. PICK t \in Audio : Push(Task(t, frames + 1))
        BY <1>4 DEF SendAudio
    <2>2. Task(t, frames + 1) \in Inputs /\ Task(t, frames + 1) \notin AckTask
        <3>1. frames + 1 \in Nat
            BY DEF TypeInv, InputTypes
        <3>2. Task(t, frames + 1) \in Inputs
            BY <3>1, InputNames
        <3>3. Task(t, frames + 1).t # "ack"
            BY TaskTypes DEF Audio
        <3> QED
            BY <1>0, <3>2, <3>3
    <2> QED
        BY <1>0, <1>1, <1>4, <2>1, <2>2, LinePush DEF SendAudio
<1>5. CASE ForwardResult
    <2>0. /\ forwarder.batch \in Batch
          /\ ResultArrives \/ ContArrives \/ RequestArrives \/ ForwarderFails
          /\ UNCHANGED <<st, agenda>>
        BY <1>5, ForwardCases
    <2>1. CASE ResultArrives \/ ContArrives
        <3>1. /\ Task("result", forwarder.batch) \in Inputs
              /\ Task("cont", forwarder.batch) \in Inputs
              /\ Task("result", forwarder.batch) \notin AckTask
              /\ Task("cont", forwarder.batch) \notin AckTask
            BY <1>0, <2>0, InputNames, TaskTypes
        <3> QED
            BY <1>0, <1>1, <2>0, <2>1, <3>1, LinePush DEF ResultArrives, ContArrives
    <2>2. CASE RequestArrives \/ ForwarderFails
        BY <1>1, <2>0, <2>2, LineStack DEF RequestArrives, ForwarderFails
    <2> QED
        BY <2>0, <2>1, <2>2
<1>6. CASE ForwardAudio
    <2>0. /\ agenda # <<>> /\ st'.deferred = st.deferred /\ ordered' = ordered
          /\ HoldsFrame \/ SendsFrame \/ LosesSession
        BY <1>6, AudioCases DEF inputVars
    <2>1. CASE LosesSession
        <3>1. agenda' = <<>>
            BY <2>1 DEF LosesSession
        <3>2. Elems(Line(AckTask)') \subseteq Elems(Line(AckTask))
            BY <1>0, <2>0, <3>1, LineEnds
        <3> QED
            BY <3>2
    <2>2. CASE agenda' = Rest
        <3>1. Gone(AckTask)
            BY <2>0, <2>2, LineDrop DEF Gone
        <3> QED
            BY <1>2, <2>0, <3>1
    <2> QED
        BY <2>0, <2>1, <2>2 DEF HoldsFrame, SendsFrame
<1>7. CASE ForwardToolResult \/ SuppressContinuation \/ ForwardAck
    BY <1>0, <1>2, <1>7, LineSteps, ResultStep, SuppressStep, AckStep
<1>8. CASE HoldOrSync
    <2>1. /\ agenda # <<>> /\ Head(agenda) \in Tasks /\ Head(agenda).t # "ack"
          /\ Task("request", Head(agenda).n) \in Tasks /\ Task("request", Head(agenda).n).t # "ack"
        BY <1>8, HoldStep, TaskTypes
    <2> QED
        BY <1>0, <1>2, <1>8, <2>1, LineSteps
<1>9. CASE RequestContinuation
    <2>1. /\ agenda # <<>>
          /\ Task("cont", Head(agenda).n) \in Tasks /\ Task("cont", Head(agenda).n).t # "ack"
        BY <1>9, RequestStep, TaskTypes
    <2> QED
        BY <1>0, <1>2, <1>9, <2>1, LineSteps
<1>10. CASE AwaitRequest
    BY <1>0, <1>1, <1>10, LineSteps
<1>11. CASE AwaitEnd
    <2>1. agenda' = <<>> /\ st'.deferred = st.deferred /\ ordered' = ordered
        BY <1>11, EndStep DEF Reports, inputVars
    <2> QED
        BY <1>0, <2>1, LineEnds
<1> QED
    BY <1>3, <1>4, <1>5, <1>6, <1>7, <1>8, <1>9, <1>10, <1>11, StepCases

-----------------------------------------------------------------------------
(* A message, as the runner takes it between two handlers                  *)

Retired(s) == IF Retires(s) THEN Mark(s.ledger, s.r, "retired") ELSE s.ledger
CutBegun(s) == s.ack = "cancelled" /\ ~Retires(s)
HearsStart(m) ==
    /\ Opening(st, m) /\ st'.r = m.r
    /\ st'.phase = IF CutBegun(st) THEN "cancelling" ELSE "inflight"
    /\ st'.ledger = IF CutBegun(st) THEN Mark(Retired(st), m.r, "cancelled") ELSE Retired(st)
    /\ st'.ack = IF Retires(st) /\ AckOutstanding(st) THEN "none" ELSE st.ack
    /\ st'.deferred = IF Retires(st) /\ AckOutstanding(st) THEN <<>> ELSE st.deferred
    /\ ~AckOutstanding(st) /\ EchoesContinuation(m) => st'.cont = "tagged"
    /\ st'.closed = st.closed
HearsEnd(m) ==
    /\ Ending(st, m) /\ st'.r = 0 /\ st'.phase \in {"idle", "interrupted", "completed"}
    /\ st'.ledger = Mark(st.ledger, Owned(st, m), "terminal")
    /\ st'.ack = IF AckOutstanding(st) THEN "none" ELSE st.ack
    /\ st'.deferred = <<>> /\ st'.closed = st.closed
HearsClose(m) ==
    /\ m.t = "close" /\ st'.closed
    /\ st'.phase = st.phase /\ st'.r = st.r /\ st'.ack = st.ack /\ st'.ledger = st.ledger
    /\ st'.deferred = st.deferred
HearsOther(m) ==
    /\ m.t # "close" /\ ~Opening(st, m) /\ ~Ending(st, m)
    /\ st'.phase = st.phase /\ st'.r = st.r /\ st'.ledger = st.ledger
    /\ st'.ack = IF m.t = "reject" /\ AckOutstanding(st) THEN "none" ELSE st.ack
    /\ st'.cont = st.cont \/ (st.cont = "guessed" /\ st'.cont = "requested")
    /\ st'.deferred = st.deferred /\ st'.closed = st.closed

LEMMA HearCases ==
    ASSUME TypeInv, Hears
    PROVE  LET m == Head(receive) IN
           /\ m \in Message /\ m \in Elems(receive) /\ receive # <<>>
           /\ receive' = Tail(receive)
           /\ UNCHANGED <<scenario, wire, prov, origin, cut, cancels>>
           /\ HearsStart(m) \/ HearsEnd(m) \/ HearsClose(m) \/ HearsOther(m)
           /\ IF m.t = "delta" /\ ~StaleCustomerOutput(st, m.r)
              THEN leaked' = leaked \cup ({m.r} \cap cut) ELSE leaked' = leaked
<1> DEFINE m == Head(receive)
           s == Observe(st, m)
<1>0. /\ st \in State /\ st.ack # "ended" /\ st.cont # "ended"
      /\ receive \in Seq(Message) /\ receive # <<>>
    BY DEF Hears, TypeInv, RunnerTypes, Steady, ProviderTypes
<1>1. PICK next \in Seq(Tasks) : ObserveMessage(next)
    BY DEF Hears
<1>2. /\ m \in Message /\ s \in State
      /\ receive' = Tail(receive)
      /\ st'.phase = s.phase /\ st'.r = s.r /\ st'.ledger = s.ledger
      /\ st'.ack = IF s.ack = "ended" THEN "none" ELSE s.ack
      /\ st'.cont = IF s.cont = "ended" THEN "none" ELSE s.cont
      /\ IF m.t = "close" THEN st'.closed ELSE st'.closed = st.closed
      /\ st'.deferred = IF Replayed(st, m) THEN <<>> ELSE st.deferred
      /\ leaked' = IF m.t = "delta" /\ ~StaleCustomerOutput(s, m.r)
                   THEN leaked \cup ({m.r} \cap cut) ELSE leaked
      /\ UNCHANGED <<scenario, wire, prov, origin, sendVars>>
    BY <1>0, <1>1, Observed
<1>3. m \in Elems(receive)
    BY <1>0, ElemsTail
<1>4. /\ Opening(st, m) => s = StartResponse(st, m, AckOutstanding(st))
      /\ Ending(st, m) => s = EndResponse(st, m, AckOutstanding(st))
      /\ m.t # "close" /\ ~Opening(st, m) /\ ~Ending(st, m) => s = Attribute(st, m)
      /\ m.t = "close" => s = [st EXCEPT !.closed = TRUE, !.cont = "none", !.failures = {}]
    BY <1>0, <1>2, ObserveCases
<1>5. AckOutstanding(st) \in BOOLEAN /\ "ended" \notin {"none", "outstanding", "cancelled"}
    BY DEF AckOutstanding
<1>6. Replayed(st, m) <=> Ending(st, m) \/ s.ack = "ended"
    BY DEF Replayed, Replays
<1> HIDE DEF m, s
<1>7. CASE Opening(st, m)
    <2>1. /\ BeginsResponse(st, m.r) /\ ~Ending(st, m) /\ m.t = "start"
        BY <1>7 DEF Opening, Ending
    <2> DEFINE u == RetireResponse(st)
               cuts == AckOutstanding(st) /\ u.ack = "cancelled"
    <2>2. /\ s.phase = IF cuts THEN "cancelling" ELSE "inflight"
          /\ s.r = m.r
          /\ s.ledger = IF cuts THEN Mark(u.ledger, m.r, "cancelled") ELSE u.ledger
          /\ s.ack = u.ack
          /\ ~AckOutstanding(st) /\ EchoesContinuation(m) => s.cont = "tagged"
        BY <1>0, <1>2, <1>4, <1>5, <1>7, <2>1, StartFields
    <2>3. /\ u.ledger = Retired(st)
          /\ u.ack = IF Retires(st) /\ AckOutstanding(st) THEN "ended" ELSE st.ack
        BY <1>0, RetireFields DEF Retired
    <2>4. cuts <=> CutBegun(st)
        BY <2>3 DEF CutBegun, AckOutstanding
    <2> HIDE DEF u, cuts
    <2>5. /\ st'.ack = IF Retires(st) /\ AckOutstanding(st) THEN "none" ELSE st.ack
          /\ st'.deferred = IF Retires(st) /\ AckOutstanding(st) THEN <<>> ELSE st.deferred
        BY <1>0, <1>2, <1>6, <2>1, <2>2, <2>3
    <2>6. ~AckOutstanding(st) /\ EchoesContinuation(m) => st'.cont = "tagged"
        BY <1>2, <2>2
    <2>7. HearsStart(m)
        BY <1>2, <1>7, <2>1, <2>2, <2>3, <2>4, <2>5, <2>6 DEF HearsStart
    <2> QED
        BY <1>0, <1>2, <1>3, <2>1, <2>7 DEF sendVars, m
<1>8. CASE Ending(st, m)
    <2>1. m.t = "end"
        BY <1>8 DEF Ending
    <2>2. /\ s.phase \in {"idle", "interrupted", "completed"} /\ s.r = 0
          /\ s.ledger = Mark(st.ledger, Owned(st, m), "terminal")
          /\ s.ack = IF AckOutstanding(st) THEN "ended" ELSE st.ack
        BY <1>0, <1>2, <1>4, <1>5, <1>8, EndFields
    <2>3. HearsEnd(m)
        BY <1>0, <1>2, <1>6, <1>8, <2>1, <2>2 DEF HearsEnd
    <2> QED
        BY <1>0, <1>2, <1>3, <2>1, <2>3 DEF sendVars, m
<1>9. CASE m.t = "close"
    <2>1. /\ s.phase = st.phase /\ s.r = st.r /\ s.ack = st.ack /\ s.ledger = st.ledger
        BY <1>0, <1>4, <1>9 DEF State
    <2>2. ~Replayed(st, m)
        BY <1>0, <1>6, <1>9, <2>1 DEF Ending
    <2>3. HearsClose(m)
        BY <1>0, <1>2, <1>9, <2>1, <2>2 DEF HearsClose
    <2> QED
        BY <1>0, <1>2, <1>3, <1>9, <2>3 DEF sendVars, m
<1>10. CASE m.t # "close" /\ ~Opening(st, m) /\ ~Ending(st, m)
    <2>1. /\ m.t # "reject" => s = st
          /\ s.ack = IF m.t = "reject" /\ AckOutstanding(st) THEN "none" ELSE st.ack
          /\ s.cont = st.cont \/ (st.cont = "guessed" /\ s.cont = "requested")
          /\ s.phase = st.phase /\ s.r = st.r /\ s.ledger = st.ledger
        <3>1. s = Attribute(st, m)
            BY <1>4, <1>10
        <3> QED
            BY <1>0, <3>1, AttributeFields
    <2>2. s.ack # "ended" /\ s.cont # "ended"
        BY <1>0, <2>1
    <2>3. HearsOther(m)
        BY <1>2, <1>6, <1>10, <2>1, <2>2 DEF HearsOther
    <2>4. m.t = "delta" => s = st
        BY <2>1
    <2> QED
        BY <1>0, <1>2, <1>3, <2>3, <2>4 DEF sendVars, m
<1> QED
    BY <1>7, <1>8, <1>9, <1>10

-----------------------------------------------------------------------------
(* The continuation of a tool batch                                        *)

(* A provider that says which response the continuation is, and no         *)
(* acknowledgement to mistake it for.                                      *)
Echoed == scenario.echo /\ ~scenario.acked /\ ~st.closed
SparedInv ==
    /\ ~scenario.acked => st.ack = "none" /\ Elems(Line(AckTask)) = {}
    /\ Echoed /\ st.r # 0 /\ origin[st.r] = "cont" => st.cont = "tagged"
    /\ \A r \in Response : cancels[r] # 0 =>
          r <= Len(origin) /\ (Echoed => origin[r] # "cont")

(* The acknowledgement of which nothing was ever heard is not outstanding. *)
LEMMA UnackedStep ==
    ASSUME TypeInv, SparedInv, [Next]_vars, ~scenario'.acked
    PROVE  /\ st'.ack = "none" /\ Elems(Line(AckTask)') = {} /\ ~scenario.acked
           /\ st.ack = "none"
<1>1. ~SendAck /\ ~scenario.acked
    <2>1. scenario \in Scenario
        BY DEF TypeInv, InputTypes
    <2>2. ~SendAck
        BY <2>1 DEF SendAck, Scenario
    <2> QED
        BY <2>2, AckedStep
<1>2. st.ack = "none" /\ Elems(Line(AckTask)) = {}
    BY <1>1 DEF SparedInv
<1>3. Elems(Line(AckTask)') = {}
    BY <1>1, <1>2, AcksAbsent
<1>4. ~AckOutstanding(st)
    BY <1>2 DEF AckOutstanding
<1>5. CASE Hears
    BY <1>1, <1>2, <1>3, <1>4, <1>5, HearCases DEF HearsStart, HearsEnd, HearsClose, HearsOther
<1>6. CASE Provider
    BY <1>1, <1>2, <1>3, <1>6, ProviderCases DEF ProvidersOnly
<1>7. CASE Handles
    <2>1. CASE Lives
        BY <1>1, <1>2, <1>3, <2>1 DEF Lives, SameLife
    <2>2. CASE Cuts
        BY <1>1, <1>2, <1>3, <2>2 DEF Cuts, NotesCancel
    <2>3. CASE Continues
        BY <1>1, <1>2, <1>3, <2>3 DEF Continues
    <2>4. CASE Acks
        <3>1. agenda # <<>> /\ Head(agenda).t = "ack" /\ Head(agenda) \in Tasks
            BY <2>4, AckStep, RestTypes DEF Acks
        <3>2. Head(agenda) \in AckTask
            BY <3>1 DEF AckTask, Tasks
        <3>3. Head(agenda) \in Elems(agenda)
            BY <3>1, RestTypes
        <3>4. \A x : x \in Elems(Line(AckTask)) <=>
                   x \in AckTask /\ (x \in Elems(st.deferred) \/ x \in Elems(agenda)
                                     \/ x \in Elems(ordered))
            BY QueueFacts, LineType DEF Line
        <3> QED
            BY <1>2, <3>2, <3>3, <3>4
    <2> QED
        BY <1>7, <2>1, <2>2, <2>3, <2>4 DEF Handles
<1> QED
    BY <1>1, <1>2, <1>3, <1>5, <1>6, <1>7, LifeCases

LEMMA SparedStep ==
    ASSUME TypeInv, SparedInv, [Next]_vars
    PROVE  SparedInv'
<1>0. /\ scenario'.echo = scenario.echo /\ (scenario.acked => scenario'.acked)
      /\ (scenario.echo \in BOOLEAN) /\ (scenario.acked \in BOOLEAN)
      /\ (scenario'.acked \in BOOLEAN)
    <2>1. TypeInv'
        BY TypeStep
    <2>2. scenario \in Scenario /\ scenario' \in Scenario
        BY <2>1 DEF TypeInv, InputTypes
    <2> QED
        BY <2>2, StepProvider, AckedStep DEF SameProvider, Scenario
<1>1. /\ Len(origin) \in Nat /\ Len(origin') \in Nat /\ Len(origin) <= Len(origin')
      /\ \A i \in 1..Len(origin) : origin'[i] = origin[i]
    BY OriginGrows
<1>2. /\ st.r \in 0..Len(origin) /\ (st.r # 0 => st.r \in 1..Len(origin) /\ st.r \in Response)
      /\ (InFlight(st) <=> st.r # 0) /\ cancels \in [Response -> Nat]
    BY RunnerFacts
<1>3. ~scenario'.acked => st'.ack = "none" /\ Elems(Line(AckTask)') = {} /\ ~scenario.acked
                          /\ st.ack = "none"
    BY UnackedStep
<1> DEFINE Keeps == \A r \in Response : cancels'[r] # 0 =>
                       r <= Len(origin') /\ (Echoed' => origin'[r] # "cont")
           Tags == Echoed' /\ st'.r # 0 /\ origin'[st'.r] = "cont" => st'.cont = "tagged"
<1>4. ASSUME Keeps, Tags PROVE SparedInv'
    BY <1>3, <1>4 DEF SparedInv
<1>5. ASSUME cancels' = cancels, st.closed => st'.closed PROVE Keeps
    <2> SUFFICES ASSUME NEW r \in Response, cancels[r] # 0
                 PROVE  r <= Len(origin') /\ (Echoed' => origin'[r] # "cont")
        BY <1>5
    <2>1. r <= Len(origin) /\ (Echoed => origin[r] # "cont")
        BY DEF SparedInv
    <2>2. r \in 1..Len(origin)
        BY <1>1, <2>1 DEF Response
    <2>3. Echoed' => Echoed
        BY <1>0, <1>5 DEF Echoed
    <2> QED
        BY <1>1, <2>1, <2>2, <2>3 DEF Response
<1>6. ASSUME st'.r \in {0, st.r}, st'.cont = st.cont \/ st.cont # "tagged", st.closed => st'.closed
      PROVE  Tags
    <2> SUFFICES ASSUME Echoed', st'.r # 0, origin'[st'.r] = "cont" PROVE st'.cont = "tagged"
        OBVIOUS
    <2>1. Echoed /\ st.r # 0 /\ origin[st.r] = "cont"
        BY <1>0, <1>1, <1>2, <1>6 DEF Echoed
    <2> QED
        BY <1>6, <2>1 DEF SparedInv
<1>7. CASE Hears
    <2> DEFINE m == Head(receive)
    <2>1. /\ UNCHANGED <<scenario, origin, cancels>> /\ m \in Message
          /\ HearsStart(m) \/ HearsEnd(m) \/ HearsClose(m) \/ HearsOther(m)
        BY <1>7, HearCases
    <2> HIDE DEF m
    <2>2. CASE HearsStart(m)
        <3>1. st'.closed = st.closed /\ st'.r = m.r
              /\ (~AckOutstanding(st) /\ EchoesContinuation(m) => st'.cont = "tagged")
            BY <2>2 DEF HearsStart
        <3>2. Tags
            <4> SUFFICES ASSUME Echoed', st'.r # 0, origin'[st'.r] = "cont"
                         PROVE  st'.cont = "tagged"
                OBVIOUS
            <4>1. ~AckOutstanding(st)
                BY <1>3 DEF Echoed, AckOutstanding
            <4>2. EchoesContinuation(m)
                BY <2>1, <3>1 DEF Echoed, EchoesContinuation
            <4> QED
                BY <3>1, <4>1, <4>2
        <3> QED
            BY <1>4, <1>5, <2>1, <3>1, <3>2
    <2>3. CASE HearsEnd(m)
        <3>1. st'.closed = st.closed /\ st'.r = 0
            BY <2>3 DEF HearsEnd
        <3> QED
            BY <1>4, <1>5, <2>1, <3>1
    <2>4. CASE HearsClose(m)
        <3>1. st'.closed
            BY <2>4 DEF HearsClose
        <3>2. ~Echoed'
            BY <3>1 DEF Echoed
        <3> QED
            BY <1>4, <1>5, <2>1, <3>1, <3>2
    <2>5. CASE HearsOther(m)
        <3>1. /\ st'.closed = st.closed /\ st'.r = st.r
              /\ st'.cont = st.cont \/ st.cont # "tagged"
            BY <2>5 DEF HearsOther
        <3> QED
            BY <1>4, <1>5, <1>6, <2>1, <3>1
    <2> QED
        BY <2>1, <2>2, <2>3, <2>4, <2>5
<1>8. CASE Provider
    <2>1. UNCHANGED <<st, cancels>>
        BY <1>8, ProviderCases DEF ProvidersOnly
    <2> QED
        BY <1>4, <1>5, <1>6, <2>1
<1>9. CASE Handles
    <2>1. CASE Lives
        <3>1. cancels' = cancels /\ st'.closed = st.closed /\ st'.r = st.r /\ st'.cont = st.cont
            BY <2>1 DEF Lives, SameLife
        <3> QED
            BY <1>4, <1>5, <1>6, <3>1
    <2>2. CASE Cuts
        <3>1. st'.closed = st.closed /\ st'.r = st.r /\ st'.cont = st.cont
            BY <2>2 DEF Cuts, NotesCancel
        <3>2. CASE cancels' = cancels
            BY <1>4, <1>5, <1>6, <3>1, <3>2
        <3>3. CASE /\ CancelTarget(st) /\ st.r # 0
                   /\ cancels' = [cancels EXCEPT ![st.r] = @ + 1]
            <4>1. st.cont # "tagged"
                BY <3>3 DEF CancelTarget, Bound
            <4>2. Keeps
                <5> SUFFICES ASSUME NEW r \in Response, cancels'[r] # 0
                             PROVE  r <= Len(origin') /\ (Echoed' => origin'[r] # "cont")
                    OBVIOUS
                <5>1. Echoed' => Echoed
                    BY <1>0, <3>1 DEF Echoed
                <5>2. r <= Len(origin) /\ (Echoed => origin[r] # "cont")
                    <6>1. CASE r = st.r
                        BY <1>1, <1>2, <3>3, <4>1, <6>1 DEF SparedInv
                    <6>2. CASE r # st.r
                        <7>1. cancels[r] # 0
                            BY <1>2, <3>3, <6>2
                        <7> QED
                            BY <7>1 DEF SparedInv
                    <6> QED
                        BY <6>1, <6>2
                <5>3. r \in 1..Len(origin)
                    BY <1>1, <5>2 DEF Response
                <5> QED
                    BY <1>1, <5>1, <5>2, <5>3 DEF Response
            <4> QED
                BY <1>4, <1>6, <3>1, <4>2
        <3> QED
            BY <2>2, <3>2, <3>3 DEF Cuts
    <2>3. CASE Continues
        <3>1. cancels' = cancels /\ st'.closed = st.closed /\ st'.r = 0
            BY <1>2, <2>3 DEF Continues
        <3> QED
            BY <1>4, <1>5, <3>1
    <2>4. CASE Acks
        <3>1. cancels' = cancels /\ st'.closed = st.closed /\ st'.r = st.r /\ st'.cont = st.cont
            BY <2>4 DEF Acks, Acknowledges
        <3> QED
            BY <1>4, <1>5, <1>6, <3>1
    <2> QED
        BY <1>9, <2>1, <2>2, <2>3, <2>4 DEF Handles
<1> QED
    BY <1>7, <1>8, <1>9, LifeCases

LEMMA SparedHolds ==
    Spec => []SparedInv
<1>1. Init => SparedInv
    <2> SUFFICES ASSUME Init PROVE SparedInv
        OBVIOUS
    <2>1. AckTask \cap Plain = {}
        BY DEF AckTask, Plain
    <2>2. Elems(Line(AckTask)) = {}
        BY <2>1, InitLine, ElemsSmall
    <2>3. st.ack = "none" /\ st.r = 0 /\ \A r \in Response : cancels[r] = 0
        BY DEF Init
    <2> QED
        BY <2>2, <2>3 DEF SparedInv
<1>2. TypeInv /\ SparedInv /\ [Next]_vars => SparedInv'
    BY SparedStep
<1> QED
    BY <1>1, <1>2, TypesHold, PTL DEF Spec

(* The cancels that ended a response: what each was meant for had been     *)
(* cancelled by the runner, and the one it ended is no older.              *)
AimInv ==
    /\ \A w \in Elems(wire) : w.r # 0 => cancels[w.r] # 0
    /\ \A s \in stops : /\ s.hit \in 1..Len(origin) /\ s.meant \in Response
                       /\ cancels[s.meant] # 0 /\ s.meant <= s.hit

(* Only a cancel that arrives while a response plays stops anything.       *)
Stopping ==
    /\ wire # <<>> /\ prov.active # 0 /\ Head(wire).r # 0
    /\ stops' = stops \cup {[meant |-> Head(wire).r, hit |-> prov.active]}

LEMMA StopsStep ==
    ASSUME TypeInv, [Next]_vars
    PROVE  stops' = stops \/ (Provider /\ Stopping)
<1>1. CASE UNCHANGED vars
    BY <1>1 DEF vars, sendVars
<1>2. CASE ProviderTakes
    BY <1>2 DEF ProviderTakes, Provider, Stopping
<1>3. CASE Environment \/ ProviderSpeaks \/ ProviderStreams \/ ProviderEnds \/ ProviderCloses
    BY <1>3 DEF Environment, SendAudio, SendControl, SendAck, ForwardResult, ProviderSpeaks,
                ProviderStreams, ProviderEnds, ProviderCloses, sendVars
<1>4. CASE Events \/ Report
    BY <1>4 DEF Events, ForwardCancel, ForwardCommit, ForwardMessage, ForwardToolResult,
                SuppressContinuation, HoldOrSync, RequestContinuation, ForwardAck, Report,
                sendVars
<1>5. CASE ForwardAudio \/ FlushHeld \/ AwaitRequest \/ AwaitEnd
    <2>1. CASE ForwardAudio
        BY ZenonT(60), <2>1 DEF ForwardAudio
    <2>2. CASE FlushHeld \/ AwaitRequest \/ AwaitEnd
        BY ZenonT(60), <2>2 DEF FlushHeld, AwaitRequest, AwaitEnd, sendVars
    <2> QED
        BY <1>5, <2>1, <2>2
<1>6. CASE Reads
    BY <1>6, ReadsKeep DEF sendVars
<1> QED
    BY <1>1, <1>2, <1>3, <1>4, <1>5, <1>6
       DEF Next, Environment, Provider, Runner, Await, Reads

(* A cancel sent is not forgotten.                                         *)
LEMMA CancelsGrow ==
    ASSUME TypeInv, [Next]_vars, NEW r \in Response, cancels[r] # 0
    PROVE  cancels'[r] # 0
<1>1. cancels \in [Response -> Nat]
    BY RunnerFacts
<1>2. cancels' = cancels \/ Cuts
    <2>1. CASE Hears
        BY <2>1, HearCases
    <2>2. CASE Provider
        BY <2>2, ProviderCases DEF ProvidersOnly
    <2>3. CASE Handles
        BY <2>3 DEF Handles, Lives, Continues, Acks
    <2> QED
        BY <2>1, <2>2, <2>3, LifeCases
<1> QED
    BY <1>1, <1>2 DEF Cuts

LEMMA AimStep ==
    ASSUME TypeInv, SparedInv, AimInv, [Next]_vars
    PROVE  AimInv'
<1>0. /\ wire \in Seq(Wired) /\ Len(origin) \in Nat /\ Len(origin') \in Nat
      /\ Len(origin) <= Len(origin') /\ prov.active \in {0, Len(origin)}
    BY OriginGrows DEF TypeInv, ProviderTypes
<1>1. \A r \in Response : cancels[r] # 0 => cancels'[r] # 0
    BY CancelsGrow
<1>2. \A w \in Elems(wire) : w.r # 0 => w.r \in Response /\ cancels[w.r] # 0
    <2> SUFFICES ASSUME NEW w \in Elems(wire), w.r # 0 PROVE w.r \in Response
        BY DEF AimInv
    <2>1. w \in Wired
        BY <1>0 DEF Elems
    <2> QED
        BY <2>1 DEF Wired
<1>3. \A w \in Elems(wire') : w.r # 0 => cancels'[w.r] # 0
    <2>1. CASE wire' = wire
        BY <1>1, <1>2, <2>1
    <2>2. CASE wire # <<>> /\ wire' = Tail(wire)
        <3>1. Elems(wire') \subseteq Elems(wire)
            BY <1>0, <2>2, ElemsTail
        <3> QED
            BY <1>1, <1>2, <3>1
    <2>3. ASSUME NEW q \in Wired, wire' = Append(wire, q), q.r # 0 => cancels'[q.r] # 0
          PROVE  \A w \in Elems(wire') : w.r # 0 => cancels'[w.r] # 0
        <3>1. Elems(wire') = Elems(wire) \cup {q}
            BY <1>0, <2>3, ElemsAppend
        <3> QED
            BY <1>1, <1>2, <2>3, <3>1
    <2>4. CASE Hears
        BY <2>1, <2>4, HearCases
    <2>5. CASE Provider
        <3>1. wire' = wire \/ (wire # <<>> /\ wire' = Tail(wire))
            BY <2>5, ProviderCases DEF Speaks, StreamsFresh, StreamsLate, TakesCancel,
                                      TakesRequest, TakesSecond, Closes
        <3> QED
            BY <2>1, <2>2, <3>1
    <2>6. CASE Handles
        BY <2>1, <2>3, <2>6 DEF Handles
    <2> QED
        BY <2>4, <2>5, <2>6, LifeCases
<1>4. ASSUME NEW s \in stops
      PROVE  /\ s.hit \in 1..Len(origin') /\ s.meant \in Response
             /\ cancels'[s.meant] # 0 /\ s.meant <= s.hit
    BY <1>0, <1>1 DEF AimInv
<1>5. CASE stops' = stops
    BY <1>3, <1>4, <1>5 DEF AimInv
<1>6. CASE Stopping
    <2> DEFINE x == [meant |-> Head(wire).r, hit |-> prov.active]
    <2>1. Head(wire) \in Elems(wire)
        BY <1>0, <1>6, ElemsTail DEF Stopping
    <2>2. /\ x.meant \in Response /\ cancels[x.meant] # 0
          /\ x.hit = Len(origin) /\ Len(origin) # 0
        BY <1>0, <1>2, <1>6, <2>1 DEF Stopping
    <2>3. x.meant <= Len(origin)
        BY <2>2 DEF SparedInv
    <2>4. x.hit \in 1..Len(origin') /\ x.meant <= x.hit /\ cancels'[x.meant] # 0
        BY <1>0, <1>1, <2>2, <2>3
    <2>5. stops' = stops \cup {x}
        BY <1>6 DEF Stopping
    <2> HIDE DEF x
    <2> QED
        BY <1>3, <1>4, <2>2, <2>4, <2>5 DEF AimInv
<1> QED
    BY <1>5, <1>6, StopsStep

LEMMA AimHolds ==
    Spec => []AimInv
<1>1. Init => AimInv
    <2> SUFFICES ASSUME Init PROVE AimInv
        OBVIOUS
    <2>1. wire = <<>> /\ stops = {}
        BY DEF Init
    <2>2. Elems(wire) = {}
        BY <2>1, ElemsSmall
    <2> QED
        BY <2>1, <2>2 DEF AimInv
<1>2. TypeInv /\ SparedInv /\ AimInv /\ [Next]_vars => AimInv'
    BY AimStep
<1> QED
    BY <1>1, <1>2, TypesHold, SparedHolds, PTL DEF Spec

(* With a provider that tells which response continues a tool batch the    *)
(* runner never means a barge-in cancel for a continuation (CancelTarget   *)
(* looks at the binding), for any interleaving of starts, rejected         *)
(* requests, deferred continuations and cancels, until the session was     *)
(* closed or an acknowledgement requested.  A cancel that the provider     *)
(* took while a continuation played was meant for an earlier response.     *)
THEOREM ContinuationsKept == Spec => []ContinuationSpared
<1>1. ASSUME TypeInv, SparedInv, AimInv PROVE ContinuationSpared
    <2> SUFFICES ASSUME Echoed
                 PROVE  /\ \A r \in 1..Len(origin) : origin[r] = "cont" => cancels[r] = 0
                        /\ \A s \in stops : origin[s.hit] = "cont" => s.meant < s.hit
        BY DEF ContinuationSpared, Echoed
    <2>1. \A r \in 1..Len(origin) : origin[r] = "cont" => cancels[r] = 0
        <3> SUFFICES ASSUME NEW r \in 1..Len(origin), origin[r] = "cont"
                     PROVE  cancels[r] = 0
            OBVIOUS
        <3>1. r \in Response
            BY <1>1, RunnerFacts, SessionAssumption DEF Response
        <3> QED
            BY <1>1, <3>1 DEF SparedInv
    <2>2. ASSUME NEW s \in stops, origin[s.hit] = "cont" PROVE s.meant < s.hit
        <3>1. /\ s.hit \in 1..Len(origin) /\ s.meant \in Nat
              /\ cancels[s.meant] # 0 /\ s.meant <= s.hit
            BY <1>1 DEF AimInv, Response
        <3>2. cancels[s.hit] = 0
            BY <2>1, <2>2, <3>1
        <3> QED
            BY <3>1, <3>2
    <2> QED
        BY <2>1, <2>2
<1> QED
    BY <1>1, TypesHold, SparedHolds, AimHolds, PTL

=============================================================================
