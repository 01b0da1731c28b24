---------------------------- MODULE SessionOutbox ----------------------------
(***************************************************************************)
(* The ordered path from the session goroutine of the ModelRunner to its   *)
(* DeltaOutbox (go-agent-loop/pkg/participants,                            *)
(* model_runner_session_outbox.go).  Four actors run concurrently:         *)
(*                                                                         *)
(*   - the session goroutine, which calls write() for every delta, then    *)
(*     endSession/finishClosedSession and flush();                         *)
(*   - the pump goroutine, started when a must-deliver delta meets a full  *)
(*     outbox, which waits for capacity on behalf of the session;          *)
(*   - the consumer (engine.GlobalOrdering), which reads DeltaOutbox;      *)
(*   - the owner of the session context, which may cancel it at any time.  *)
(*                                                                         *)
(* A delta is its production number and its delivery class.  What a        *)
(* critical section of q.mu does is one action; a channel operation is one *)
(* action; between them every interleaving is possible.                    *)
(***************************************************************************)
EXTENDS Naturals, Sequences, FiniteSets

CONSTANTS
    OutCap,     \* capacity of the DeltaOutbox channel
    Limit,      \* maxPendingSessionDeltas
    MaxDeltas   \* bound on the deltas of one session, its terminal record aside

ASSUME OutboxAssumption ==
    /\ OutCap \in Nat \ {0}
    /\ Limit \in Nat \ {0}
    /\ MaxDeltas \in Nat

VARIABLES
    out,        \* DeltaOutbox: the deltas in the channel
    pending,    \* q.pending
    overflow,   \* q.overflow; q.abandon is closed exactly when it is set
    writing,    \* q.writing
    pump,       \* where the pump goroutine is; "none" iff q.drained is nil
    entry,      \* the pump's local copy of the entry it is writing
    sess,       \* where the session goroutine is
    ctxLive,    \* the session context has not ended
    consumer,   \* "reading", or "stopped" after a terminal ERROR
    produced,   \* how many deltas write() has been called for
    delivered,  \* history: what the consumer received, in order
    shed,       \* history: deltas counted in DeltaOutbox.drops
    lost        \* history: deltas given up without being counted

vars == <<out, pending, overflow, writing, pump, entry, sess, ctxLive,
          consumer, produced, delivered, shed, lost>>

Kind == {"ordinary", "must", "terminal"}
Delta == [id : 1..(MaxDeltas + 1), kind : Kind]
NoDelta == [id |-> 0, kind |-> "ordinary"]

(* messages.MustDeliver, or a terminal record.                             *)
MustDeliver(d) == d.kind # "ordinary"

SpareCapacity == Len(out) < OutCap
Pumping == pump # "none"

Init ==
    /\ out = <<>> /\ pending = <<>>
    /\ overflow = FALSE /\ writing = FALSE
    /\ pump = "none" /\ entry = NoDelta
    /\ sess = "run" /\ ctxLive = TRUE /\ consumer = "reading"
    /\ produced = 0
    /\ delivered = <<>> /\ shed = {} /\ lost = {}

-----------------------------------------------------------------------------
(* The session goroutine                                                   *)

(* WriteStreamDelta on the direct path.  An ordinary delta is not written  *)
(* once the context ended and is dropped by a full outbox; a must-deliver  *)
(* one has spare capacity here, and Go's select chooses freely between the *)
(* write and an ended context.                                             *)
WriteDirect(d) ==
    \/ /\ SpareCapacity
       /\ ctxLive \/ MustDeliver(d)
       /\ out' = Append(out, d)
       /\ UNCHANGED <<shed, lost>>
    \/ /\ ~ctxLive
       /\ lost' = lost \cup {d}
       /\ UNCHANGED <<out, shed>>
    \/ /\ ctxLive /\ ~SpareCapacity /\ ~MustDeliver(d)
       /\ shed' = shed \cup {d}
       /\ UNCHANGED <<out, lost>>

(* Mutant: the head the pump is writing is shed with the rest.             *)
AbandonedWithHead == pending

(* abandonLocked: everything queued is shed except the head the pump owns. *)
Abandoned ==
    IF writing /\ pending # <<>> THEN Tail(pending) ELSE pending

SeqSet(s) == {s[i] : i \in DOMAIN s}

(* The first write that meets a full outbox starts the pump.               *)
WriteStartPump(d) ==
    /\ pending' = Append(pending, d)
    /\ pump' = "top"
    /\ UNCHANGED <<out, shed, lost, overflow>>

(* Mutants: a must-deliver delta is shed like an ordinary one; the bound   *)
(* is tested after the queue has passed it.                                *)
ShedsAny(d) == d.kind # "terminal" /\ Len(pending) >= OutCap
OverflowsLate(d) ==
    /\ MustDeliver(d) \/ Len(pending) < OutCap
    /\ d.kind # "terminal" /\ Len(pending) > Limit

(* A write while the pump runs: an ordinary delta is shed when the queue is *)
(* as long as the outbox, a terminal record always joins the queue, and any *)
(* other delta that meets a full queue abandons it.                         *)
ShedsOrdinary(d) == ~MustDeliver(d) /\ Len(pending) >= OutCap
Overflows(d) == ~ShedsOrdinary(d) /\ d.kind # "terminal" /\ Len(pending) >= Limit

WriteQueued(d) ==
    \/ /\ ShedsOrdinary(d)
       /\ shed' = shed \cup {d}
       /\ UNCHANGED <<pending, overflow>>
    \/ /\ Overflows(d)
       /\ shed' = shed \cup SeqSet(Abandoned) \cup {d}
       /\ pending' = <<>>
       /\ overflow' = TRUE
    \/ /\ ~ShedsOrdinary(d) /\ ~Overflows(d)
       /\ pending' = Append(pending, d)
       /\ UNCHANGED <<shed, overflow>>

(* sessionOutbox.write.  After overflow a terminal record first waits for  *)
(* the pump to exit; everything else is shed.                              *)
Write(k, after) ==
    LET d == [id |-> produced + 1, kind |-> k] IN
    /\ produced' = produced + 1
    /\ \/ /\ overflow
          /\ IF k = "terminal"
             THEN sess' = "drained" /\ UNCHANGED shed
             ELSE sess' = after /\ shed' = shed \cup {d}
          /\ UNCHANGED <<out, pending, overflow, pump, lost>>
       \/ /\ ~overflow /\ ~Pumping /\ (SpareCapacity \/ ~MustDeliver(d))
          /\ WriteDirect(d)
          /\ sess' = after
          /\ UNCHANGED <<pending, overflow, pump>>
       \/ /\ ~overflow /\ ~Pumping /\ ~SpareCapacity /\ MustDeliver(d)
          /\ WriteStartPump(d)
          /\ sess' = after
       \/ /\ ~overflow /\ Pumping
          /\ WriteQueued(d)
          /\ sess' = after
          /\ UNCHANGED <<out, pump, lost>>
    /\ UNCHANGED <<writing, entry, ctxLive, consumer, delivered>>

(* One delta of the running session.                                       *)
Produce(k) == sess = "run" /\ produced < MaxDeltas /\ Write(k, "run")

(* endSession with a failure (an overflow included): a terminal record is  *)
(* published only if the context is live when this is decided.             *)
Fail ==
    /\ sess = "run"
    /\ sess' = IF ctxLive THEN "fail" ELSE "ending"
    /\ UNCHANGED <<out, pending, overflow, writing, pump, entry, ctxLive,
                   consumer, produced, delivered, shed, lost>>

PublishFailure == sess = "fail" /\ Write("terminal", "ending")

(* The provider closed the session: no terminal record (its SESSION.CLOSE  *)
(* is one more must-deliver delta).  finishClosedSession first forwards    *)
(* what the provider still had queued, which may itself overflow, so the   *)
(* overflow check at the top of runSession's loop does not guard it.       *)
CloseSession ==
    /\ sess = "run"
    /\ sess' = "ending"
    /\ UNCHANGED <<out, pending, overflow, writing, pump, entry, ctxLive,
                   consumer, produced, delivered, shed, lost>>

(* flushPendingSessionSendErrors and the final SESSION.CLOSE.              *)
FlushDeferred ==
    sess = "ending" /\ produced < MaxDeltas /\ Write("must", "ending")

(* Mutant: flush returns on ctx.Done without waiting for the pump.         *)
FlushOnDone ==
    /\ sess = "ending" /\ (~Pumping \/ ~ctxLive)
    /\ sess' = "done"
    /\ UNCHANGED <<out, pending, overflow, writing, pump, entry, ctxLive,
                   consumer, produced, delivered, shed, lost>>

(* flush(): with the context live or ended it returns when the pump exits. *)
Flush ==
    /\ sess = "ending" /\ ~Pumping
    /\ sess' = "done"
    /\ UNCHANGED <<out, pending, overflow, writing, pump, entry, ctxLive,
                   consumer, produced, delivered, shed, lost>>

(* Mutant: the terminal record is written without waiting for the pump.    *)
AwaitNothing ==
    /\ sess = "drained"
    /\ sess' = "push"
    /\ UNCHANGED <<out, pending, overflow, writing, pump, entry, ctxLive,
                   consumer, produced, delivered, shed, lost>>

(* writeAbandoned's wait for the released pump.                            *)
AwaitDrained ==
    /\ sess = "drained" /\ ~Pumping
    /\ sess' = "push"
    /\ UNCHANGED <<out, pending, overflow, writing, pump, entry, ctxLive,
                   consumer, produced, delivered, shed, lost>>

-----------------------------------------------------------------------------
(* TypedBuffer.WriteTerminal is a loop of two channel operations: push, or *)
(* evict the oldest when the push found the channel full.  A reader may    *)
(* run between them.                                                       *)

SessHeld == [id |-> produced, kind |-> "terminal"]

SessPush ==
    /\ sess = "push"
    /\ IF SpareCapacity
       THEN out' = Append(out, SessHeld) /\ sess' = "ending"
       ELSE sess' = "evict" /\ UNCHANGED out
    /\ UNCHANGED <<pending, overflow, writing, pump, entry, ctxLive,
                   consumer, produced, delivered, shed, lost>>

EvictOldest ==
    IF out = <<>>
    THEN UNCHANGED <<out, shed>>
    ELSE out' = Tail(out) /\ shed' = shed \cup {Head(out)}

SessEvict ==
    /\ sess = "evict"
    /\ EvictOldest
    /\ sess' = "push"
    /\ UNCHANGED <<pending, overflow, writing, pump, entry, ctxLive,
                   consumer, produced, delivered, lost>>

-----------------------------------------------------------------------------
(* The pump goroutine                                                      *)

PumpTake ==
    /\ pump = "top"
    /\ IF pending = <<>>
       THEN pump' = "none" /\ UNCHANGED <<entry, writing>>
       ELSE /\ entry' = Head(pending)
            /\ writing' = TRUE
            /\ pump' = "check"
    /\ UNCHANGED <<out, pending, overflow, sess, ctxLive, consumer, produced,
                   delivered, shed, lost>>

(* The write of an entry ends without the entry reaching the outbox.       *)
PumpGiveUp(counted) ==
    IF entry.kind = "terminal"
    THEN pump' = "push" /\ UNCHANGED <<shed, lost>>
    ELSE /\ pump' = "pop"
         /\ IF counted
            THEN shed' = shed \cup {entry} /\ UNCHANGED lost
            ELSE lost' = lost \cup {entry} /\ UNCHANGED shed

(* pumpEntry's look at ctx.Err().                                          *)
PumpCheck ==
    /\ pump = "check"
    /\ IF ctxLive
       THEN pump' = "wait" /\ UNCHANGED <<shed, lost>>
       ELSE PumpGiveUp(FALSE)
    /\ UNCHANGED <<out, pending, overflow, writing, entry, sess, ctxLive,
                   consumer, produced, delivered>>

(* The three cases of WriteWaitContextOrDone's select.                     *)
PumpWrite ==
    /\ pump = "wait" /\ SpareCapacity
    /\ out' = Append(out, entry)
    /\ pump' = "pop"
    /\ UNCHANGED <<pending, overflow, writing, entry, sess, ctxLive, consumer,
                   produced, delivered, shed, lost>>

(* Mutants: the select has no case for q.abandon; or none for ctx.Done.    *)
PumpNotStopped ==
    /\ pump = "wait" /\ overflow /\ ~ctxLive
    /\ PumpGiveUp(TRUE)
    /\ UNCHANGED <<out, pending, overflow, writing, entry, sess, ctxLive,
                   consumer, produced, delivered>>

PumpNotCancelled ==
    /\ pump = "wait" /\ overflow /\ ~ctxLive
    /\ PumpGiveUp(FALSE)
    /\ UNCHANGED <<out, pending, overflow, writing, entry, sess, ctxLive,
                   consumer, produced, delivered>>

PumpStopped ==
    /\ pump = "wait" /\ overflow
    /\ PumpGiveUp(TRUE)
    /\ UNCHANGED <<out, pending, overflow, writing, entry, sess, ctxLive,
                   consumer, produced, delivered>>

PumpCancelled ==
    /\ pump = "wait" /\ ~ctxLive
    /\ PumpGiveUp(FALSE)
    /\ UNCHANGED <<out, pending, overflow, writing, entry, sess, ctxLive,
                   consumer, produced, delivered>>

(* Mutant: the terminal record is pushed without looking at the capacity.  *)
PumpPushPastCap ==
    /\ pump = "push"
    /\ out' = Append(out, entry) /\ pump' = "pop"
    /\ UNCHANGED <<pending, overflow, writing, entry, sess, ctxLive, consumer,
                   produced, delivered, shed, lost>>

PumpPush ==
    /\ pump = "push"
    /\ IF SpareCapacity
       THEN out' = Append(out, entry) /\ pump' = "pop"
       ELSE pump' = "evict" /\ UNCHANGED out
    /\ UNCHANGED <<pending, overflow, writing, entry, sess, ctxLive, consumer,
                   produced, delivered, shed, lost>>

PumpEvict ==
    /\ pump = "evict"
    /\ EvictOldest
    /\ pump' = "push"
    /\ UNCHANGED <<pending, overflow, writing, entry, sess, ctxLive, consumer,
                   produced, delivered, lost>>

PumpPop ==
    /\ pump = "pop"
    /\ pump' = "top"
    /\ writing' = FALSE
    /\ entry' = NoDelta
    /\ pending' = IF pending = <<>> THEN pending ELSE Tail(pending)
    /\ UNCHANGED <<out, overflow, sess, ctxLive, consumer, produced,
                   delivered, shed, lost>>

PumpStep == PumpTake \/ PumpCheck \/ PumpWrite \/ PumpStopped
            \/ PumpCancelled \/ PumpPush \/ PumpEvict \/ PumpPop

-----------------------------------------------------------------------------
(* The consumer and the context                                            *)

(* receiveTickInput takes one delta; a terminal ERROR makes                *)
(* consumeModelDelta drain the outbox, and the engine stops.               *)
Consume ==
    /\ consumer = "reading" /\ out # <<>>
    /\ IF Head(out).kind = "terminal"
       THEN /\ delivered' = delivered \o out
            /\ out' = <<>>
            /\ consumer' = "stopped"
       ELSE /\ delivered' = Append(delivered, Head(out))
            /\ out' = Tail(out)
            /\ UNCHANGED consumer
    /\ UNCHANGED <<pending, overflow, writing, pump, entry, sess, ctxLive,
                   produced, shed, lost>>

(* Execute, Run or the caller cancels; the engine's exit does so too.      *)
Cancel ==
    /\ ctxLive
    /\ ctxLive' = FALSE
    /\ UNCHANGED <<out, pending, overflow, writing, pump, entry, sess,
                   consumer, produced, delivered, shed, lost>>

SessionStep ==
    \/ \E k \in {"ordinary", "must"} : Produce(k)
    \/ Fail \/ PublishFailure \/ CloseSession \/ FlushDeferred
    \/ Flush \/ AwaitDrained \/ SessPush \/ SessEvict

Next == SessionStep \/ PumpStep \/ Consume \/ Cancel

(* The Go scheduler runs every goroutine that can run.  The session        *)
(* goroutine returns to the overflow check, and to the select on ctx.Done, *)
(* after a bounded burst of writes.  A stopped engine cancels the context. *)
(* Nothing is assumed of the consumer.                                     *)
Fairness ==
    /\ WF_vars(PumpStep)
    /\ WF_vars(consumer = "stopped" /\ Cancel)
    /\ WF_vars((overflow \/ ~ctxLive) /\ Fail)
    /\ WF_vars(PublishFailure) /\ WF_vars(Flush)
    /\ WF_vars(AwaitDrained \/ SessPush \/ SessEvict)

Spec == Init /\ [][Next]_vars
FairSpec == Spec /\ Fairness
-----------------------------------------------------------------------------
(* Properties                                                              *)

TypeOK ==
    /\ out \in Seq(Delta) /\ Len(out) <= OutCap
    /\ pending \in Seq(Delta)
    /\ overflow \in BOOLEAN /\ writing \in BOOLEAN /\ ctxLive \in BOOLEAN
    /\ pump \in {"none", "top", "check", "wait", "push", "evict", "pop"}
    /\ entry \in Delta \cup {NoDelta}
    /\ sess \in {"run", "fail", "ending", "drained", "push", "evict", "done"}
    /\ consumer \in {"reading", "stopped"}
    /\ produced \in 0..(MaxDeltas + 1)
    /\ delivered \in Seq(Delta)
    /\ shed \subseteq Delta /\ lost \subseteq Delta

(* The entry the pump has taken and not yet written.                       *)
InFlight ==
    IF pump \in {"check", "wait", "push", "evict"} THEN <<entry>> ELSE <<>>

(* What is queued behind it.                                               *)
Queued == IF writing /\ pending # <<>> THEN Tail(pending) ELSE pending

(* The deltas on their way, oldest first.                                  *)
Path == delivered \o out \o InFlight \o Queued

Increasing(s) == \A i, j \in DOMAIN s : i < j => s[i].id < s[j].id

(* Deltas reach DeltaOutbox, and the consumer, in the order the session    *)
(* produced them, whether they were written directly, by the pump, or past *)
(* the bound as a terminal record; none is written twice.                  *)
InProductionOrder == Increasing(Path)

(* A must-deliver delta is given up only after the queue overflowed or the *)
(* session context ended: a stalled consumer alone costs ordinary deltas.  *)
MustDeliverKept ==
    (\E d \in shed \cup lost : MustDeliver(d)) => overflow \/ ~ctxLive

(* Every delta the session produced is in exactly one place: received, in  *)
(* the outbox, queued, counted as dropped, or, only once the context has   *)
(* ended, given up.  The drop counter therefore misses nothing while the   *)
(* session is live.                                                        *)
Held == IF sess \in {"drained", "push", "evict"} THEN {SessHeld} ELSE {}

Accounted ==
    LET onPath == SeqSet(Path) \cup Held IN
    /\ {d.id : d \in onPath \cup shed \cup lost} = 1..produced
    /\ Len(Path) + Cardinality(Held) + Cardinality(shed) + Cardinality(lost)
         = produced
    /\ ctxLive => lost = {}

(* The queue is bounded: a terminal record is the only one admitted past   *)
(* Limit, and it is admitted once.                                         *)
QueueBounded == Len(pending) <= Limit + 1

(* "Nothing the session produced is written after flush returns."          *)
QuietAfterFlush == [][sess = "done" => Len(out') <= Len(out)]_vars

(* Once the queue overflowed or the session context ended, the session     *)
(* goroutine finishes (endSession, writeAbandoned and flush return) even   *)
(* if nobody reads DeltaOutbox any more: shutdown never waits on a stalled *)
(* consumer.                                                               *)
SessionFinishes == (overflow \/ ~ctxLive) ~> (sess = "done")

(* If the engine keeps reading, or cancels the context when it stops,      *)
(* the pump empties its queue and exits: a must-deliver delta handed to it *)
(* is settled and later deltas take the direct path again.                 *)
PumpDrains == WF_vars(Consume) => (Pumping ~> ~Pumping)
=============================================================================
