------------------------- MODULE SessionOutboxProofs -------------------------
(***************************************************************************)
(* Theorems about SessionOutbox for every outbox capacity, queue bound and *)
(* session length.                                                         *)
(***************************************************************************)
EXTENDS SessionOutbox, FiniteSetTheorems, TLAPS

(* The ids of a sequence of deltas.                                        *)
Ids(s) == {s[i].id : i \in DOMAIN s}

(* Every id of S is below every id of T.                                   *)
Below(S, T) == \A m \in S : \A n \in T : m < n

InFlightIds ==
    IF pump \in {"check", "wait", "push", "evict"} THEN {entry.id} ELSE {}

(* How the program counters constrain the queue.                           *)
ControlInv ==
    /\ writing <=> pump \in {"check", "wait", "push", "evict", "pop"}
    /\ writing => entry \in Delta
    /\ writing /\ ~overflow => pending # <<>>
    /\ writing /\ pending # <<>> => Head(pending) = entry
    /\ overflow \/ pump = "none" => pending = <<>>
    /\ sess \in {"drained", "push", "evict"} => overflow /\ produced > 0
    /\ sess \in {"push", "evict", "done"} => pump = "none"
    /\ sess \in {"run", "fail"} => produced <= MaxDeltas

(* The queue never holds more than its bound and one terminal record.      *)
LengthInv ==
    /\ Len(pending) <= Limit + 1
    /\ sess \in {"run", "fail"} => Len(pending) <= Limit

(* Must-deliver deltas are given up only after overflow or cancellation,   *)
(* and WriteTerminal's eviction runs only then.                            *)
KeptInv ==
    /\ \A d \in shed \cup lost : MustDeliver(d) => overflow \/ ~ctxLive
    /\ pump \in {"push", "evict"} => overflow \/ ~ctxLive

(* The order of the path, segment by segment.                              *)
OrderInv ==
    /\ Increasing(delivered) /\ Increasing(out) /\ Increasing(pending)
    /\ Below(Ids(delivered), Ids(out) \cup InFlightIds \cup Ids(Queued))
    /\ Below(Ids(out), InFlightIds \cup Ids(Queued))
    /\ \A n \in Ids(delivered) \cup Ids(out) \cup InFlightIds \cup Ids(pending) :
          /\ n <= produced
          /\ sess \in {"drained", "push", "evict"} => n < produced

CoreInv == TypeOK /\ ControlInv

(* The numbers of a set of deltas, each borne by one delta only.           *)
NumbersOf(D) == {d.id : d \in D}
OneEach(D) == \A c, d \in D : c.id = d.id => c = d

(* The numbers still to be settled: on the path, or with the session       *)
(* goroutine while it waits to write a terminal record past the bound.     *)
OnPath == Ids(delivered) \cup Ids(out) \cup InFlightIds \cup Ids(Queued)
HeldIds == IF sess \in {"drained", "push", "evict"} THEN {produced} ELSE {}

(* Every number up to n is in exactly one of three sets.                   *)
Split(K, S, L, n) ==
    /\ K \cup S \cup L = 1..n
    /\ K \cap S = {} /\ K \cap L = {} /\ S \cap L = {}

(* What was produced is kept, shed or lost, each delta in one place.       *)
AccountInv ==
    /\ Split(OnPath \cup HeldIds, NumbersOf(shed), NumbersOf(lost), produced)
    /\ OneEach(shed) /\ OneEach(lost)
    /\ ctxLive => lost = {}

-----------------------------------------------------------------------------
(* Sequences of deltas                                                     *)

LEMMA AppendType ==
    ASSUME NEW S, NEW s \in Seq(S), NEW e \in S
    PROVE  /\ Append(s, e) \in Seq(S)
           /\ Len(Append(s, e)) = Len(s) + 1
           /\ \A i \in 1..Len(s) : Append(s, e)[i] = s[i]
           /\ Append(s, e)[Len(s) + 1] = e
BY SMT

LEMMA TailType ==
    ASSUME NEW S, NEW s \in Seq(S), s # <<>>
    PROVE  /\ Tail(s) \in Seq(S)
           /\ Len(Tail(s)) = Len(s) - 1
           /\ Len(s) > 0
           /\ \A i \in 1..(Len(s) - 1) : Tail(s)[i] = s[i + 1]
           /\ Head(s) = s[1]
           /\ Head(s) \in S
BY SMT

LEMMA ConcatType ==
    ASSUME NEW S, NEW s \in Seq(S), NEW t \in Seq(S)
    PROVE  /\ s \o t \in Seq(S)
           /\ Len(s \o t) = Len(s) + Len(t)
           /\ \A i \in 1..Len(s) : (s \o t)[i] = s[i]
           /\ \A i \in 1..Len(t) : (s \o t)[Len(s) + i] = t[i]
BY SMT

LEMMA DeltaType ==
    /\ \A d \in Delta : d.id \in Nat /\ d.id > 0
    /\ MaxDeltas \in Nat
BY OutboxAssumption DEF Delta

LEMMA IdsAppend ==
    ASSUME NEW S, NEW s \in Seq(S), NEW e \in S
    PROVE  Ids(Append(s, e)) = Ids(s) \cup {e.id}
<1>1. DOMAIN s = 1..Len(s) /\ DOMAIN Append(s, e) = 1..(Len(s) + 1)
    BY AppendType
<1>2. Len(s) \in Nat
    OBVIOUS
<1> QED
    BY <1>1, <1>2, AppendType DEF Ids

LEMMA IdsTail ==
    ASSUME NEW S, NEW s \in Seq(S), s # <<>>
    PROVE  /\ Ids(Tail(s)) \subseteq Ids(s)
           /\ Head(s).id \in Ids(s)
<1>1. DOMAIN s = 1..Len(s) /\ DOMAIN Tail(s) = 1..(Len(s) - 1) /\ Len(s) \in Nat
    BY TailType
<1> QED
    BY <1>1, TailType DEF Ids

LEMMA IncreasingAppend ==
    ASSUME NEW s \in Seq(Delta), NEW e \in Delta, Increasing(s),
           Below(Ids(s), {e.id})
    PROVE  Increasing(Append(s, e))
<1>1. DOMAIN s = 1..Len(s) /\ DOMAIN Append(s, e) = 1..(Len(s) + 1) /\ Len(s) \in Nat
    BY AppendType
<1>2. \A i \in 1..Len(s) : s[i].id < e.id
    BY <1>1 DEF Below, Ids
<1> QED
    BY <1>1, <1>2, AppendType, DeltaType DEF Increasing

LEMMA IncreasingTail ==
    ASSUME NEW s \in Seq(Delta), s # <<>>, Increasing(s)
    PROVE  /\ Increasing(Tail(s))
           /\ Below({Head(s).id}, Ids(Tail(s)))
<1>1. DOMAIN s = 1..Len(s) /\ DOMAIN Tail(s) = 1..(Len(s) - 1) /\ Len(s) \in Nat
    BY TailType
<1>2. Increasing(Tail(s))
    BY <1>1, TailType DEF Increasing
<1>3. \A i \in DOMAIN Tail(s) : s[1].id < Tail(s)[i].id
    BY <1>1, TailType DEF Increasing
<1> QED
    BY <1>2, <1>3, TailType DEF Below, Ids

LEMMA IncreasingConcat ==
    ASSUME NEW s \in Seq(Delta), NEW t \in Seq(Delta),
           Increasing(s), Increasing(t), Below(Ids(s), Ids(t))
    PROVE  /\ Increasing(s \o t)
           /\ Ids(s \o t) = Ids(s) \cup Ids(t)
<1>1. /\ DOMAIN s = 1..Len(s) /\ DOMAIN t = 1..Len(t)
      /\ DOMAIN (s \o t) = 1..(Len(s) + Len(t))
      /\ Len(s) \in Nat /\ Len(t) \in Nat
    BY ConcatType
<1>2. \A i \in 1..Len(s), j \in 1..Len(t) : s[i].id < t[j].id
    BY <1>1 DEF Below, Ids
<1>3. \A i \in 1..(Len(s) + Len(t)) :
         \/ i \in 1..Len(s) /\ (s \o t)[i] = s[i]
         \/ i - Len(s) \in 1..Len(t) /\ (s \o t)[i] = t[i - Len(s)]
    BY <1>1, ConcatType
<1>4. Increasing(s \o t)
    <2> SUFFICES ASSUME NEW i \in 1..(Len(s) + Len(t)),
                        NEW j \in 1..(Len(s) + Len(t)), i < j
                 PROVE  (s \o t)[i].id < (s \o t)[j].id
        BY <1>1 DEF Increasing
    <2>1. CASE j \in 1..Len(s)
        BY SMTT(60), <2>1, <1>1, <1>3, ConcatType DEF Increasing
    <2>2. CASE i \in 1..Len(s) /\ j - Len(s) \in 1..Len(t)
        BY <2>2, <1>1, <1>2, <1>3
    <2>3. CASE i - Len(s) \in 1..Len(t) /\ j - Len(s) \in 1..Len(t)
        BY SMTT(60), <2>3, <1>1, <1>3 DEF Increasing
    <2> QED
        BY <2>1, <2>2, <2>3, <1>1
<1>5. Ids(s \o t) = Ids(s) \cup Ids(t)
    <2>1. Ids(s \o t) \subseteq Ids(s) \cup Ids(t)
        BY <1>1, <1>3 DEF Ids
    <2>2. Ids(s) \subseteq Ids(s \o t)
        BY <1>1, ConcatType DEF Ids
    <2>3. \A i \in 1..Len(t) : Len(s) + i \in 1..(Len(s) + Len(t))
                               /\ (s \o t)[Len(s) + i] = t[i]
        BY <1>1, ConcatType
    <2>4. Ids(t) \subseteq Ids(s \o t)
        BY <2>3, <1>1 DEF Ids
    <2> QED
        BY <2>1, <2>2, <2>4
<1> QED
    BY <1>4, <1>5
-----------------------------------------------------------------------------
(* Types and control                                                       *)

(* The new delta of a write, and what the write needs of the state.        *)
LEMMA NewDelta ==
    ASSUME CoreInv, produced <= MaxDeltas, NEW k \in Kind
    PROVE  [id |-> produced + 1, kind |-> k] \in Delta
BY OutboxAssumption DEF CoreInv, TypeOK, Delta

LEMMA WriteCore ==
    ASSUME CoreInv, NEW k \in Kind, NEW after \in {"run", "ending"},
           Write(k, after), produced <= MaxDeltas,
           sess \in {"run", "fail", "ending"},
           after = "run" => produced < MaxDeltas
    PROVE  CoreInv'
<1> DEFINE d == [id |-> produced + 1, kind |-> k]
<1>1. d \in Delta
    BY NewDelta
<1>2. MaxDeltas \in Nat /\ OutCap \in Nat /\ produced \in Nat
    BY OutboxAssumption DEF CoreInv, TypeOK
<1>3. UNCHANGED <<writing, entry, ctxLive, consumer, delivered>>
      /\ produced' = produced + 1
    BY DEF Write
<1> USE <1>1, <1>2, <1>3
<1>4. CASE /\ overflow
           /\ IF k = "terminal"
              THEN sess' = "drained" /\ UNCHANGED shed
              ELSE sess' = after /\ shed' = shed \cup {d}
           /\ UNCHANGED <<out, pending, overflow, pump, lost>>
    BY <1>4 DEF CoreInv, TypeOK, ControlInv
<1>5. CASE /\ ~overflow /\ ~Pumping
           /\ WriteDirect(d)
           /\ sess' = after
           /\ UNCHANGED <<pending, overflow, pump>>
    <2>0. out \in Seq(Delta) /\ Len(out) \in Nat
        BY DEF CoreInv, TypeOK
    <2>a. Append(out, d) \in Seq(Delta) /\ Len(Append(out, d)) = Len(out) + 1
        BY <2>0, AppendType
    <2>1. out' \in Seq(Delta) /\ Len(out') <= OutCap
          /\ shed' \subseteq Delta /\ lost' \subseteq Delta
        <3>1. CASE SpareCapacity /\ out' = Append(out, d) /\ UNCHANGED <<shed, lost>>
            BY <3>1, <2>0, <2>a DEF CoreInv, TypeOK, SpareCapacity
        <3>2. CASE lost' = lost \cup {d} /\ UNCHANGED <<out, shed>>
            BY <3>2 DEF CoreInv, TypeOK
        <3>3. CASE shed' = shed \cup {d} /\ UNCHANGED <<out, lost>>
            BY <3>3 DEF CoreInv, TypeOK
        <3> QED
            BY <1>5, <3>1, <3>2, <3>3 DEF WriteDirect
    <2> QED
        BY <1>5, <2>1 DEF CoreInv, TypeOK, ControlInv, Pumping
<1>6. CASE /\ ~overflow /\ ~Pumping /\ WriteStartPump(d) /\ sess' = after
    <2>1. pending' \in Seq(Delta)
        BY <1>6, AppendType DEF CoreInv, TypeOK, WriteStartPump
    <2> QED
        BY <1>6, <2>1 DEF CoreInv, TypeOK, ControlInv, Pumping, WriteStartPump
<1>7. CASE /\ ~overflow /\ Pumping /\ WriteQueued(d) /\ sess' = after
           /\ UNCHANGED <<out, pump, lost>>
    <2>1. CASE ShedsOrdinary(d) /\ shed' = shed \cup {d}
               /\ UNCHANGED <<pending, overflow>>
        BY <1>7, <2>1 DEF CoreInv, TypeOK, ControlInv, Pumping
    <2>2. CASE /\ shed' = shed \cup SeqSet(Abandoned) \cup {d}
               /\ pending' = <<>> /\ overflow' = TRUE
        <3>1. Abandoned \in Seq(Delta)
            BY TailType DEF CoreInv, TypeOK, Abandoned
        <3>2. SeqSet(Abandoned) \subseteq Delta
            BY <3>1 DEF SeqSet
        <3> QED
            BY <1>7, <2>2, <3>2 DEF CoreInv, TypeOK, ControlInv, Pumping
    <2>3. CASE pending' = Append(pending, d) /\ UNCHANGED <<shed, overflow>>
        <3>1. pending' \in Seq(Delta)
            BY <2>3, AppendType DEF CoreInv, TypeOK
        <3>2. pending # <<>> => Head(pending') = Head(pending)
            BY <2>3, AppendType DEF CoreInv, TypeOK
        <3>3. pending' # <<>>
            BY <2>3 DEF CoreInv, TypeOK
        <3> QED
            BY <1>7, <2>3, <3>1, <3>2, <3>3 DEF CoreInv, TypeOK, ControlInv, Pumping
    <2> QED
        BY <1>7, <2>1, <2>2, <2>3 DEF WriteQueued
<1> QED
    BY <1>4, <1>5, <1>6, <1>7 DEF Write

(* The program counters and booleans of an action that leaves the queue    *)
(* and the outbox alone.                                                   *)
LEMMA EvictCore ==
    ASSUME CoreInv, EvictOldest
    PROVE  /\ out' \in Seq(Delta) /\ Len(out') <= OutCap
           /\ shed' \subseteq Delta
<1>1. CASE out = <<>>
    BY <1>1 DEF CoreInv, TypeOK, EvictOldest
<1>2. CASE out # <<>>
    BY SMTT(60), <1>2, TailType, OutboxAssumption DEF CoreInv, TypeOK, EvictOldest
<1> QED
    BY <1>1, <1>2

LEMMA NextCore ==
    ASSUME CoreInv, [Next]_vars
    PROVE  CoreInv'
<1> USE OutboxAssumption
<1>1. CASE UNCHANGED vars
    BY <1>1 DEF CoreInv, TypeOK, ControlInv, vars
<1>2. ASSUME NEW k \in {"ordinary", "must"}, Produce(k)
      PROVE  CoreInv'
    BY <1>2, WriteCore DEF Produce, CoreInv, TypeOK, ControlInv, Kind
<1>3. CASE PublishFailure
    BY <1>3, WriteCore DEF PublishFailure, CoreInv, TypeOK, ControlInv, Kind
<1>4. CASE FlushDeferred
    BY <1>4, WriteCore DEF FlushDeferred, CoreInv, TypeOK, ControlInv, Kind
<1>5. CASE Fail \/ CloseSession
    BY <1>5 DEF Fail, CloseSession, CoreInv, TypeOK, ControlInv
<1>6. CASE Flush \/ AwaitDrained
    BY <1>6 DEF Flush, AwaitDrained, CoreInv, TypeOK, ControlInv, Pumping
<1>7. CASE SessPush
    <2>1. SessHeld \in Delta
        BY <1>7 DEF SessPush, SessHeld, Delta, Kind, CoreInv, TypeOK, ControlInv
    <2>2. /\ Append(out, SessHeld) \in Seq(Delta)
          /\ Len(Append(out, SessHeld)) = Len(out) + 1 /\ Len(out) \in Nat
        BY <2>1, AppendType DEF CoreInv, TypeOK
    <2>3. out' \in Seq(Delta) /\ Len(out') <= OutCap
        <3>1. CASE SpareCapacity /\ out' = Append(out, SessHeld)
            BY <3>1, <2>2 DEF SpareCapacity
        <3>2. CASE UNCHANGED out
            BY <3>2 DEF CoreInv, TypeOK
        <3> QED
            BY <1>7, <3>1, <3>2 DEF SessPush
    <2>4. sess' \in {"ending", "evict"}
        BY <1>7 DEF SessPush
    <2> QED
        BY <1>7, <2>3, <2>4 DEF SessPush, CoreInv, TypeOK, ControlInv
<1>8. CASE SessEvict
    BY <1>8, EvictCore DEF SessEvict, CoreInv, TypeOK, ControlInv
<1>9. CASE PumpTake
    <2>1. CASE pending = <<>>
        BY <1>9, <2>1 DEF PumpTake, CoreInv, TypeOK, ControlInv
    <2>2. CASE pending # <<>>
        <3>1. Head(pending) \in Delta
            BY <2>2, TailType DEF CoreInv, TypeOK
        <3> QED
            BY <1>9, <2>2, <3>1 DEF PumpTake, CoreInv, TypeOK, ControlInv
    <2> QED
        BY <2>1, <2>2
<1>10. CASE PumpCheck \/ PumpStopped \/ PumpCancelled
    <2>1. ASSUME NEW b \in BOOLEAN, PumpGiveUp(b), entry \in Delta
          PROVE  /\ pump' \in {"push", "pop"}
                 /\ shed' \subseteq Delta /\ lost' \subseteq Delta
        BY <2>1 DEF PumpGiveUp, CoreInv, TypeOK
    <2>2. pump \in {"check", "wait"} /\ entry \in Delta
        BY <1>10 DEF PumpCheck, PumpStopped, PumpCancelled, CoreInv, TypeOK, ControlInv
    <2>3. /\ pump' \in {"wait", "push", "pop"}
          /\ shed' \subseteq Delta /\ lost' \subseteq Delta
        BY <1>10, <2>1, <2>2 DEF PumpCheck, PumpStopped, PumpCancelled, CoreInv, TypeOK
    <2>4. UNCHANGED <<out, pending, overflow, writing, entry, sess, ctxLive,
                      consumer, produced, delivered>>
        BY <1>10 DEF PumpCheck, PumpStopped, PumpCancelled
    <2> QED
        BY <2>2, <2>3, <2>4 DEF CoreInv, TypeOK, ControlInv
<1>11. CASE PumpWrite \/ PumpPush
    <2>1. entry \in Delta
        BY <1>11 DEF PumpWrite, PumpPush, CoreInv, TypeOK, ControlInv
    <2>2. /\ Append(out, entry) \in Seq(Delta)
          /\ Len(Append(out, entry)) = Len(out) + 1 /\ Len(out) \in Nat
        BY <2>1, AppendType DEF CoreInv, TypeOK
    <2>3. /\ out' \in Seq(Delta) /\ Len(out') <= OutCap
        <3>1. CASE SpareCapacity /\ out' = Append(out, entry)
            BY <3>1, <2>2 DEF SpareCapacity
        <3>2. CASE UNCHANGED out
            BY <3>2 DEF CoreInv, TypeOK
        <3> QED
            BY <1>11, <3>1, <3>2 DEF PumpWrite, PumpPush
    <2>4. pump' \in {"pop", "evict"}
        BY <1>11 DEF PumpWrite, PumpPush
    <2> QED
        BY <1>11, <2>3, <2>4 DEF PumpWrite, PumpPush, CoreInv, TypeOK, ControlInv
<1>12. CASE PumpEvict
    BY <1>12, EvictCore DEF PumpEvict, CoreInv, TypeOK, ControlInv
<1>13. CASE PumpPop
    <2>1. pending' \in Seq(Delta)
        BY <1>13, TailType DEF PumpPop, CoreInv, TypeOK
    <2>2. pending = <<>> => pending' = <<>>
        BY <1>13 DEF PumpPop
    <2> QED
        BY <1>13, <2>1, <2>2 DEF PumpPop, CoreInv, TypeOK, ControlInv
<1>14. CASE Consume
    <2>1. out # <<>> /\ out \in Seq(Delta) /\ delivered \in Seq(Delta)
        BY <1>14 DEF Consume, CoreInv, TypeOK
    <2>2. /\ delivered \o out \in Seq(Delta)
          /\ Append(delivered, Head(out)) \in Seq(Delta)
          /\ Tail(out) \in Seq(Delta) /\ Len(Tail(out)) = Len(out) - 1
        BY <2>1, TailType, ConcatType, AppendType
    <2>3. /\ delivered' \in Seq(Delta)
          /\ out' \in Seq(Delta) /\ Len(out') <= OutCap
          /\ consumer' \in {"reading", "stopped"}
        <3>1. CASE delivered' = delivered \o out /\ out' = <<>> /\ consumer' = "stopped"
            BY <3>1, <2>2
        <3>2. CASE /\ delivered' = Append(delivered, Head(out)) /\ out' = Tail(out)
                   /\ UNCHANGED consumer
            BY <3>2, <2>1, <2>2 DEF CoreInv, TypeOK
        <3> QED
            BY <1>14, <3>1, <3>2 DEF Consume
    <2> QED
        BY <1>14, <2>3 DEF Consume, CoreInv, TypeOK, ControlInv
<1>15. CASE Cancel
    BY ZenonT(60), <1>15 DEF Cancel, CoreInv, TypeOK, ControlInv
<1> QED
    BY <1>1, <1>2, <1>3, <1>4, <1>5, <1>6, <1>7, <1>8, <1>9, <1>10, <1>11,
       <1>12, <1>13, <1>14, <1>15 DEF Next, SessionStep, PumpStep

LEMMA InitCore == Init => CoreInv
<1> SUFFICES ASSUME Init PROVE CoreInv
    OBVIOUS
<1>1. TypeOK
    <2>1. <<>> \in Seq(Delta) /\ Len(<<>>) <= OutCap /\ 0 \in 0..(MaxDeltas + 1)
        BY OutboxAssumption
    <2>2. overflow \in BOOLEAN /\ writing \in BOOLEAN /\ ctxLive \in BOOLEAN
        BY Zenon DEF Init
    <2> QED
        BY <2>1, <2>2, Zenon DEF Init, TypeOK
<1>2. ControlInv
    BY OutboxAssumption DEF Init, ControlInv
<1> QED
    BY <1>1, <1>2 DEF CoreInv

(* Every reachable state is well typed: in particular the channel never    *)
(* holds more than its capacity and a session publishes at most one        *)
(* terminal record past its deltas.                                        *)
THEOREM TypeCorrect == Spec => []TypeOK
<1>1. CoreInv /\ [Next]_vars => CoreInv'
    BY NextCore
<1>2. CoreInv => TypeOK
    BY DEF CoreInv
<1> QED
    BY InitCore, <1>1, <1>2, PTL DEF Spec
-----------------------------------------------------------------------------
(* Bounds, losses and flush                                                *)

LEMMA NextLength ==
    ASSUME CoreInv, CoreInv', LengthInv, [Next]_vars
    PROVE  LengthInv'
<1> USE OutboxAssumption
<1>0. Len(pending) \in Nat /\ pending \in Seq(Delta) /\ Len(<<>>) = 0
    BY DEF CoreInv, TypeOK
<1>1. ASSUME NEW k \in Kind, NEW after \in {"run", "ending"}, Write(k, after),
             sess \in {"run", "fail", "ending"},
             k = "terminal" => sess = "fail" /\ after = "ending",
             sess = "ending" => after = "ending"
      PROVE  LengthInv'
    <2> DEFINE d == [id |-> produced + 1, kind |-> k]
    <2>1. Len(Append(pending, d)) = Len(pending) + 1
        BY <1>0
    <2>2. CASE UNCHANGED pending
        BY <1>1, <2>2 DEF Write, LengthInv
    <2>3. CASE pending' = <<>>
        BY <1>0, <2>3 DEF LengthInv
    <2>4. CASE ~Pumping /\ pending' = Append(pending, d)
        BY <1>0, <2>1, <2>4 DEF LengthInv, CoreInv, ControlInv, Pumping
    <2>5. CASE pending' = Append(pending, d) /\ ~overflow /\ sess' = after
               /\ ~ShedsOrdinary(d) /\ ~Overflows(d)
        <3>1. k = "terminal" \/ Len(pending) < Limit
            BY <2>5, <1>0 DEF Overflows
        <3> QED
            BY <3>1, <2>1, <2>5, <1>0, <1>1 DEF LengthInv
    <2> QED
        BY <1>1, <2>2, <2>3, <2>4, <2>5 DEF Write, WriteStartPump, WriteQueued
<1>2. ASSUME NEW k \in {"ordinary", "must"}, Produce(k)
      PROVE  LengthInv'
    BY <1>1, <1>2 DEF Produce, Kind
<1>3. CASE PublishFailure \/ FlushDeferred
    BY <1>1, <1>3 DEF PublishFailure, FlushDeferred, Kind
<1>4. CASE PumpPop
    <2>1. Len(pending') <= Len(pending) /\ Len(pending') \in Nat
        BY <1>0, <1>4, TailType DEF PumpPop
    <2> QED
        BY <1>0, <1>4, <2>1 DEF PumpPop, LengthInv
<1>5. CASE \/ UNCHANGED vars \/ Fail \/ CloseSession \/ Flush \/ AwaitDrained
           \/ SessPush \/ SessEvict \/ PumpTake \/ PumpCheck \/ PumpWrite
           \/ PumpStopped \/ PumpCancelled \/ PumpPush \/ PumpEvict
           \/ Consume \/ Cancel
    <2>1. UNCHANGED pending /\ (sess' \in {"run", "fail"} => sess \in {"run", "fail"})
        BY <1>5 DEF vars, Fail, CloseSession, Flush, AwaitDrained, SessPush,
           SessEvict, PumpTake, PumpCheck, PumpWrite, PumpStopped,
           PumpCancelled, PumpPush, PumpEvict, Consume, Cancel
    <2> QED
        BY <2>1 DEF LengthInv
<1> QED
    BY <1>2, <1>3, <1>4, <1>5 DEF Next, SessionStep, PumpStep

(* The queue in front of the outbox is bounded by maxPendingSessionDeltas  *)
(* and one terminal record, however long the consumer stalls.              *)
THEOREM Bounded == Spec => []QueueBounded
<1>1. Init => LengthInv
    BY OutboxAssumption DEF Init, LengthInv
<1>2. CoreInv /\ LengthInv /\ [Next]_vars => CoreInv' /\ LengthInv'
    BY NextCore, NextLength
<1>3. LengthInv => QueueBounded
    BY DEF LengthInv, QueueBounded
<1> QED
    BY InitCore, <1>1, <1>2, <1>3, PTL DEF Spec

LEMMA NextKept ==
    ASSUME CoreInv, KeptInv, [Next]_vars
    PROVE  KeptInv'
<1>0. ctxLive \in BOOLEAN /\ overflow \in BOOLEAN
    BY DEF CoreInv, TypeOK
<1> DEFINE Excused == overflow \/ ~ctxLive
<1>1. ASSUME NEW k \in Kind, NEW after \in {"run", "ending"}, Write(k, after)
      PROVE  KeptInv'
    <2> DEFINE d == [id |-> produced + 1, kind |-> k]
    <2>0. ctxLive' = ctxLive
        BY <1>1 DEF Write
    <2>1. CASE overflow /\ UNCHANGED <<overflow, pump>>
        BY <2>0, <2>1 DEF KeptInv
    <2>2. CASE /\ ~overflow /\ ~Pumping /\ WriteDirect(d)
               /\ UNCHANGED <<pending, overflow, pump>>
        <3>1. CASE UNCHANGED <<shed, lost>>
            BY <2>0, <2>2, <3>1 DEF KeptInv
        <3>2. CASE ~ctxLive
            BY <2>0, <2>2, <3>2 DEF KeptInv
        <3>3. CASE ~MustDeliver(d) /\ shed' = shed \cup {d} /\ UNCHANGED lost
            BY <2>0, <2>2, <3>3 DEF KeptInv
        <3> QED
            BY <2>2, <3>1, <3>2, <3>3 DEF WriteDirect
    <2>3. CASE WriteStartPump(d)
        BY <2>0, <2>3 DEF WriteStartPump, KeptInv
    <2>4. CASE ~overflow /\ WriteQueued(d) /\ UNCHANGED <<out, pump, lost>>
        <3>1. CASE /\ ShedsOrdinary(d) /\ shed' = shed \cup {d}
                   /\ UNCHANGED <<pending, overflow>>
            BY <2>0, <2>4, <3>1 DEF KeptInv, ShedsOrdinary
        <3>2. CASE overflow' = TRUE
            BY <3>2 DEF KeptInv
        <3>3. CASE UNCHANGED <<shed, overflow>>
            BY <2>0, <2>4, <3>3 DEF KeptInv
        <3> QED
            BY <2>4, <3>1, <3>2, <3>3 DEF WriteQueued
    <2> QED
        BY <1>1, <2>1, <2>2, <2>3, <2>4 DEF Write
<1>2. CASE PublishFailure \/ FlushDeferred \/ \E k \in {"ordinary", "must"} : Produce(k)
    BY <1>1, <1>2 DEF PublishFailure, FlushDeferred, Produce, Kind
<1>3. CASE SessEvict
    <2>1. overflow /\ UNCHANGED overflow
        BY <1>3 DEF SessEvict, CoreInv, ControlInv
    <2> QED
        BY <2>1 DEF KeptInv
<1>4. CASE PumpCheck \/ PumpStopped \/ PumpCancelled
    <2>1. UNCHANGED <<overflow, ctxLive>>
        BY <1>4 DEF PumpCheck, PumpStopped, PumpCancelled
    <2>2. CASE overflow \/ ~ctxLive
        BY <2>1, <2>2 DEF KeptInv
    <2>3. CASE ~overflow /\ ctxLive
        <3>1. pump' = "wait" /\ UNCHANGED <<shed, lost>>
            BY <1>4, <2>3 DEF PumpCheck, PumpStopped, PumpCancelled
        <3> QED
            BY <2>1, <3>1 DEF KeptInv
    <2> QED
        BY <1>0, <2>2, <2>3
<1>5. CASE PumpPush \/ PumpEvict
    <2>1. Excused /\ UNCHANGED <<overflow, ctxLive>>
        BY <1>5 DEF PumpPush, PumpEvict, KeptInv
    <2> QED
        BY <2>1 DEF KeptInv
<1>6. CASE Cancel
    BY <1>6 DEF Cancel, KeptInv
<1>7. CASE \/ UNCHANGED vars \/ Fail \/ CloseSession \/ Flush \/ AwaitDrained
           \/ SessPush \/ PumpTake \/ PumpWrite \/ PumpPop \/ Consume
    <2>1. /\ UNCHANGED <<shed, lost, overflow, ctxLive>>
          /\ pump' \in {"push", "evict"} => pump \in {"push", "evict"}
        BY <1>7 DEF vars, Fail, CloseSession, Flush, AwaitDrained, SessPush,
           PumpTake, PumpWrite, PumpPop, Consume
    <2> QED
        BY <2>1 DEF KeptInv
<1> QED
    BY <1>2, <1>3, <1>4, <1>5, <1>6, <1>7 DEF Next, SessionStep, PumpStep

(* A must-deliver delta is lost to the engine only after the queue         *)
(* overflowed or the session context ended.                                *)
THEOREM Kept == Spec => []MustDeliverKept
<1>1. Init => KeptInv
    BY DEF Init, KeptInv
<1>2. CoreInv /\ KeptInv /\ [Next]_vars => CoreInv' /\ KeptInv'
    BY NextCore, NextKept
<1>3. KeptInv => MustDeliverKept
    BY DEF KeptInv, MustDeliverKept
<1> QED
    BY InitCore, <1>1, <1>2, <1>3, PTL DEF Spec

(* Nothing reaches the outbox once flush has returned.                     *)
THEOREM Quiet == Spec => QuietAfterFlush
<1>1. CoreInv /\ [Next]_vars => [sess = "done" => Len(out') <= Len(out)]_vars
    <2> SUFFICES ASSUME CoreInv, Next, sess = "done"
                 PROVE  Len(out') <= Len(out)
        OBVIOUS
    <2>1. pump = "none" /\ out \in Seq(Delta) /\ Len(out) \in Nat
        BY DEF CoreInv, TypeOK, ControlInv
    <2>2. ~SessionStep
        BY DEF SessionStep, Produce, Fail, PublishFailure, CloseSession,
           FlushDeferred, Flush, AwaitDrained, SessPush, SessEvict
    <2>3. CASE PumpStep
        BY <2>1, <2>3 DEF PumpStep, PumpTake, PumpCheck, PumpWrite, PumpStopped,
           PumpCancelled, PumpPush, PumpEvict, PumpPop
    <2>4. CASE Consume
        <3>1. out # <<>> /\ Len(Tail(out)) = Len(out) - 1
            BY <2>1, <2>4, TailType DEF Consume
        <3> QED
            BY <2>1, <2>4, <3>1 DEF Consume
    <2>5. CASE Cancel
        BY <2>1, <2>5 DEF Cancel
    <2> QED
        BY <2>2, <2>3, <2>4, <2>5 DEF Next
<1>2. CoreInv /\ [Next]_vars => CoreInv'
    BY NextCore
<1> QED
    BY InitCore, <1>1, <1>2, PTL DEF Spec, QuietAfterFlush
-----------------------------------------------------------------------------
(* Order                                                                   *)

LEMMA QueuedType ==
    ASSUME CoreInv
    PROVE  Queued \in Seq(Delta) /\ Ids(Queued) \subseteq Ids(pending)
<1>1. pending \in Seq(Delta)
    BY DEF CoreInv, TypeOK
<1> QED
    BY <1>1, TailType, IdsTail DEF Queued

LEMMA IdsEmpty == Ids(<<>>) = {} /\ Increasing(<<>>)
BY DEF Ids, Increasing

LEMMA IdsNat ==
    ASSUME NEW s \in Seq(Delta)
    PROVE  Ids(s) \subseteq Nat
BY DeltaType DEF Ids

(* A write appends a delta numbered above everything on the path.          *)
LEMMA WriteOrder ==
    ASSUME CoreInv, OrderInv, NEW k \in Kind, NEW after \in {"run", "ending"},
           Write(k, after), produced <= MaxDeltas,
           sess \in {"run", "fail", "ending"}
    PROVE  OrderInv'
<1> DEFINE d == [id |-> produced + 1, kind |-> k]
<1>1. d \in Delta /\ d.id = produced + 1
    BY NewDelta
<1>2. /\ out \in Seq(Delta) /\ pending \in Seq(Delta) /\ delivered \in Seq(Delta)
      /\ produced \in Nat
    BY DEF CoreInv, TypeOK
<1>3. /\ UNCHANGED <<writing, entry, ctxLive, consumer, delivered>>
      /\ produced' = produced + 1
    BY DEF Write
<1>4. InFlightIds \subseteq Nat /\ Ids(out) \subseteq Nat /\ Ids(pending) \subseteq Nat
      /\ Ids(delivered) \subseteq Nat
    BY <1>2, IdsNat, DeltaType DEF InFlightIds, CoreInv, ControlInv
<1>5. Ids(Queued) \subseteq Ids(pending)
    BY QueuedType
<1>a. \A s \in Seq(Delta) : Ids(Append(s, d)) = Ids(s) \cup {produced + 1}
    BY <1>1, IdsAppend
<1>b. \A n \in Ids(delivered) \cup Ids(out) \cup InFlightIds \cup Ids(pending) :
         n \in Nat /\ n < produced + 1
    <2> TAKE n \in Ids(delivered) \cup Ids(out) \cup InFlightIds \cup Ids(pending)
    <2>1. n \in Nat
        BY <1>4
    <2>2. n <= produced
        BY DEF OrderInv
    <2> QED
        BY <1>2, <2>1, <2>2
<1>6. CASE UNCHANGED <<out, pending, pump>>
    <2>1. Queued' = Queued /\ InFlightIds' = InFlightIds
        BY <1>3, <1>6 DEF Queued, InFlightIds
    <2> HIDE DEF d
    <2>6. Increasing(delivered') /\ Increasing(out') /\ Increasing(pending')
        BY <1>2, <1>3, <1>4, <1>5, <1>6, <2>1 DEF OrderInv
    <2>7. Below(Ids(delivered'), Ids(out') \cup InFlightIds' \cup Ids(Queued'))
        BY <1>2, <1>3, <1>4, <1>5, <1>6, <2>1 DEF OrderInv, Below
    <2>8. Below(Ids(out'), InFlightIds' \cup Ids(Queued'))
        BY <1>2, <1>3, <1>4, <1>5, <1>6, <2>1 DEF OrderInv, Below
    <2>9. \A n \in Ids(delivered') \cup Ids(out') \cup InFlightIds' \cup Ids(pending') :
             n <= produced' /\ (sess' # after => n < produced')
        BY <1>2, <1>3, <1>b, <1>6, <2>1
    <2> QED
        BY <2>6, <2>7, <2>8, <2>9 DEF OrderInv
<1>7. CASE /\ ~Pumping /\ out' = Append(out, d) /\ sess' = after
           /\ UNCHANGED <<pending, pump>>
    <2>1. /\ Queued' = Queued /\ InFlightIds' = InFlightIds
          /\ InFlightIds = {} /\ pending = <<>> /\ Ids(pending) = {}
        BY <1>3, <1>7, IdsEmpty DEF Queued, InFlightIds, Pumping, CoreInv, ControlInv
    <2>2. Ids(out') = Ids(out) \cup {produced + 1}
        BY <1>2, <1>7, <1>a
    <2>3. Below(Ids(out), {d.id})
        BY <1>1, <1>2, <1>4 DEF OrderInv, Below
    <2>4. Increasing(out')
        BY <1>1, <1>2, <1>7, <2>3, IncreasingAppend DEF OrderInv
    <2> HIDE DEF d
    <2> QED
        BY <1>2, <1>3, <1>4, <1>5, <1>7, <2>1, <2>2, <2>4 DEF OrderInv, Below
<1>8. CASE ~Pumping /\ WriteStartPump(d) /\ sess' = after
    <2>1. /\ InFlightIds' = {} /\ InFlightIds = {} /\ pending = <<>> /\ ~writing
          /\ Ids(pending) = {}
        BY <1>8, IdsEmpty DEF WriteStartPump, InFlightIds, Pumping, CoreInv, ControlInv
    <2>2. Queued' = pending'
        BY <1>3, <2>1 DEF Queued
    <2>3. Ids(pending') = {produced + 1}
        BY <1>2, <1>8, <1>a, <2>1 DEF WriteStartPump
    <2>4. Increasing(pending')
        BY <1>1, <1>2, <1>8, <2>1, IncreasingAppend DEF WriteStartPump, OrderInv, Below
    <2>5. UNCHANGED out
        BY <1>8 DEF WriteStartPump
    <2> HIDE DEF d
    <2> QED
        BY <1>2, <1>3, <1>4, <1>8, <2>1, <2>2, <2>3, <2>4, <2>5 DEF OrderInv, Below
<1>9. CASE pending' = <<>> /\ UNCHANGED <<out, pump>> /\ sess' = after
    <2>1. Queued' = <<>> /\ InFlightIds' = InFlightIds
        BY <1>3, <1>9 DEF Queued, InFlightIds
    <2>2. Ids(Queued') = {} /\ Ids(pending') = {} /\ Increasing(pending')
        BY <1>9, <2>1, IdsEmpty
    <2> HIDE DEF d
    <2>6. Increasing(delivered') /\ Increasing(out') /\ Increasing(pending')
        BY <1>2, <1>3, <1>4, <1>5, <1>9, <2>1, <2>2 DEF OrderInv
    <2>7. Below(Ids(delivered'), Ids(out') \cup InFlightIds' \cup Ids(Queued'))
        BY <1>2, <1>3, <1>4, <1>5, <1>9, <2>1, <2>2 DEF OrderInv, Below
    <2>8. Below(Ids(out'), InFlightIds' \cup Ids(Queued'))
        BY <1>2, <1>3, <1>4, <1>5, <1>9, <2>1, <2>2 DEF OrderInv, Below
    <2>9. \A n \in Ids(delivered') \cup Ids(out') \cup InFlightIds' \cup Ids(pending') :
             n <= produced' /\ (sess' # after => n < produced')
        BY <1>2, <1>3, <1>b, <1>9, <2>1, <2>2
    <2> QED
        BY <2>6, <2>7, <2>8, <2>9 DEF OrderInv
<1>10. CASE /\ ~overflow /\ pending' = Append(pending, d) /\ UNCHANGED <<out, pump>>
            /\ sess' = after
    <2>1. InFlightIds' = InFlightIds
        BY <1>3, <1>10 DEF InFlightIds
    <2>2. Ids(pending') = Ids(pending) \cup {produced + 1}
        BY <1>2, <1>10, <1>a
    <2>3. Below(Ids(pending), {d.id})
        BY <1>1, <1>2, <1>4 DEF OrderInv, Below
    <2>4. Increasing(pending')
        BY <1>1, <1>2, <1>10, <2>3, IncreasingAppend DEF OrderInv
    <2>5. Ids(Queued') \subseteq Ids(Queued) \cup {produced + 1}
        <3>1. CASE ~writing
            BY <1>3, <2>2, <3>1 DEF Queued
        <3>2. CASE writing
            <4>1. pending # <<>>
                BY <1>10, <3>2 DEF CoreInv, ControlInv
            <4>2. Tail(pending) \in Seq(Delta)
                BY <1>2, <4>1, TailType
            <4>3. pending' # <<>> /\ Tail(pending') = Append(Tail(pending), d)
                BY SMTT(60), <1>1, <1>2, <1>10, <4>1
            <4>4. Ids(Tail(pending')) = Ids(Tail(pending)) \cup {produced + 1}
                BY <1>a, <4>2, <4>3
            <4> QED
                BY <1>3, <3>2, <4>1, <4>3, <4>4 DEF Queued
        <3> QED
            BY <3>1, <3>2
    <2> HIDE DEF d
    <2>6. Increasing(delivered') /\ Increasing(out') /\ Increasing(pending')
        BY <1>2, <1>3, <1>4, <1>5, <1>10, <2>1, <2>2, <2>4, <2>5 DEF OrderInv
    <2>7. Below(Ids(delivered'), Ids(out') \cup InFlightIds' \cup Ids(Queued'))
        BY <1>2, <1>3, <1>4, <1>5, <1>10, <2>1, <2>2, <2>4, <2>5 DEF OrderInv, Below
    <2>8. Below(Ids(out'), InFlightIds' \cup Ids(Queued'))
        BY <1>2, <1>3, <1>4, <1>5, <1>10, <2>1, <2>2, <2>4, <2>5 DEF OrderInv, Below
    <2>9. \A n \in Ids(delivered') \cup Ids(out') \cup InFlightIds' \cup Ids(pending') :
             n <= produced' /\ (sess' # after => n < produced')
        BY <1>2, <1>3, <1>b, <1>10, <2>1, <2>2, <2>4, <2>5
    <2> QED
        BY <2>6, <2>7, <2>8, <2>9 DEF OrderInv
<1> QED
    BY <1>6, <1>7, <1>8, <1>9, <1>10 DEF Write, WriteDirect, WriteStartPump, WriteQueued

LEMMA EvictOrder ==
    ASSUME CoreInv, OrderInv, EvictOldest
    PROVE  Increasing(out') /\ Ids(out') \subseteq Ids(out)
<1>1. out \in Seq(Delta)
    BY DEF CoreInv, TypeOK
<1> QED
    BY <1>1, IncreasingTail, IdsTail DEF EvictOldest, OrderInv

(* The facts every case below needs.                                       *)
LEMMA PathTypes ==
    ASSUME CoreInv, OrderInv
    PROVE  /\ out \in Seq(Delta) /\ pending \in Seq(Delta) /\ delivered \in Seq(Delta)
           /\ produced \in Nat
           /\ Ids(delivered) \subseteq Nat /\ Ids(out) \subseteq Nat
           /\ Ids(pending) \subseteq Nat /\ InFlightIds \subseteq Nat
           /\ Ids(Queued) \subseteq Ids(pending)
<1>1. /\ out \in Seq(Delta) /\ pending \in Seq(Delta) /\ delivered \in Seq(Delta)
      /\ produced \in Nat
    BY DEF CoreInv, TypeOK
<1>2. InFlightIds \subseteq Nat
    BY DeltaType DEF InFlightIds, CoreInv, ControlInv
<1> QED
    BY <1>1, <1>2, IdsNat, QueuedType

(* What the pump is writing is older than what is queued behind it.        *)
LEMMA EntryBelowQueued ==
    ASSUME CoreInv, OrderInv, writing
    PROVE  Below({entry.id}, Ids(Queued))
<1>1. CASE pending = <<>>
    BY <1>1, IdsEmpty DEF Queued, Below
<1>2. CASE pending # <<>>
    <2>1. Head(pending) = entry /\ Queued = Tail(pending)
        BY <1>2 DEF CoreInv, ControlInv, Queued
    <2> QED
        BY <1>2, <2>1, IncreasingTail, PathTypes DEF OrderInv
<1> QED
    BY <1>1, <1>2

LEMMA NextOrder ==
    ASSUME CoreInv, OrderInv, [Next]_vars
    PROVE  OrderInv'
<1>0. /\ out \in Seq(Delta) /\ pending \in Seq(Delta) /\ delivered \in Seq(Delta)
      /\ produced \in Nat
      /\ Ids(delivered) \subseteq Nat /\ Ids(out) \subseteq Nat
      /\ Ids(pending) \subseteq Nat /\ InFlightIds \subseteq Nat
      /\ Ids(Queued) \subseteq Ids(pending)
    BY PathTypes
<1>1. CASE UNCHANGED vars
    BY <1>1 DEF vars, OrderInv, InFlightIds, Queued
<1>2. ASSUME NEW k \in {"ordinary", "must"}, Produce(k)
      PROVE  OrderInv'
    BY <1>2, WriteOrder, OutboxAssumption DEF Produce, CoreInv, TypeOK, ControlInv, Kind
<1>3. CASE PublishFailure
    BY <1>3, WriteOrder DEF PublishFailure, CoreInv, TypeOK, ControlInv, Kind
<1>4. CASE FlushDeferred
    BY <1>4, WriteOrder, OutboxAssumption DEF FlushDeferred, CoreInv, TypeOK, ControlInv, Kind
<1>5. CASE Fail \/ CloseSession \/ Flush \/ AwaitDrained \/ Cancel
    <2>1. /\ UNCHANGED <<out, pending, writing, pump, entry, produced, delivered>>
          /\ \/ sess' \notin {"drained", "push", "evict"}
             \/ sess \in {"drained", "push", "evict"}
        BY <1>5 DEF Fail, CloseSession, Flush, AwaitDrained, Cancel
    <2>2. Queued' = Queued /\ InFlightIds' = InFlightIds
        BY <2>1 DEF Queued, InFlightIds
    <2> QED
        BY <2>1, <2>2 DEF OrderInv
<1>6. CASE SessPush
    <2>0. /\ UNCHANGED <<pending, writing, pump, entry, produced, delivered>>
          /\ sess' \in {"ending", "evict"}
        BY <1>6 DEF SessPush
    <2>1. /\ Queued' = Queued /\ InFlightIds' = InFlightIds
          /\ InFlightIds = {} /\ pending = <<>> /\ Ids(pending) = {}
        BY <1>6, <2>0, IdsEmpty DEF SessPush, Queued, InFlightIds, CoreInv, ControlInv
    <2>2. CASE UNCHANGED out
        BY <1>6, <2>0, <2>1, <2>2 DEF SessPush, OrderInv
    <2>3. CASE out' = Append(out, SessHeld) /\ sess' = "ending"
        <3>1. SessHeld \in Delta /\ SessHeld.id = produced
            BY <1>6 DEF SessPush, SessHeld, Delta, Kind, CoreInv, TypeOK, ControlInv
        <3>2. Ids(out') = Ids(out) \cup {produced}
            BY <1>0, <2>3, <3>1, IdsAppend
        <3>3. \A n \in Ids(delivered) \cup Ids(out) : n < produced
            BY <1>6 DEF SessPush, OrderInv
        <3>4. Increasing(out')
            BY <1>0, <2>3, <3>1, <3>3, IncreasingAppend DEF OrderInv, Below
        <3> QED
            BY <1>0, <2>0, <2>1, <2>3, <3>2, <3>3, <3>4 DEF OrderInv, Below
    <2> QED
        BY <1>6, <2>2, <2>3 DEF SessPush
<1>7. CASE SessEvict \/ PumpEvict
    <2>1. /\ UNCHANGED <<pending, writing, entry, produced, delivered>> /\ EvictOldest
          /\ \/ sess' \notin {"drained", "push", "evict"}
             \/ sess \in {"drained", "push", "evict"}
        BY <1>7 DEF SessEvict, PumpEvict
    <2>2. Queued' = Queued /\ InFlightIds' = InFlightIds
        BY <1>7, <2>1 DEF SessEvict, PumpEvict, Queued, InFlightIds
    <2>3. Increasing(out') /\ Ids(out') \subseteq Ids(out)
        BY <2>1, EvictOrder
    <2> QED
        BY <2>1, <2>2, <2>3 DEF OrderInv, Below
<1>8. CASE PumpTake
    <2>0. /\ UNCHANGED <<out, pending, sess, produced, delivered>>
          /\ pump = "top" /\ ~writing /\ InFlightIds = {} /\ Queued = pending
        BY <1>8 DEF PumpTake, InFlightIds, Queued, CoreInv, ControlInv
    <2>1. CASE pending = <<>>
        <3>1. InFlightIds' = {} /\ Queued' = pending
            BY <1>8, <2>0, <2>1 DEF PumpTake, InFlightIds, Queued
        <3> QED
            BY <2>0, <3>1 DEF OrderInv
    <2>2. CASE pending # <<>>
        <3>1. InFlightIds' = {Head(pending).id} /\ Queued' = Tail(pending)
            BY <1>8, <2>0, <2>2 DEF PumpTake, InFlightIds, Queued
        <3>2. Head(pending).id \in Ids(pending) /\ Ids(Tail(pending)) \subseteq Ids(pending)
            BY <1>0, <2>2, IdsTail
        <3> QED
            BY <2>0, <3>1, <3>2 DEF OrderInv, Below
    <2> QED
        BY <2>1, <2>2
<1>9. CASE PumpCheck \/ PumpStopped \/ PumpCancelled
    <2>1. /\ UNCHANGED <<out, pending, writing, entry, sess, produced, delivered>>
          /\ pump \in {"check", "wait"}
        BY <1>9 DEF PumpCheck, PumpStopped, PumpCancelled
    <2>2. Queued' = Queued /\ InFlightIds' \subseteq InFlightIds
        BY <2>1 DEF Queued, InFlightIds
    <2> QED
        BY <2>1, <2>2 DEF OrderInv, Below
<1>10. CASE PumpWrite \/ PumpPush
    <2>0. /\ UNCHANGED <<pending, writing, entry, sess, produced, delivered>>
          /\ writing /\ entry \in Delta /\ InFlightIds = {entry.id}
        BY <1>10 DEF PumpWrite, PumpPush, InFlightIds, CoreInv, ControlInv
    <2>1. Queued' = Queued
        BY <2>0 DEF Queued
    <2>2. CASE out' = Append(out, entry) /\ pump' = "pop"
        <3>1. InFlightIds' = {}
            BY <2>2 DEF InFlightIds
        <3>2. Ids(out') = Ids(out) \cup {entry.id}
            BY <1>0, <2>0, <2>2, IdsAppend
        <3>3. Below(Ids(out), {entry.id})
            BY <2>0 DEF OrderInv, Below
        <3>4. Increasing(out')
            BY <1>0, <2>0, <2>2, <3>3, IncreasingAppend DEF OrderInv
        <3>5. Below({entry.id}, Ids(Queued))
            BY <2>0, EntryBelowQueued
        <3> QED
            BY <2>0, <2>1, <3>1, <3>2, <3>4, <3>5 DEF OrderInv, Below
    <2>3. CASE UNCHANGED out /\ pump' = "evict"
        <3>1. InFlightIds' = InFlightIds
            BY <2>0, <2>3 DEF InFlightIds
        <3> QED
            BY <2>0, <2>1, <2>3, <3>1 DEF OrderInv
    <2> QED
        BY <1>10, <2>2, <2>3 DEF PumpWrite, PumpPush
<1>11. CASE PumpPop
    <2>1. /\ UNCHANGED <<out, sess, produced, delivered>>
          /\ InFlightIds = {} /\ InFlightIds' = {}
          /\ writing /\ Queued' = Queued /\ pending' = Queued
        BY <1>11 DEF PumpPop, InFlightIds, Queued, CoreInv, ControlInv
    <2>2. Increasing(Queued)
        BY <1>0, IncreasingTail DEF Queued, OrderInv
    <2> QED
        BY <1>0, <2>1, <2>2 DEF OrderInv
<1>12. CASE Consume
    <2>0. /\ UNCHANGED <<pending, writing, pump, entry, sess, produced>>
          /\ out # <<>>
        BY <1>12 DEF Consume
    <2>1. Queued' = Queued /\ InFlightIds' = InFlightIds
        BY <2>0 DEF Queued, InFlightIds
    <2>2. CASE delivered' = delivered \o out /\ out' = <<>>
        <3>1. Increasing(delivered') /\ Ids(delivered') = Ids(delivered) \cup Ids(out)
            BY <1>0, <2>2, IncreasingConcat DEF OrderInv, Below
        <3>2. Ids(out') = {} /\ Increasing(out')
            BY <2>2, IdsEmpty
        <3> QED
            BY <2>0, <2>1, <3>1, <3>2 DEF OrderInv, Below
    <2>3. CASE delivered' = Append(delivered, Head(out)) /\ out' = Tail(out)
        <3>1. Head(out) \in Delta /\ Head(out).id \in Ids(out)
            BY <1>0, <2>0, TailType, IdsTail
        <3>2. Ids(delivered') = Ids(delivered) \cup {Head(out).id}
            BY <1>0, <2>3, <3>1, IdsAppend
        <3>3. Below(Ids(delivered), {Head(out).id})
            BY <3>1 DEF OrderInv, Below
        <3>4. Increasing(delivered')
            BY <1>0, <2>3, <3>1, <3>3, IncreasingAppend DEF OrderInv
        <3>5. /\ Increasing(out') /\ Below({Head(out).id}, Ids(out'))
              /\ Ids(out') \subseteq Ids(out)
            BY <1>0, <2>0, <2>3, IncreasingTail, IdsTail DEF OrderInv
        <3> QED
            BY <2>0, <2>1, <3>1, <3>2, <3>4, <3>5 DEF OrderInv, Below
    <2> QED
        BY <1>12, <2>2, <2>3 DEF Consume
<1> QED
    BY <1>1, <1>2, <1>3, <1>4, <1>5, <1>6, <1>7, <1>8, <1>9, <1>10, <1>11, <1>12
       DEF Next, SessionStep, PumpStep

LEMMA InitOrder == Init => OrderInv
<1> SUFFICES ASSUME Init PROVE OrderInv
    OBVIOUS
<1>1. Queued = <<>> /\ InFlightIds = {}
    BY DEF Init, Queued, InFlightIds
<1> QED
    BY <1>1, IdsEmpty DEF Init, OrderInv, Below

(* The segments of the path are in order one after the other.              *)
LEMMA PathInOrder ==
    ASSUME CoreInv, OrderInv
    PROVE  InProductionOrder /\ Path \in Seq(Delta) /\ Ids(Path) = OnPath
<1>0. /\ out \in Seq(Delta) /\ pending \in Seq(Delta) /\ delivered \in Seq(Delta)
    BY PathTypes
<1>1. /\ InFlight \in Seq(Delta) /\ Increasing(InFlight) /\ Ids(InFlight) = InFlightIds
    <2>1. CASE pump \in {"check", "wait", "push", "evict"}
        <3>1. entry \in Delta /\ InFlight = <<entry>> /\ InFlightIds = {entry.id}
            BY <2>1 DEF InFlight, InFlightIds, CoreInv, ControlInv
        <3>2. <<entry>> \in Seq(Delta) /\ DOMAIN <<entry>> = 1..1 /\ <<entry>>[1] = entry
            BY <3>1
        <3> QED
            BY <3>1, <3>2 DEF Increasing, Ids
    <2>2. CASE pump \notin {"check", "wait", "push", "evict"}
        <3>1. InFlight = <<>> /\ InFlightIds = {} /\ <<>> \in Seq(Delta)
            BY <2>2 DEF InFlight, InFlightIds
        <3> QED
            BY <3>1, IdsEmpty
    <2> QED
        BY <2>1, <2>2
<1>2. Queued \in Seq(Delta) /\ Increasing(Queued)
    BY <1>0, QueuedType, IncreasingTail DEF Queued, OrderInv
<1>3. Below(InFlightIds, Ids(Queued))
    <2>1. CASE writing
        BY <2>1, EntryBelowQueued DEF InFlightIds, Below
    <2>2. CASE ~writing
        <3>1. InFlightIds = {}
            BY <2>2 DEF InFlightIds, CoreInv, ControlInv
        <3> QED
            BY <3>1 DEF Below
    <2> QED
        BY <2>1, <2>2
<1>4. /\ delivered \o out \in Seq(Delta) /\ Increasing(delivered \o out)
      /\ Ids(delivered \o out) = Ids(delivered) \cup Ids(out)
    BY <1>0, ConcatType, IncreasingConcat DEF OrderInv, Below
<1>5. LET s == (delivered \o out) \o InFlight
      IN  s \in Seq(Delta) /\ Increasing(s)
          /\ Ids(s) = Ids(delivered) \cup Ids(out) \cup InFlightIds
    <2>1. Below(Ids(delivered \o out), Ids(InFlight))
        BY <1>1, <1>4 DEF OrderInv, Below
    <2> QED
        BY <1>1, <1>4, <2>1, ConcatType, IncreasingConcat
<1>6. Below(Ids((delivered \o out) \o InFlight), Ids(Queued))
    BY <1>3, <1>5 DEF OrderInv, Below
<1> QED
    BY <1>2, <1>5, <1>6, ConcatType, IncreasingConcat
       DEF InProductionOrder, Path, OnPath

(* The engine receives the session's deltas in the order the session       *)
(* produced them, each at most once, whatever mixture of direct writes,    *)
(* pump writes, evictions and overflow brings them there.                  *)
THEOREM Ordered == Spec => []InProductionOrder
<1>1. Init => OrderInv
    BY InitOrder
<1>2. CoreInv /\ OrderInv /\ [Next]_vars => CoreInv' /\ OrderInv'
    BY NextCore, NextOrder
<1>3. CoreInv /\ OrderInv => InProductionOrder
    BY PathInOrder
<1> QED
    BY InitCore, <1>1, <1>2, <1>3, PTL DEF Spec
-----------------------------------------------------------------------------
(* Accounting                                                              *)

(* A new number joins one of the three sets; a set of numbers moves.       *)
LEMMA SplitGrow ==
    ASSUME NEW K, NEW S, NEW L, NEW n \in Nat, Split(K, S, L, n)
    PROVE  /\ Split(K \cup {n + 1}, S, L, n + 1)
           /\ Split(K, S \cup {n + 1}, L, n + 1)
           /\ Split(K, S, L \cup {n + 1}, n + 1)
<1>1. 1..(n + 1) = (1..n) \cup {n + 1} /\ n + 1 \notin 1..n
    OBVIOUS
<1>2. n + 1 \notin K /\ n + 1 \notin S /\ n + 1 \notin L
    BY <1>1 DEF Split
<1> QED
    BY <1>1, <1>2 DEF Split

LEMMA SplitMove ==
    ASSUME NEW K, NEW S, NEW L, NEW n, Split(K, S, L, n),
           NEW K2, NEW M, K = K2 \cup M, K2 \cap M = {}
    PROVE  Split(K2, S \cup M, L, n) /\ Split(K2, S, L \cup M, n)
BY DEF Split

LEMMA NumbersAdd ==
    ASSUME NEW D, NEW e
    PROVE  /\ NumbersOf(D \cup {e}) = NumbersOf(D) \cup {e.id}
           /\ OneEach(D) /\ e.id \notin NumbersOf(D) => OneEach(D \cup {e})
BY DEF NumbersOf, OneEach

LEMMA NumbersAddSeq ==
    ASSUME NEW D, NEW s \in Seq(Delta), Increasing(s), OneEach(D),
           Ids(s) \cap NumbersOf(D) = {}
    PROVE  /\ NumbersOf(D \cup SeqSet(s)) = NumbersOf(D) \cup Ids(s)
           /\ OneEach(D \cup SeqSet(s))
<1>1. DOMAIN s = 1..Len(s) /\ Len(s) \in Nat
    OBVIOUS
<1>2. NumbersOf(D \cup SeqSet(s)) = NumbersOf(D) \cup Ids(s)
    BY DEF NumbersOf, SeqSet, Ids
<1>3. \A i, j \in DOMAIN s : s[i].id = s[j].id => i = j
    <2> SUFFICES ASSUME NEW i \in DOMAIN s, NEW j \in DOMAIN s, i # j
                 PROVE  s[i].id # s[j].id
        OBVIOUS
    <2>1. s[i].id \in Nat /\ s[j].id \in Nat
        BY <1>1, DeltaType
    <2>2. i < j \/ j < i
        BY <1>1
    <2> QED
        BY <2>1, <2>2 DEF Increasing
<1>4. OneEach(SeqSet(s))
    BY <1>3 DEF OneEach, SeqSet
<1>5. \A c \in D, d \in SeqSet(s) : c.id # d.id
    BY DEF NumbersOf, SeqSet, Ids
<1> QED
    BY <1>2, <1>4, <1>5 DEF OneEach

(* The ids of a sequence are those of its head and of its tail.            *)
LEMMA IdsHeadTail ==
    ASSUME NEW s \in Seq(Delta), s # <<>>, Increasing(s)
    PROVE  /\ Ids(s) = {Head(s).id} \cup Ids(Tail(s))
           /\ Head(s).id \notin Ids(Tail(s))
<1>1. /\ DOMAIN s = 1..Len(s) /\ DOMAIN Tail(s) = 1..(Len(s) - 1)
      /\ Len(s) \in Nat /\ Len(s) > 0
    BY TailType
<1>2. \A i \in DOMAIN s : i = 1 \/ (i - 1 \in DOMAIN Tail(s) /\ s[i] = Tail(s)[i - 1])
    BY <1>1, TailType
<1>3. Ids(s) \subseteq {Head(s).id} \cup Ids(Tail(s))
    BY SMTT(60), <1>2, TailType DEF Ids
<1>4. Head(s).id \notin Ids(Tail(s))
    <2>1. Head(s) \in Delta /\ Below({Head(s).id}, Ids(Tail(s)))
        BY TailType, IncreasingTail
    <2>2. Head(s).id \in Nat
        BY <2>1, DeltaType
    <2> QED
        BY <2>1, <2>2 DEF Below
<1> QED
    BY <1>3, <1>4, IdsTail

LEMMA BelowDisjoint ==
    ASSUME NEW S \in SUBSET Nat, NEW T \in SUBSET Nat, Below(S, T)
    PROVE  S \cap T = {}
BY DEF Below

(* No delta is on the path twice.                                          *)
LEMMA PathDisjoint ==
    ASSUME CoreInv, OrderInv
    PROVE  /\ Ids(delivered) \cap (Ids(out) \cup InFlightIds \cup Ids(Queued)) = {}
           /\ Ids(out) \cap (InFlightIds \cup Ids(Queued)) = {}
           /\ InFlightIds \cap Ids(Queued) = {}
           /\ (Ids(delivered) \cup Ids(out) \cup InFlightIds) \cap Ids(Queued) = {}
<1>0. /\ Ids(delivered) \subseteq Nat /\ Ids(out) \subseteq Nat
      /\ InFlightIds \subseteq Nat /\ Ids(Queued) \subseteq Nat
    BY PathTypes
<1>1. Ids(delivered) \cap (Ids(out) \cup InFlightIds \cup Ids(Queued)) = {}
    BY <1>0, BelowDisjoint DEF OrderInv
<1>2. Ids(out) \cap (InFlightIds \cup Ids(Queued)) = {}
    BY <1>0, BelowDisjoint DEF OrderInv
<1>3. InFlightIds \cap Ids(Queued) = {}
    <2>1. CASE writing
        <3>1. InFlightIds \subseteq {entry.id} /\ Below({entry.id}, Ids(Queued))
            BY <2>1, EntryBelowQueued DEF InFlightIds
        <3>2. Below(InFlightIds, Ids(Queued))
            BY <3>1 DEF Below
        <3> QED
            BY <1>0, <3>2, BelowDisjoint
    <2>2. CASE ~writing
        BY <2>2 DEF InFlightIds, CoreInv, ControlInv
    <2> QED
        BY <2>1, <2>2
<1> QED
    BY <1>1, <1>2, <1>3

LEMMA WriteAccount ==
    ASSUME CoreInv, OrderInv, AccountInv, NEW k \in Kind,
           NEW after \in {"run", "ending"}, Write(k, after),
           produced <= MaxDeltas, sess \in {"run", "fail", "ending"}
    PROVE  AccountInv'
<1> DEFINE d == [id |-> produced + 1, kind |-> k]
           K == OnPath \cup HeldIds
           S == NumbersOf(shed)
           L == NumbersOf(lost)
<1>1. d \in Delta /\ d.id = produced + 1
    BY NewDelta
<1>2. /\ out \in Seq(Delta) /\ pending \in Seq(Delta) /\ delivered \in Seq(Delta)
      /\ produced \in Nat
    BY PathTypes
<1>3. /\ UNCHANGED <<writing, entry, ctxLive, consumer, delivered>>
      /\ produced' = produced + 1
    BY DEF Write
<1>4. HeldIds = {}
    BY DEF HeldIds
<1>5. Split(K, S, L, produced)
    BY DEF AccountInv
<1>6. /\ Split(K \cup {produced + 1}, S, L, produced + 1)
      /\ Split(K, S \cup {produced + 1}, L, produced + 1)
      /\ Split(K, S, L \cup {produced + 1}, produced + 1)
    BY <1>2, <1>5, SplitGrow
<1>7. produced + 1 \notin S /\ produced + 1 \notin L
    BY <1>6 DEF Split
<1>8. /\ NumbersOf(shed \cup {d}) = S \cup {produced + 1} /\ OneEach(shed \cup {d})
      /\ NumbersOf(lost \cup {d}) = L \cup {produced + 1} /\ OneEach(lost \cup {d})
    BY <1>1, <1>7, NumbersAdd DEF AccountInv
<1>a. \A s \in Seq(Delta) : Ids(Append(s, d)) = Ids(s) \cup {produced + 1}
    BY <1>1, IdsAppend
<1> HIDE DEF K, S, L, d
<1>9. CASE /\ sess' = "drained" /\ UNCHANGED <<out, pending, overflow, pump, shed, lost>>
    <2>1. OnPath' = OnPath /\ HeldIds' = {produced + 1}
        BY <1>3, <1>9 DEF OnPath, InFlightIds, Queued, HeldIds
    <2> QED
        BY <1>3, <1>4, <1>6, <1>9, <2>1 DEF AccountInv, K, S, L
<1>10. CASE /\ sess' = after /\ shed' = shed \cup {d}
            /\ UNCHANGED <<out, pending, pump, lost>>
    <2>1. OnPath' = OnPath /\ HeldIds' = {}
        BY <1>3, <1>10 DEF OnPath, InFlightIds, Queued, HeldIds
    <2> QED
        BY <1>3, <1>4, <1>6, <1>8, <1>10, <2>1 DEF AccountInv, K, S, L
<1>11. CASE /\ sess' = after /\ lost' = lost \cup {d} /\ ~ctxLive
            /\ UNCHANGED <<out, pending, pump, shed>>
    <2>1. OnPath' = OnPath /\ HeldIds' = {}
        BY <1>3, <1>11 DEF OnPath, InFlightIds, Queued, HeldIds
    <2> QED
        BY <1>3, <1>4, <1>6, <1>8, <1>11, <2>1 DEF AccountInv, K, S, L
<1>12. CASE /\ sess' = after /\ out' = Append(out, d)
            /\ UNCHANGED <<pending, pump, shed, lost>>
    <2>1. OnPath' = OnPath \cup {produced + 1} /\ HeldIds' = {}
        BY <1>2, <1>3, <1>a, <1>12 DEF OnPath, InFlightIds, Queued, HeldIds
    <2> QED
        BY <1>3, <1>4, <1>6, <1>12, <2>1 DEF AccountInv, K, S, L
<1>13. CASE /\ sess' = after /\ ~overflow /\ pending' = Append(pending, d)
            /\ UNCHANGED <<out, shed, lost>> /\ InFlightIds' = InFlightIds
    <2>1. Ids(Queued') = Ids(Queued) \cup {produced + 1}
        <3>1. CASE ~writing
            BY <1>2, <1>3, <1>a, <1>13, <3>1 DEF Queued
        <3>2. CASE writing
            <4>1. pending # <<>>
                BY <1>13, <3>2 DEF CoreInv, ControlInv
            <4>2. Tail(pending) \in Seq(Delta)
                BY <1>2, <4>1, TailType
            <4>3. pending' # <<>> /\ Tail(pending') = Append(Tail(pending), d)
                BY SMTT(60), <1>1, <1>2, <1>13, <4>1
            <4> QED
                BY <1>3, <1>a, <3>2, <4>1, <4>2, <4>3 DEF Queued
        <3> QED
            BY <3>1, <3>2
    <2>2. OnPath' = OnPath \cup {produced + 1} /\ HeldIds' = {}
        BY <1>3, <1>13, <2>1 DEF OnPath, HeldIds
    <2> QED
        BY <1>3, <1>4, <1>6, <1>13, <2>2 DEF AccountInv, K, S, L
<1>14. CASE /\ sess' = after /\ shed' = shed \cup SeqSet(Abandoned) \cup {d}
            /\ pending' = <<>> /\ UNCHANGED <<out, pump, lost>>
    <2>1. Abandoned = Queued /\ Queued \in Seq(Delta) /\ Increasing(Queued)
        BY <1>2, QueuedType, IncreasingTail DEF Abandoned, Queued, OrderInv
    <2>2. Ids(Queued') = {} /\ InFlightIds' = InFlightIds /\ HeldIds' = {}
        BY <1>3, <1>14, IdsEmpty DEF Queued, InFlightIds, HeldIds
    <2> DEFINE R == Ids(delivered) \cup Ids(out) \cup InFlightIds
    <2>3. OnPath' = R /\ K = R \cup Ids(Queued)
        BY <1>3, <1>4, <1>14, <2>2 DEF OnPath, K
    <2>4. R \cap Ids(Queued) = {}
        BY PathDisjoint
    <2>5. Split(R, S \cup Ids(Queued), L, produced)
        BY <1>5, <2>3, <2>4, SplitMove
    <2>6. Ids(Queued) \cap NumbersOf(shed) = {}
        BY <1>5, <2>3 DEF Split, S
    <2>7. /\ NumbersOf(shed \cup SeqSet(Queued)) = S \cup Ids(Queued)
          /\ OneEach(shed \cup SeqSet(Queued))
        BY <2>1, <2>6, NumbersAddSeq DEF AccountInv, S
    <2>8. Split(R, (S \cup Ids(Queued)) \cup {produced + 1}, L, produced + 1)
        BY <1>2, <2>5, SplitGrow
    <2>9. produced + 1 \notin S \cup Ids(Queued)
        BY <1>2, <2>5 DEF Split
    <2>10. /\ NumbersOf(shed') = (S \cup Ids(Queued)) \cup {produced + 1}
           /\ OneEach(shed')
        BY ZenonT(60), <1>1, <1>14, <2>1, <2>7, <2>9, NumbersAdd
    <2> QED
        BY <1>3, <1>14, <2>2, <2>3, <2>8, <2>10 DEF AccountInv, L
<1>15. WriteStartPump(d) /\ ~overflow /\ ~Pumping =>
          InFlightIds' = InFlightIds
    BY DEF WriteStartPump, Pumping, InFlightIds
<1>16. CASE /\ overflow
            /\ IF k = "terminal"
               THEN sess' = "drained" /\ UNCHANGED shed
               ELSE sess' = after /\ shed' = shed \cup {d}
            /\ UNCHANGED <<out, pending, overflow, pump, lost>>
    BY <1>9, <1>10, <1>16
<1>17. CASE WriteDirect(d) /\ sess' = after /\ UNCHANGED <<pending, overflow, pump>>
    BY <1>10, <1>11, <1>12, <1>17 DEF WriteDirect
<1>18. CASE ~overflow /\ ~Pumping /\ WriteStartPump(d) /\ sess' = after
    BY <1>13, <1>15, <1>18 DEF WriteStartPump
<1>19. CASE /\ ~overflow /\ WriteQueued(d) /\ sess' = after
            /\ UNCHANGED <<out, pump, lost>>
    <2>1. InFlightIds' = InFlightIds
        BY <1>3, <1>19 DEF InFlightIds
    <2> QED
        BY <1>10, <1>13, <1>14, <1>19, <2>1 DEF WriteQueued
<1> QED
    BY <1>16, <1>17, <1>18, <1>19 DEF Write, d

(* Evicting the oldest entry of the outbox moves its number to shed.       *)
LEMMA EvictAccount ==
    ASSUME CoreInv, OrderInv, AccountInv, EvictOldest,
           UNCHANGED <<delivered, lost, produced, ctxLive>>,
           InFlightIds' = InFlightIds, Queued' = Queued, HeldIds' = HeldIds
    PROVE  AccountInv'
<1>1. CASE out = <<>>
    <2>1. UNCHANGED <<out, shed>>
        BY <1>1 DEF EvictOldest
    <2> QED
        BY <2>1 DEF AccountInv, OnPath
<1>2. CASE out # <<>>
    <2> DEFINE h == Head(out)
               K2 == OnPath' \cup HeldIds
    <2>1. out' = Tail(out) /\ shed' = shed \cup {h}
        BY <1>2 DEF EvictOldest
    <2>2. Ids(out) = {h.id} \cup Ids(out') /\ h.id \notin Ids(out')
        BY <1>2, <2>1, IdsHeadTail, PathTypes DEF OrderInv
    <2>3. h.id \notin Ids(delivered) \cup InFlightIds \cup Ids(Queued)
        BY <2>2, PathDisjoint
    <2>4. h.id \notin HeldIds
        <3>1. CASE sess \in {"drained", "push", "evict"}
            <4>1. h.id < produced /\ h.id \in Nat /\ produced \in Nat
                BY <2>2, <3>1, PathTypes DEF OrderInv
            <4> QED
                BY <3>1, <4>1 DEF HeldIds
        <3>2. CASE sess \notin {"drained", "push", "evict"}
            BY <3>2 DEF HeldIds
        <3> QED
            BY <3>1, <3>2
    <2> HIDE DEF h
    <2>5. OnPath \cup HeldIds = K2 \cup {h.id} /\ K2 \cap {h.id} = {}
        BY <2>2, <2>3, <2>4 DEF OnPath
    <2>6. Split(K2, NumbersOf(shed) \cup {h.id}, NumbersOf(lost), produced)
        BY <2>5, SplitMove DEF AccountInv
    <2>7. h.id \notin NumbersOf(shed)
        BY <2>5 DEF AccountInv, Split
    <2>8. NumbersOf(shed') = NumbersOf(shed) \cup {h.id} /\ OneEach(shed')
        BY <2>1, <2>7, NumbersAdd DEF AccountInv
    <2> QED
        BY <2>6, <2>8 DEF AccountInv
<1> QED
    BY <1>1, <1>2

(* A step that moves deltas along the path settles nothing.                *)
LEMMA StayAccount ==
    ASSUME AccountInv, UNCHANGED <<shed, lost, produced>>,
           ctxLive' => ctxLive,
           OnPath' \cup HeldIds' = OnPath \cup HeldIds
    PROVE  AccountInv'
BY DEF AccountInv

LEMMA NextAccount ==
    ASSUME CoreInv, OrderInv, AccountInv, [Next]_vars
    PROVE  AccountInv'
<1>0. /\ out \in Seq(Delta) /\ pending \in Seq(Delta) /\ delivered \in Seq(Delta)
      /\ produced \in Nat
    BY PathTypes
<1>1. CASE UNCHANGED vars
    BY <1>1, StayAccount DEF vars, OnPath, HeldIds, InFlightIds, Queued
<1>2. ASSUME NEW k \in {"ordinary", "must"}, Produce(k)
      PROVE  AccountInv'
    BY <1>2, WriteAccount, OutboxAssumption DEF Produce, CoreInv, TypeOK, ControlInv, Kind
<1>3. CASE PublishFailure
    BY <1>3, WriteAccount DEF PublishFailure, CoreInv, TypeOK, ControlInv, Kind
<1>4. CASE FlushDeferred
    BY <1>4, WriteAccount, OutboxAssumption DEF FlushDeferred, CoreInv, TypeOK, ControlInv, Kind
<1>5. CASE Fail \/ CloseSession \/ Flush \/ AwaitDrained \/ Cancel
    <2>1. /\ UNCHANGED <<out, pending, writing, pump, entry, produced, delivered, shed, lost>>
          /\ ctxLive' => ctxLive
          /\ sess' \in {"drained", "push", "evict"} <=> sess \in {"drained", "push", "evict"}
        BY <1>5 DEF Fail, CloseSession, Flush, AwaitDrained, Cancel
    <2>2. OnPath' = OnPath /\ HeldIds' = HeldIds
        BY <2>1 DEF OnPath, Queued, InFlightIds, HeldIds
    <2> QED
        BY <2>1, <2>2, StayAccount
<1>6. CASE SessPush
    <2>1. /\ UNCHANGED <<pending, writing, pump, entry, produced, delivered, shed, lost, ctxLive>>
          /\ Queued' = Queued /\ InFlightIds' = InFlightIds /\ HeldIds = {produced}
        BY <1>6 DEF SessPush, Queued, InFlightIds, HeldIds
    <2>2. CASE UNCHANGED out /\ sess' = "evict"
        <3>1. OnPath' = OnPath /\ HeldIds' = HeldIds
            BY <2>1, <2>2 DEF OnPath, HeldIds
        <3> QED
            BY <2>1, <3>1, StayAccount
    <2>3. CASE out' = Append(out, SessHeld) /\ sess' = "ending"
        <3>1. SessHeld \in Delta /\ SessHeld.id = produced
            BY <1>6 DEF SessPush, SessHeld, Delta, Kind, CoreInv, TypeOK, ControlInv
        <3>2. Ids(out') = Ids(out) \cup {produced}
            BY <1>0, <2>3, <3>1, IdsAppend
        <3>3. OnPath' = OnPath \cup {produced} /\ HeldIds' = {}
            BY <2>1, <2>3, <3>2 DEF OnPath, HeldIds
        <3> QED
            BY <2>1, <3>3, StayAccount
    <2> QED
        BY <1>6, <2>2, <2>3 DEF SessPush
<1>7. CASE SessEvict \/ PumpEvict
    <2>1. /\ UNCHANGED <<pending, writing, entry, produced, delivered, lost, ctxLive>>
          /\ EvictOldest
          /\ sess' \in {"drained", "push", "evict"} <=> sess \in {"drained", "push", "evict"}
        BY <1>7 DEF SessEvict, PumpEvict
    <2>2. Queued' = Queued /\ InFlightIds' = InFlightIds /\ HeldIds' = HeldIds
        BY <1>7, <2>1 DEF SessEvict, PumpEvict, Queued, InFlightIds, HeldIds
    <2> QED
        BY <2>1, <2>2, EvictAccount
<1>8. CASE PumpTake
    <2>0. /\ UNCHANGED <<out, pending, sess, produced, delivered, shed, lost, ctxLive>>
          /\ pump = "top" /\ ~writing /\ InFlightIds = {} /\ Queued = pending
          /\ HeldIds' = HeldIds
        BY <1>8 DEF PumpTake, InFlightIds, Queued, HeldIds, CoreInv, ControlInv
    <2>1. CASE pending = <<>>
        <3>1. InFlightIds' = {} /\ Queued' = pending
            BY <1>8, <2>0, <2>1 DEF PumpTake, InFlightIds, Queued
        <3>2. OnPath' = OnPath
            BY <2>0, <3>1 DEF OnPath
        <3> QED
            BY <2>0, <3>2, StayAccount
    <2>2. CASE pending # <<>>
        <3>1. InFlightIds' = {Head(pending).id} /\ Queued' = Tail(pending)
            BY <1>8, <2>0, <2>2 DEF PumpTake, InFlightIds, Queued
        <3>2. Ids(pending) = {Head(pending).id} \cup Ids(Tail(pending))
            BY <1>0, <2>2, IdsHeadTail DEF OrderInv
        <3>3. OnPath' = OnPath
            BY <2>0, <3>1, <3>2 DEF OnPath
        <3> QED
            BY <2>0, <3>3, StayAccount
    <2> QED
        BY <2>1, <2>2
<1>9. CASE PumpCheck \/ PumpStopped \/ PumpCancelled
    <2>1. /\ UNCHANGED <<out, pending, writing, entry, sess, produced, delivered, ctxLive>>
          /\ pump \in {"check", "wait"} /\ InFlightIds = {entry.id}
          /\ Queued' = Queued /\ HeldIds' = HeldIds
        <3>1. /\ UNCHANGED <<out, pending, writing, entry, sess, produced, delivered, ctxLive>>
              /\ pump \in {"check", "wait"}
            BY <1>9 DEF PumpCheck, PumpStopped, PumpCancelled
        <3> QED
            BY <3>1 DEF InFlightIds, Queued, HeldIds
    <2>2. CASE pump' \in {"wait", "push"} /\ UNCHANGED <<shed, lost>>
        <3>1. InFlightIds' = InFlightIds
            BY <2>1, <2>2 DEF InFlightIds
        <3>2. OnPath' = OnPath
            BY <2>1, <3>1 DEF OnPath
        <3> QED
            BY <2>1, <2>2, <3>2, StayAccount
    <2>3. ASSUME pump' = "pop"
          PROVE  /\ Split(OnPath' \cup HeldIds', NumbersOf(shed) \cup {entry.id},
                          NumbersOf(lost), produced)
                 /\ Split(OnPath' \cup HeldIds', NumbersOf(shed),
                          NumbersOf(lost) \cup {entry.id}, produced)
                 /\ entry.id \notin NumbersOf(shed) /\ entry.id \notin NumbersOf(lost)
        <3> DEFINE K2 == OnPath' \cup HeldIds'
        <3>1. InFlightIds' = {}
            BY <2>3 DEF InFlightIds
        <3>2. OnPath = OnPath' \cup {entry.id}
            BY <2>1, <3>1 DEF OnPath
        <3>3. entry.id \notin OnPath'
            BY <2>1, <3>1, PathDisjoint DEF OnPath
        <3>4. entry.id \notin HeldIds
            <4>1. CASE sess \in {"drained", "push", "evict"}
                <5>1. entry.id < produced /\ entry.id \in Nat
                    BY <2>1, <4>1, PathTypes DEF OrderInv
                <5> QED
                    BY <1>0, <4>1, <5>1 DEF HeldIds
            <4>2. CASE sess \notin {"drained", "push", "evict"}
                BY <4>2 DEF HeldIds
            <4> QED
                BY <4>1, <4>2
        <3>5. OnPath \cup HeldIds = K2 \cup {entry.id} /\ K2 \cap {entry.id} = {}
            BY <2>1, <3>2, <3>3, <3>4
        <3>6. Split(OnPath \cup HeldIds, NumbersOf(shed), NumbersOf(lost), produced)
            BY DEF AccountInv
        <3>7. entry.id \notin NumbersOf(shed) /\ entry.id \notin NumbersOf(lost)
            BY <3>5, <3>6 DEF Split
        <3> QED
            BY <3>5, <3>6, <3>7, SplitMove
    <2>4. CASE pump' = "pop" /\ shed' = shed \cup {entry} /\ UNCHANGED lost
        <3>1. NumbersOf(shed') = NumbersOf(shed) \cup {entry.id} /\ OneEach(shed')
            BY <2>3, <2>4, NumbersAdd DEF AccountInv
        <3> QED
            BY <2>1, <2>3, <2>4, <3>1 DEF AccountInv
    <2>5. CASE pump' = "pop" /\ lost' = lost \cup {entry} /\ UNCHANGED shed /\ ~ctxLive
        <3>1. NumbersOf(lost') = NumbersOf(lost) \cup {entry.id} /\ OneEach(lost')
            BY <2>3, <2>5, NumbersAdd DEF AccountInv
        <3> QED
            BY <2>1, <2>3, <2>5, <3>1 DEF AccountInv
    <2> QED
        BY <1>9, <2>2, <2>4, <2>5 DEF PumpCheck, PumpStopped, PumpCancelled, PumpGiveUp
<1>10. CASE PumpWrite \/ PumpPush
    <2>0. /\ UNCHANGED <<pending, writing, entry, sess, produced, delivered, shed, lost, ctxLive>>
          /\ entry \in Delta /\ InFlightIds = {entry.id}
          /\ Queued' = Queued /\ HeldIds' = HeldIds
        BY <1>10 DEF PumpWrite, PumpPush, InFlightIds, Queued, HeldIds, CoreInv, ControlInv
    <2>1. CASE out' = Append(out, entry) /\ pump' = "pop"
        <3>1. InFlightIds' = {}
            BY <2>1 DEF InFlightIds
        <3>2. Ids(out') = Ids(out) \cup {entry.id}
            BY <1>0, <2>0, <2>1, IdsAppend
        <3>3. OnPath' = OnPath
            BY <2>0, <3>1, <3>2 DEF OnPath
        <3> QED
            BY <2>0, <3>3, StayAccount
    <2>2. CASE UNCHANGED out /\ pump' = "evict"
        <3>1. InFlightIds' = InFlightIds
            BY <2>0, <2>2 DEF InFlightIds
        <3>2. OnPath' = OnPath
            BY <2>0, <2>2, <3>1 DEF OnPath
        <3> QED
            BY <2>0, <3>2, StayAccount
    <2> QED
        BY <1>10, <2>1, <2>2 DEF PumpWrite, PumpPush
<1>11. CASE PumpPop
    <2>1. /\ UNCHANGED <<out, sess, produced, delivered, shed, lost, ctxLive>>
          /\ InFlightIds = {} /\ InFlightIds' = {} /\ Queued' = Queued
          /\ HeldIds' = HeldIds
        BY <1>11 DEF PumpPop, InFlightIds, Queued, HeldIds, CoreInv, ControlInv
    <2>2. OnPath' = OnPath
        BY <2>1 DEF OnPath
    <2> QED
        BY <2>1, <2>2, StayAccount
<1>12. CASE Consume
    <2>0. /\ UNCHANGED <<pending, writing, pump, entry, sess, produced, shed, lost, ctxLive>>
          /\ out # <<>>
        BY <1>12 DEF Consume
    <2>1. Queued' = Queued /\ InFlightIds' = InFlightIds /\ HeldIds' = HeldIds
        BY <2>0 DEF Queued, InFlightIds, HeldIds
    <2>2. CASE delivered' = delivered \o out /\ out' = <<>>
        <3>1. Ids(delivered') = Ids(delivered) \cup Ids(out) /\ Ids(out') = {}
            BY <1>0, <2>2, IncreasingConcat, IdsEmpty DEF OrderInv, Below
        <3>2. OnPath' = OnPath
            BY <2>1, <3>1 DEF OnPath
        <3> QED
            BY <2>0, <2>1, <3>2, StayAccount
    <2>3. CASE delivered' = Append(delivered, Head(out)) /\ out' = Tail(out)
        <3>1. Head(out) \in Delta
            BY <1>0, <2>0, TailType
        <3>2. Ids(delivered') = Ids(delivered) \cup {Head(out).id}
            BY <1>0, <2>3, <3>1, IdsAppend
        <3>3. Ids(out) = {Head(out).id} \cup Ids(out')
            BY <1>0, <2>0, <2>3, IdsHeadTail DEF OrderInv
        <3>4. OnPath' = OnPath
            BY <2>1, <3>2, <3>3 DEF OnPath
        <3> QED
            BY <2>0, <2>1, <3>4, StayAccount
    <2> QED
        BY <1>12, <2>2, <2>3 DEF Consume
<1> QED
    BY <1>1, <1>2, <1>3, <1>4, <1>5, <1>6, <1>7, <1>8, <1>9, <1>10, <1>11, <1>12
       DEF Next, SessionStep, PumpStep

(* A sequence in strictly increasing order has as many ids as entries, and *)
(* a set that bears each number once as many numbers as elements.          *)
LEMMA IdsCount ==
    ASSUME NEW s \in Seq(Delta), Increasing(s)
    PROVE  IsFiniteSet(Ids(s)) /\ Cardinality(Ids(s)) = Len(s)
<1> DEFINE f == [i \in 1..Len(s) |-> s[i].id]
<1>1. DOMAIN s = 1..Len(s) /\ Len(s) \in Nat
    OBVIOUS
<1>2. \A i, j \in 1..Len(s) : f[i] = f[j] => i = j
    <2> SUFFICES ASSUME NEW i \in 1..Len(s), NEW j \in 1..Len(s), i # j
                 PROVE  f[i] # f[j]
        OBVIOUS
    <2>1. s[i].id \in Nat /\ s[j].id \in Nat
        BY <1>1, DeltaType
    <2>2. i < j \/ j < i
        BY <1>1
    <2> QED
        BY <1>1, <2>1, <2>2 DEF Increasing
<1>3. f \in [1..Len(s) -> Ids(s)]
    BY <1>1 DEF Ids
<1>4. \A m \in Ids(s) : \E i \in 1..Len(s) : f[i] = m
    BY <1>1 DEF Ids
<1> HIDE DEF f
<1>5. f \in Bijection(1..Len(s), Ids(s))
    BY <1>2, <1>3, <1>4 DEF Bijection, Injection, IsInjective, Surjection
<1>6. ExistsBijection(1..Len(s), Ids(s))
    BY <1>5 DEF ExistsBijection
<1>7. IsFiniteSet(1..Len(s)) /\ Cardinality(1..Len(s)) = Len(s)
    BY SMTT(60), <1>1, FS_Interval
<1> QED
    BY <1>6, <1>7, FS_Bijection

LEMMA NumbersCount ==
    ASSUME NEW D, OneEach(D), IsFiniteSet(NumbersOf(D))
    PROVE  Cardinality(D) = Cardinality(NumbersOf(D))
<1> DEFINE f == [d \in D |-> d.id]
<1>1. f \in [D -> NumbersOf(D)]
    BY DEF NumbersOf
<1>2. \A c, d \in D : f[c] = f[d] => c = d
    BY DEF OneEach
<1>3. \A m \in NumbersOf(D) : \E d \in D : f[d] = m
    BY DEF NumbersOf
<1> HIDE DEF f
<1>4. f \in Injection(D, NumbersOf(D)) /\ f \in Surjection(D, NumbersOf(D))
    BY <1>1, <1>2, <1>3 DEF Injection, IsInjective, Surjection
<1> QED
    BY <1>4, FS_Injection

(* The three parts of 1..n add up to n.                                    *)
LEMMA SplitCount ==
    ASSUME NEW K, NEW S, NEW L, NEW n \in Nat, Split(K, S, L, n)
    PROVE  /\ IsFiniteSet(K) /\ IsFiniteSet(S) /\ IsFiniteSet(L)
           /\ Cardinality(K) + Cardinality(S) + Cardinality(L) = n
<1>1. IsFiniteSet(1..n) /\ Cardinality(1..n) = n
    BY FS_Interval
<1>2. K \in SUBSET (1..n) /\ S \in SUBSET (1..n) /\ L \in SUBSET (1..n)
    BY DEF Split
<1>3. IsFiniteSet(K) /\ IsFiniteSet(S) /\ IsFiniteSet(L)
    BY <1>1, <1>2, FS_Subset
<1>4. /\ Cardinality(K) \in Nat /\ Cardinality(S) \in Nat /\ Cardinality(L) \in Nat
    BY <1>3, FS_CardinalityType
<1>5. Cardinality(K \cap S) = 0 /\ Cardinality((K \cup S) \cap L) = 0
    <2>1. K \cap S = {} /\ (K \cup S) \cap L = {}
        BY DEF Split
    <2> QED
        BY <2>1, FS_EmptySet
<1>6. /\ IsFiniteSet(K \cup S)
      /\ Cardinality(K \cup S) = Cardinality(K) + Cardinality(S) - Cardinality(K \cap S)
    BY <1>3, FS_Union
<1>7. Cardinality((K \cup S) \cup L)
        = Cardinality(K \cup S) + Cardinality(L) - Cardinality((K \cup S) \cap L)
    BY <1>3, <1>6, FS_Union
<1>8. Cardinality((K \cup S) \cup L) = n
    BY <1>1 DEF Split
<1> QED
    BY <1>3, <1>4, <1>5, <1>6, <1>7, <1>8

LEMMA AllAccounted ==
    ASSUME CoreInv, OrderInv, AccountInv
    PROVE  Accounted
<1> DEFINE K == OnPath \cup HeldIds
<1>1. produced \in Nat
    BY PathTypes
<1>2. Path \in Seq(Delta) /\ Increasing(Path) /\ Ids(Path) = OnPath
    BY PathInOrder DEF InProductionOrder
<1>3. Split(K, NumbersOf(shed), NumbersOf(lost), produced)
    BY DEF AccountInv
<1>4. /\ NumbersOf(Held) = HeldIds /\ Cardinality(Held) = Cardinality(HeldIds)
      /\ IsFiniteSet(HeldIds)
    <2>1. CASE sess \in {"drained", "push", "evict"}
        <3>1. Held = {SessHeld} /\ HeldIds = {produced} /\ SessHeld.id = produced
            BY <2>1 DEF Held, HeldIds, SessHeld
        <3> QED
            BY <3>1, FS_Singleton DEF NumbersOf
    <2>2. CASE sess \notin {"drained", "push", "evict"}
        <3>1. Held = {} /\ HeldIds = {}
            BY <2>2 DEF Held, HeldIds
        <3> QED
            BY <3>1, FS_EmptySet DEF NumbersOf
    <2> QED
        BY <2>1, <2>2
<1>5. OnPath \cap HeldIds = {}
    <2>1. CASE sess \in {"drained", "push", "evict"}
        <3>1. \A n \in OnPath : n < produced /\ n \in Nat
            BY <2>1, PathTypes DEF OrderInv, OnPath
        <3> QED
            BY <1>1, <2>1, <3>1 DEF HeldIds
    <2>2. CASE sess \notin {"drained", "push", "evict"}
        BY <2>2 DEF HeldIds
    <2> QED
        BY <2>1, <2>2
<1>6. IsFiniteSet(OnPath) /\ Cardinality(OnPath) = Len(Path)
    BY <1>2, IdsCount
<1>7. Cardinality(K) = Len(Path) + Cardinality(Held)
    <2>1. Cardinality(K) = Cardinality(OnPath) + Cardinality(HeldIds) - Cardinality(OnPath \cap HeldIds)
        BY <1>4, <1>6, FS_Union
    <2>2. Cardinality(OnPath \cap HeldIds) = 0
        BY <1>5, FS_EmptySet
    <2>3. Cardinality(OnPath) \in Nat /\ Cardinality(HeldIds) \in Nat
        BY <1>4, <1>6, FS_CardinalityType
    <2> HIDE DEF K
    <2> QED
        BY <1>4, <1>6, <2>1, <2>2, <2>3
<1> HIDE DEF K
<1>8. /\ IsFiniteSet(NumbersOf(shed)) /\ IsFiniteSet(NumbersOf(lost))
      /\ Cardinality(K) + Cardinality(NumbersOf(shed)) + Cardinality(NumbersOf(lost))
           = produced
    BY <1>1, <1>3, SplitCount
<1>9. /\ Cardinality(shed) = Cardinality(NumbersOf(shed))
      /\ Cardinality(lost) = Cardinality(NumbersOf(lost))
    BY <1>8, NumbersCount DEF AccountInv
<1>10. Len(Path) + Cardinality(Held) + Cardinality(shed) + Cardinality(lost) = produced
    BY <1>7, <1>8, <1>9
<1>11. {d.id : d \in (SeqSet(Path) \cup Held) \cup shed \cup lost} = 1..produced
    <2>1. {d.id : d \in (SeqSet(Path) \cup Held) \cup shed \cup lost}
            = NumbersOf(SeqSet(Path)) \cup NumbersOf(Held) \cup NumbersOf(shed) \cup NumbersOf(lost)
        BY DEF NumbersOf
    <2>2. NumbersOf(SeqSet(Path)) = Ids(Path)
        BY DEF NumbersOf, SeqSet, Ids
    <2> QED
        BY <1>2, <1>3, <1>4, <2>1, <2>2 DEF Split, K
<1>12. ctxLive => lost = {}
    BY DEF AccountInv
<1> QED
    BY <1>10, <1>11, <1>12 DEF Accounted

(* Nothing the session produced is miscounted: every delta that write()    *)
(* was called for is received, in DeltaOutbox, on its way there or counted *)
(* as dropped, exactly once, and one that is in none of these places was   *)
(* given up after the session context ended.                               *)
THEOREM AllSettled == Spec => []Accounted
<1>1. Init => OrderInv
    BY InitOrder
<1>2. Init => AccountInv
    <2> SUFFICES ASSUME Init PROVE AccountInv
        OBVIOUS
    <2>1. OnPath = {} /\ HeldIds = {}
        BY IdsEmpty DEF Init, OnPath, HeldIds, InFlightIds, Queued
    <2>2. 1..0 = {}
        OBVIOUS
    <2> QED
        BY <2>1, <2>2 DEF Init, AccountInv, Split, NumbersOf, OneEach
<1>3. CoreInv /\ OrderInv /\ AccountInv /\ [Next]_vars
        => CoreInv' /\ OrderInv' /\ AccountInv'
    BY NextCore, NextOrder, NextAccount
<1>4. CoreInv /\ OrderInv /\ AccountInv => Accounted
    BY AllAccounted
<1> QED
    BY InitCore, <1>1, <1>2, <1>3, <1>4, PTL DEF Spec

=============================================================================
