------------------------ MODULE SessionIngressProofs ------------------------
(***************************************************************************)
(* Theorems about SessionIngress for any callers, queue capacities, number *)
(* of inputs and number of restarts.                                       *)
(***************************************************************************)
EXTENDS SessionIngress, SequenceLemmas, FiniteSetTheorems

Kinds == {"audio", "control", "tool", "cancel"}
Input == [id : 0..MaxInputs, kind : Kinds]
CallerStates == [pc : {"idle", "lane", "count", "lock", "send", "uncount"},
                 input : Input, waits : BOOLEAN, ctxDone : BOOLEAN, ch : Nat]
RunnerStates == [pc : {"lane", "ordered", "await", "consume", "forward", "over"},
                 input : Input, handled : BOOLEAN]

TypeInv ==
    /\ caller \in [Callers -> CallerStates] /\ runner \in RunnerStates
    /\ ordered \in Seq(Input) /\ lane \in Seq(Input)
    /\ queuedControls \in Int /\ toolEvents \in Int
    /\ gen \in Nat /\ stopped \in BOOLEAN
    /\ begun \in 0..MaxInputs
    /\ unsent \subseteq 1..begun /\ ahead \in [Ids -> SUBSET (1..begun)]

Controls == {x \in Input : IsControl(x)}
Tools == {x \in Input : IsTool(x)}
Audio == Input \ Controls

(* Where the members of K are in a queue.                                  *)
Where(q, K) == {i \in DOMAIN q : q[i] \in K}

(* The callers whose input is in K and that are at one of pcs.             *)
CallersAt(K, pcs) == {c \in Callers : caller[c].input \in K /\ caller[c].pc \in pcs}

HandAt(K, pcs) == IF runner.pc \in pcs /\ runner.input \in K THEN 1 ELSE 0

(* CountsExact, over sets that only ever gain or lose one member.          *)
CountInv ==
    /\ \A c \in Callers : caller[c].pc \in {"lane", "count"} => caller[c].input \in Controls
    /\ IsFiniteSet(CallersAt(Controls, {"lock", "send", "uncount"}))
    /\ IsFiniteSet(CallersAt(Tools, {"send"}))
    /\ queuedControls = Cardinality(Where(ordered, Controls))
         + Cardinality(CallersAt(Controls, {"lock", "send", "uncount"}))
         + HandAt(Controls, {"consume"})
    /\ toolEvents = Cardinality(Where(ordered, Tools))
         + Cardinality(CallersAt(Tools, {"send"}))
         + HandAt(Tools, {"consume", "forward"})

(* The ids at positions S of a queue.                                      *)
IdsAt(q, S) == {q[i].id : i \in S}
IdsOf(q) == IdsAt(q, DOMAIN q)
Before(q, i) == IdsAt(q, 1..(i - 1))
AudioIds(q) == IdsAt(q, Where(q, Audio))
InHand == IF runner.pc \in {"consume", "forward"} THEN {runner.input.id} ELSE {}

(* The ids of admissions under way are known to nobody but their callers.  *)
FreshInv ==
    \A c \in Callers : caller[c].pc # "idle" =>
        /\ caller[c].input.id \in 1..begun
        /\ caller[c].input.id \notin unsent
        /\ \A i \in Ids : caller[c].input.id \notin ahead[i]
        /\ \A d \in Callers \ {c} :
              caller[d].pc # "idle" => caller[d].input.id # caller[c].input.id

(* Where the unsent inputs ahead of each input still are.                  *)
OrderInv ==
    /\ overtaken = {}
    /\ unsent \subseteq IdsOf(ordered) \cup IdsOf(lane) \cup InHand
    /\ \A i \in DOMAIN ordered :
          /\ ordered[i].id \in 1..begun
          /\ ahead[ordered[i].id] \cap unsent
               \subseteq Before(ordered, i) \cup IdsOf(lane) \cup InHand
    /\ \A i \in DOMAIN lane :
          /\ lane[i].id \in 1..begun
          /\ ahead[lane[i].id] \cap unsent
               \subseteq Before(lane, i) \cup AudioIds(ordered) \cup InHand
    /\ \A c \in Callers : At(c, "lane") =>
          ahead[caller[c].input.id] \cap unsent
            \subseteq IdsOf(lane) \cup AudioIds(ordered) \cup InHand
    /\ runner.pc \in {"consume", "forward"} =>
          /\ runner.input.id \in 1..begun
          /\ ahead[runner.input.id] \cap unsent \subseteq IdsOf(lane)
-----------------------------------------------------------------------------
(* Types                                                                   *)

LEMMA Bounds == MaxInputs \in Nat /\ IngressCap \in Nat /\ LaneCap \in Nat
BY IngressAssumption

LEMMA IdleType ==
    /\ NoInput \in Input /\ ~IsControl(NoInput) /\ ~IsTool(NoInput)
    /\ Idle \in CallerStates /\ Idle.pc = "idle" /\ Idle.input = NoInput
<1>1. NoInput \in Input /\ ~IsControl(NoInput) /\ ~IsTool(NoInput)
    BY Bounds DEF NoInput, Input, Kinds, IsControl, IsTool
<1> QED
    BY <1>1 DEF Idle, CallerStates

(* What one step of caller c makes of it.                                  *)
CallerBecomes(c, s) ==
    /\ s \in CallerStates
    /\ caller' = [caller EXCEPT ![c] = s]

LEMMA CallerStep ==
    ASSUME TypeInv, NEW c \in Callers, NEW s, CallerBecomes(c, s)
    PROVE  /\ caller' \in [Callers -> CallerStates]
           /\ caller'[c] = s
           /\ \A d \in Callers \ {c} : caller'[d] = caller[d]
BY DEF CallerBecomes, TypeInv

LEMMA GotoBecomes ==
    ASSUME TypeInv, NEW c \in Callers,
           NEW pc \in {"idle", "lane", "count", "lock", "send", "uncount"}, Goto(c, pc)
    PROVE  CallerBecomes(c, [caller[c] EXCEPT !.pc = pc])
<1>1. caller[c] \in CallerStates
    BY DEF TypeInv
<1>2. [caller[c] EXCEPT !.pc = pc] \in CallerStates
    BY <1>1 DEF CallerStates
<1> QED
    BY <1>2 DEF Goto, CallerBecomes

LEMMA CallerFields ==
    ASSUME TypeInv, NEW c \in Callers
    PROVE  /\ caller[c] \in CallerStates /\ caller[c].input \in Input
           /\ caller[c].waits \in BOOLEAN /\ caller[c].ctxDone \in BOOLEAN
           /\ \A pc : [caller[c] EXCEPT !.pc = pc].pc = pc
           /\ \A pc : [caller[c] EXCEPT !.pc = pc].input = caller[c].input
BY DEF TypeInv, CallerStates

(* What Begin makes of its caller.                                         *)
LEMMA BeginStep ==
    ASSUME TypeInv, NEW c \in Callers, Begin(c)
    PROVE  \E s : /\ CallerBecomes(c, s)
                  /\ s.pc \in {"lane", "lock", "count"}
                  /\ s.pc = "lane" => queuedControls = 0
                  /\ s.pc = "lock" => s.input \notin Controls
                  /\ s.pc \in {"lane", "count"} => s.input \in Controls
                  /\ s.input.id = begun + 1 /\ begun + 1 \in 1..MaxInputs
<1>1. PICK o \in Offers :
         caller' = [caller EXCEPT ![c] =
             [Idle EXCEPT !.input = [id |-> begun + 1, kind |-> o.kind], !.waits = o.waits,
                !.pc = CASE o.kind = "cancel" /\ NothingAhead /\ ~stopped -> "lane"
                         [] o.kind = "audio" -> "lock" [] OTHER -> "count"]]
    BY DEF Begin
<1> DEFINE pc == CASE o.kind = "cancel" /\ NothingAhead /\ ~stopped -> "lane"
                   [] o.kind = "audio" -> "lock" [] OTHER -> "count"
           input == [id |-> begun + 1, kind |-> o.kind]
           s == [Idle EXCEPT !.input = input, !.waits = o.waits, !.pc = pc]
<1>2. begun + 1 \in 1..MaxInputs
    BY Bounds DEF Begin, TypeInv
<1>3. o.kind \in Kinds /\ o.waits \in BOOLEAN
    BY IngressAssumption DEF Kinds
<1>4. pc \in {"lane", "lock", "count"}
    OBVIOUS
<1>5. input \in Input /\ input.id = begun + 1
    BY <1>2, <1>3, Bounds DEF Input
<1>6. /\ pc = "lane" => queuedControls = 0
      /\ pc = "lock" => input \notin Controls
      /\ pc \in {"lane", "count"} => input \in Controls
    BY <1>5 DEF NothingAhead, Controls, IsControl
<1> HIDE DEF pc, input
<1>7. s \in CallerStates /\ s.pc = pc /\ s.input = input
    BY <1>3, <1>4, <1>5, IdleType DEF CallerStates
<1>8. CallerBecomes(c, s)
    BY <1>1, <1>7 DEF CallerBecomes, pc, input
<1> QED
    BY <1>2, <1>4, <1>5, <1>6, <1>7, <1>8

LEMMA LockStep ==
    ASSUME TypeInv, NEW c \in Callers, Lock(c)
    PROVE  \E s : /\ CallerBecomes(c, s)
                  /\ s.input = caller[c].input /\ s.pc \in {"uncount", "send"}
                  /\ toolEvents' = IF s.pc = "send" /\ IsTool(caller[c].input)
                                   THEN toolEvents + 1 ELSE toolEvents
<1> DEFINE refused == caller[c].ctxDone \/ (caller[c].waits /\ stopped)
           pc == IF refused THEN "uncount" ELSE "send"
           s == [caller[c] EXCEPT !.pc = pc, !.ch = gen]
<1>1. caller' = [caller EXCEPT ![c].pc = pc, ![c].ch = gen]
    BY DEF Lock
<1>2. caller[c] \in CallerStates /\ gen \in Nat /\ pc \in {"uncount", "send"}
    BY CallerFields DEF TypeInv
<1>3. toolEvents' = IF IsTool(caller[c].input) /\ ~refused THEN toolEvents + 1
                    ELSE toolEvents
    BY DEF Lock
<1>4. ~refused <=> pc = "send"
    OBVIOUS
<1> HIDE DEF refused, pc
<1>5. caller' = [caller EXCEPT ![c] = s]
    BY <1>1, <1>2 DEF TypeInv
<1>6. s \in CallerStates /\ s.pc = pc /\ s.input = caller[c].input
    BY <1>2 DEF CallerStates
<1> QED
    BY <1>2, <1>3, <1>4, <1>5, <1>6 DEF CallerBecomes

LEMMA IdleStep ==
    ASSUME TypeInv, NEW c \in Callers, caller' = [caller EXCEPT ![c] = Idle]
    PROVE  CallerBecomes(c, Idle)
BY IdleType DEF CallerBecomes

LEMMA CancelStep ==
    ASSUME TypeInv, NEW c \in Callers, CancelContext(c)
    PROVE  \E s : /\ CallerBecomes(c, s)
                  /\ s.input = caller[c].input /\ s.pc = caller[c].pc
<1> DEFINE s == [caller[c] EXCEPT !.ctxDone = TRUE]
<1>1. caller[c] \in CallerStates
    BY CallerFields
<1>2. s \in CallerStates /\ s.pc = caller[c].pc /\ s.input = caller[c].input
    BY <1>1 DEF CallerStates
<1>3. caller' = [caller EXCEPT ![c] = s]
    BY <1>1 DEF CancelContext, TypeInv
<1> QED
    BY <1>2, <1>3 DEF CallerBecomes

LEMMA ForwardedType ==
    ASSUME TypeInv, NEW x \in Input, NEW b \in BOOLEAN, Forwarded(x, b)
    PROVE  /\ unsent' \subseteq unsent
           /\ ahead' \in [Ids -> SUBSET (1..begun)]
           /\ \A i \in Ids : ahead'[i] \subseteq ahead[i] \ {x.id}
           /\ x.id \in Ids => ahead'[x.id] = {}
           /\ unsent' = unsent \ {x.id}
BY DEF Forwarded, TypeInv

LEMMA RunnerStepType ==
    ASSUME TypeInv, RunnerStep \/ StopSession \/ StartSession
    PROVE  /\ runner' \in RunnerStates
           /\ ordered' \in Seq(Input) /\ lane' \in Seq(Input)
           /\ unsent' \subseteq unsent
           /\ ahead' \in [Ids -> SUBSET (1..begun)]
           /\ \A i \in Ids : ahead'[i] \subseteq ahead[i]
           /\ UNCHANGED <<caller, begun>>
<1> USE DEF queues, history, counts
<1>0. /\ runner \in RunnerStates /\ runner.input \in Input
      /\ ordered \in Seq(Input) /\ lane \in Seq(Input)
      /\ ahead \in [Ids -> SUBSET (1..begun)]
    BY DEF TypeInv, RunnerStates
<1>1. ASSUME ForwardPriority
      PROVE  /\ lane' \in Seq(Input) /\ unsent' \subseteq unsent
             /\ ahead' \in [Ids -> SUBSET (1..begun)]
             /\ \A i \in Ids : ahead'[i] \subseteq ahead[i]
             /\ UNCHANGED <<caller, begun, ordered>>
    <2>1. Head(lane) \in Input /\ Tail(lane) \in Seq(Input)
        BY <1>0, <1>1, TailType DEF ForwardPriority
    <2> QED
        BY <1>1, <2>1, ForwardedType DEF ForwardPriority
<1>2. ASSUME TakeOrdered
      PROVE  /\ ordered' \in Seq(Input) /\ runner' \in RunnerStates
             /\ UNCHANGED <<caller, begun, lane, unsent, ahead>>
    <2>1. Head(ordered) \in Input /\ Tail(ordered) \in Seq(Input)
        BY <1>0, <1>2, TailType DEF TakeOrdered
    <2> QED
        BY <1>2, <2>1 DEF TakeOrdered, RunnerStates
<1>3. ASSUME NEW pc \in {"lane", "ordered", "await", "consume", "forward", "over"},
             RunnerGoto(pc)
      PROVE  runner' \in RunnerStates
    BY <1>0, <1>3 DEF RunnerGoto, RunnerStates
<1>4. CASE PendingCancels
    <2>1. CASE lane # <<>>
        <3>1. runner' \in RunnerStates
            BY <1>0, <1>4, <2>1 DEF PendingCancels, RunnerStates
        <3> QED
            BY <1>0, <1>1, <1>4, <2>1, <3>1 DEF PendingCancels
    <2>2. CASE lane = <<>>
        BY <1>0, <1>3, <1>4, <2>2 DEF PendingCancels, RunnerIdleStep
    <2> QED
        BY <2>1, <2>2
<1>5. CASE PendingOrdered
    <2>1. CASE ordered # <<>>
        BY <1>0, <1>2, <1>5, <2>1 DEF PendingOrdered
    <2>2. CASE ordered = <<>>
        <3>1. runner' \in RunnerStates
            BY <1>0, <1>5, <2>2 DEF PendingOrdered, RunnerStates
        <3> QED
            BY <1>0, <1>5, <2>2, <3>1 DEF PendingOrdered, RunnerIdleStep
    <2> QED
        BY <2>1, <2>2
<1>6. CASE AwaitCancel \/ AwaitOrdered
    BY <1>0, <1>1, <1>2, <1>3, <1>6 DEF AwaitCancel, AwaitOrdered
<1>7. CASE Consume
    BY <1>0, <1>3, <1>7 DEF Consume
<1>8. CASE Forward
    <2>1. runner' \in RunnerStates
        BY <1>0, <1>8, IdleType DEF Forward, RunnerStates
    <2> QED
        BY <1>0, <1>8, <2>1, ForwardedType DEF Forward
<1>9. CASE StopSession
    <2>1. runner' \in RunnerStates
        BY <1>0, <1>9, IdleType DEF StopSession, RunnerStates
    <2> QED
        BY <1>0, <1>9, <2>1 DEF StopSession
<1>10. CASE StartSession
    BY <1>0, <1>3, <1>10 DEF StartSession
<1> QED
    BY <1>4, <1>5, <1>6, <1>7, <1>8, <1>9, <1>10 DEF RunnerStep

LEMMA RunnerCountsType ==
    ASSUME TypeInv, RunnerStep \/ StopSession \/ StartSession
    PROVE  /\ queuedControls' \in Int /\ toolEvents' \in Int
           /\ gen' \in Nat /\ stopped' \in BOOLEAN
<1> USE DEF TypeInv, queues, history, counts
<1>1. CASE PendingCancels \/ PendingOrdered \/ AwaitCancel \/ AwaitOrdered
    BY <1>1 DEF PendingCancels, PendingOrdered, AwaitCancel, AwaitOrdered, ForwardPriority,
                TakeOrdered, RunnerIdleStep
<1>2. CASE Consume
    BY <1>2 DEF Consume, Uncounted
<1>3. CASE Forward
    BY <1>3 DEF Forward
<1>4. CASE StopSession \/ StartSession
    <2>1. UNCHANGED <<queuedControls, toolEvents>> /\ (gen' = gen \/ gen' = gen + 1)
        BY <1>4 DEF StopSession, StartSession
    <2>2. stopped' \in BOOLEAN
        BY <1>4 DEF StopSession, StartSession
    <2> QED
        BY <2>1, <2>2
<1> QED
    BY <1>1, <1>2, <1>3, <1>4 DEF RunnerStep

LEMMA InitType == Init => TypeInv
<1> SUFFICES ASSUME Init PROVE TypeInv
    OBVIOUS
<1>1. caller \in [Callers -> CallerStates]
    BY IdleType DEF Init
<1>2. runner \in RunnerStates
    BY IdleType DEF Init, RunnerStates
<1>3. 0 \in 0..MaxInputs /\ 1..0 = {}
    BY Bounds
<1>4. unsent \subseteq 1..begun /\ ahead \in [Ids -> SUBSET (1..begun)]
    BY DEF Init
<1>5. ordered \in Seq(Input) /\ lane \in Seq(Input)
    BY EmptySeq DEF Init
<1>6. begun \in 0..MaxInputs
    BY <1>3 DEF Init
<1>7. queuedControls \in Int /\ toolEvents \in Int /\ gen \in Nat
    BY DEF Init
<1>8. stopped \in BOOLEAN
    BY DEF Init
<1> QED
    BY <1>1, <1>2, <1>4, <1>5, <1>6, <1>7, <1>8 DEF TypeInv

LEMMA NextType ==
    ASSUME TypeInv, FreshInv, [Next]_vars
    PROVE  TypeInv'
<1> USE DEF queues, history, counts
<1>1. CASE UNCHANGED vars
    BY <1>1 DEF vars, TypeInv
<1>2. CASE RunnerStep \/ StopSession \/ StartSession
    <2>1. UNCHANGED <<caller, begun>> /\ unsent' \subseteq 1..begun
        BY <1>2, RunnerStepType DEF TypeInv
    <2> QED
        BY <1>2, <2>1, RunnerStepType, RunnerCountsType DEF TypeInv
<1>3. ASSUME NEW c \in Callers, Begin(c)
      PROVE  TypeInv'
    <2>1. /\ caller' \in [Callers -> CallerStates] /\ begun + 1 \in 1..MaxInputs
        BY <1>3, BeginStep, CallerStep
    <2>2. begun' \in 0..MaxInputs /\ 1..begun \subseteq 1..begun'
        BY <1>3, <2>1, Bounds DEF Begin, TypeInv
    <2>3. unsent' \subseteq 1..begun' /\ ahead' \in [Ids -> SUBSET (1..begun')]
        BY <1>3, <2>1, <2>2 DEF Begin, TypeInv, Ids
    <2> QED
        BY <1>3, <2>1, <2>2, <2>3 DEF Begin, TypeInv
<1>4. ASSUME NEW c \in Callers, CancelContext(c)
      PROVE  TypeInv'
    <2>1. caller' \in [Callers -> CallerStates]
        BY <1>4, CancelStep, CallerStep
    <2> QED
        BY <1>4, <2>1 DEF CancelContext, TypeInv
<1>5. ASSUME NEW c \in Callers, Lock(c)
      PROVE  TypeInv'
    <2>1. caller' \in [Callers -> CallerStates]
        BY <1>5, LockStep, CallerStep
    <2>2. toolEvents' \in Int
        BY <1>5 DEF Lock, TypeInv
    <2> QED
        BY <1>5, <2>1, <2>2 DEF Lock, TypeInv
<1>6. ASSUME NEW c \in Callers, Admitted(c), caller[c].pc # "idle"
      PROVE  caller' \in [Callers -> CallerStates] /\ unsent' \subseteq 1..begun
    <2>1. caller' \in [Callers -> CallerStates]
        BY <1>6, IdleStep, CallerStep DEF Admitted
    <2>2. caller[c].input.id \in 1..begun
        BY <1>6 DEF FreshInv
    <2> QED
        BY <1>6, <2>1, <2>2 DEF Admitted, TypeInv
<1>7. ASSUME NEW c \in Callers, NEW pc \in {"count", "lock", "uncount"}, Goto(c, pc)
      PROVE  caller' \in [Callers -> CallerStates]
    BY <1>7, GotoBecomes, CallerStep
<1>8. ASSUME NEW c \in Callers, SendPriority(c)
      PROVE  TypeInv'
    <2>0. Append(lane, caller[c].input) \in Seq(Input)
        BY CallerFields, AppendType DEF TypeInv
    <2>1. /\ caller' \in [Callers -> CallerStates] /\ unsent' \subseteq 1..begun
          /\ lane' \in Seq(Input)
        <3>1. CASE lane' = Append(lane, caller[c].input) /\ Admitted(c)
            BY <1>6, <1>8, <2>0, <3>1 DEF SendPriority, At
        <3>2. CASE Goto(c, "count") /\ UNCHANGED <<lane, unsent>>
            BY <1>7, <3>2 DEF TypeInv
        <3> QED
            BY <1>8, <3>1, <3>2 DEF SendPriority
    <2> QED
        BY <1>8, <2>1 DEF SendPriority, TypeInv
<1>9. ASSUME NEW c \in Callers, CountControl(c)
      PROVE  TypeInv'
    BY <1>7, <1>9 DEF CountControl, TypeInv
<1>10. ASSUME NEW c \in Callers, SendOrdered(c)
      PROVE  TypeInv'
    <2>0. Append(ordered, caller[c].input) \in Seq(Input)
        BY CallerFields, AppendType DEF TypeInv
    <2>1. caller' \in [Callers -> CallerStates] /\ unsent' \subseteq 1..begun
        BY <1>6, <1>10 DEF SendOrdered, At
    <2> QED
        BY <1>10, <2>0, <2>1 DEF SendOrdered, TypeInv
<1>11. ASSUME NEW c \in Callers, GiveUp(c)
      PROVE  TypeInv'
    <2>1. caller' \in [Callers -> CallerStates] /\ toolEvents' \in Int
        BY <1>7, <1>11 DEF GiveUp, TypeInv
    <2> QED
        BY <1>11, <2>1 DEF GiveUp, TypeInv
<1>12. ASSUME NEW c \in Callers, Uncount(c)
      PROVE  TypeInv'
    <2>1. caller' \in [Callers -> CallerStates]
        BY <1>12, IdleStep, CallerStep DEF Uncount
    <2>2. queuedControls' \in Int
        BY <1>12 DEF Uncount, Uncounted, TypeInv
    <2>3. ahead' \in [Ids -> SUBSET (1..begun)]
        BY <1>12 DEF Uncount, TypeInv
    <2> QED
        BY <1>12, <2>1, <2>2, <2>3 DEF Uncount, TypeInv
<1> QED
    BY <1>1, <1>2, <1>3, <1>4, <1>5, <1>8, <1>9, <1>10, <1>11, <1>12 DEF Next, Admit

-----------------------------------------------------------------------------
(* Fresh ids                                                               *)

LEMMA InitFresh == Init => FreshInv
BY IdleType DEF Init, FreshInv

(* A step of one caller that keeps or finishes its admission.              *)
LEMMA FreshStep ==
    ASSUME TypeInv, FreshInv, begun' = begun,
           NEW c \in Callers, NEW s, CallerBecomes(c, s),
           \/ s.pc = "idle"
           \/ caller[c].pc # "idle" /\ s.input = caller[c].input,
           \/ unsent' \subseteq unsent
           \/ /\ unsent' \subseteq unsent \cup {caller[c].input.id}
              /\ caller[c].pc # "idle" /\ s.pc = "idle",
           \A i \in Ids : ahead'[i] \subseteq ahead[i]
    PROVE  FreshInv'
<1>1. /\ caller'[c] = s
      /\ \A d \in Callers \ {c} : caller'[d] = caller[d]
    BY CallerStep
<1> SUFFICES ASSUME NEW d \in Callers, caller'[d].pc # "idle"
             PROVE  /\ caller'[d].input.id \in 1..begun
                    /\ caller'[d].input.id \notin unsent'
                    /\ \A i \in Ids : caller'[d].input.id \notin ahead'[i]
                    /\ \A e \in Callers \ {d} : caller'[e].pc # "idle" =>
                          caller'[e].input.id # caller'[d].input.id
    BY DEF FreshInv
<1>2. caller'[d].input = caller[d].input /\ caller[d].pc # "idle"
    BY <1>1
<1>3. \A e \in Callers : caller'[e].pc # "idle" =>
         caller'[e].input = caller[e].input /\ caller[e].pc # "idle"
    BY <1>1
<1>4. /\ caller'[d].input.id \in 1..begun
      /\ caller'[d].input.id \notin unsent
      /\ \A i \in Ids : caller'[d].input.id \notin ahead'[i]
    BY <1>2 DEF FreshInv
<1>5. \A e \in Callers \ {d} : caller'[e].pc # "idle" =>
         caller'[e].input.id # caller'[d].input.id
    BY <1>2, <1>3 DEF FreshInv
<1>6. caller'[d].input.id \notin unsent'
    <2>1. CASE unsent' \subseteq unsent
        BY <1>4, <2>1
    <2>2. CASE /\ unsent' \subseteq unsent \cup {caller[c].input.id}
               /\ caller[c].pc # "idle" /\ s.pc = "idle"
        <3>1. d # c
            BY <1>1, <2>2
        <3>2. caller[d].input.id # caller[c].input.id
            BY <1>2, <2>2, <3>1 DEF FreshInv
        <3> QED
            BY <1>2, <1>4, <2>2, <3>2
    <2> QED
        BY <2>1, <2>2
<1> QED
    BY <1>4, <1>5, <1>6

LEMMA NextFresh ==
    ASSUME TypeInv, FreshInv, [Next]_vars
    PROVE  FreshInv'
<1> USE DEF queues, history, counts
<1>1. CASE UNCHANGED vars
    BY <1>1 DEF vars, FreshInv
<1>2. CASE RunnerStep \/ StopSession \/ StartSession
    <2>1. /\ UNCHANGED <<caller, begun>> /\ unsent' \subseteq unsent
          /\ \A i \in Ids : ahead'[i] \subseteq ahead[i]
        BY <1>2, RunnerStepType
    <2> QED
        BY <2>1 DEF FreshInv
<1>3. ASSUME NEW c \in Callers, Begin(c)
      PROVE  FreshInv'
    <2>1. PICK s : CallerBecomes(c, s) /\ s.input.id = begun + 1
        BY <1>3, BeginStep
    <2>2. /\ caller'[c] = s /\ begun + 1 \in 1..MaxInputs
          /\ \A d \in Callers \ {c} : caller'[d] = caller[d]
        BY <1>3, <2>1, CallerStep, BeginStep
    <2>3. /\ begun' = begun + 1 /\ unsent' = unsent
          /\ ahead' = [ahead EXCEPT ![begun + 1] = unsent]
        BY <1>3 DEF Begin
    <2>4. /\ \A i \in Ids : ahead'[i] = ahead[i] \/ ahead'[i] = unsent
          /\ begun \in Nat /\ begun + 1 \notin unsent /\ begun + 1 \notin 1..begun
          /\ \A i \in Ids : begun + 1 \notin ahead[i]
        BY <2>3, Bounds DEF TypeInv
    <2>5. \A d \in Callers \ {c} : caller'[d].pc # "idle" =>
            /\ caller'[d].input.id \in 1..begun
            /\ caller'[d].input.id \notin unsent'
            /\ \A i \in Ids : caller'[d].input.id \notin ahead'[i]
        BY <2>2, <2>3, <2>4 DEF FreshInv
    <2>6. /\ caller'[c].input.id = begun + 1
          /\ caller'[c].input.id \notin unsent'
          /\ \A i \in Ids : caller'[c].input.id \notin ahead'[i]
        BY <2>1, <2>2, <2>3, <2>4
    <2>7. ASSUME NEW d \in Callers, NEW e \in Callers \ {d},
                 caller'[d].pc # "idle", caller'[e].pc # "idle"
          PROVE  caller'[e].input.id # caller'[d].input.id
        <3>1. CASE d = c \/ e = c
            BY <2>4, <2>5, <2>6, <2>7, <3>1
        <3>2. CASE d # c /\ e # c
            BY <2>2, <2>7, <3>2 DEF FreshInv
        <3> QED
            BY <3>1, <3>2
    <2>8. 1..begun \subseteq 1..begun' /\ begun + 1 \in 1..begun'
        BY <2>3, <2>4
    <2> QED
        BY <2>5, <2>6, <2>7, <2>8 DEF FreshInv
<1>4. ASSUME NEW c \in Callers, CancelContext(c)
      PROVE  FreshInv'
    BY <1>4, CancelStep, FreshStep DEF CancelContext
<1>5. ASSUME NEW c \in Callers, Lock(c)
      PROVE  FreshInv'
    BY <1>5, LockStep, FreshStep DEF Lock, At
<1>6. ASSUME NEW c \in Callers, caller[c].pc # "idle", Admitted(c),
             UNCHANGED <<begun, ahead>>
      PROVE  FreshInv'
    BY <1>6, IdleStep, IdleType, FreshStep DEF Admitted
<1>7. ASSUME NEW c \in Callers, NEW pc \in {"count", "lock", "uncount"}, Goto(c, pc),
             caller[c].pc # "idle", UNCHANGED <<begun, ahead, unsent>>
      PROVE  FreshInv'
    BY ZenonT(60), <1>7, GotoBecomes, CallerFields, FreshStep
<1>8. ASSUME NEW c \in Callers, Uncount(c)
      PROVE  FreshInv'
    <2>1. \A i \in Ids : ahead'[i] \subseteq ahead[i]
        BY <1>8 DEF Uncount, TypeInv
    <2> QED
        BY <1>8, <2>1, IdleStep, IdleType, FreshStep DEF Uncount
<1>9. ASSUME NEW c \in Callers, Admit(c)
      PROVE  FreshInv'
    BY <1>6, <1>7, <1>8, <1>9
       DEF Admit, SendPriority, CountControl, SendOrdered, GiveUp, At
<1> QED
    BY <1>1, <1>2, <1>3, <1>4, <1>5, <1>9 DEF Next

-----------------------------------------------------------------------------
(* Counting                                                                *)

LEMMA WhereFinite ==
    ASSUME NEW q \in Seq(Input), NEW K
    PROVE  IsFiniteSet(Where(q, K)) /\ Cardinality(Where(q, K)) \in Nat
<1>1. Where(q, K) \in SUBSET (1..Len(q)) /\ Len(q) \in Int /\ 1 \in Int
    BY LenProperties DEF Where
<1>2. IsFiniteSet(1..Len(q))
    BY <1>1, FS_Interval
<1>3. IsFiniteSet(Where(q, K))
    BY <1>1, <1>2, FS_Subset
<1> QED
    BY <1>3, FS_CardinalityType

LEMMA WhereAppend ==
    ASSUME NEW q \in Seq(Input), NEW e \in Input, NEW K
    PROVE  Cardinality(Where(Append(q, e), K))
             = Cardinality(Where(q, K)) + (IF e \in K THEN 1 ELSE 0)
<1>1. /\ DOMAIN q = 1..Len(q) /\ DOMAIN Append(q, e) = 1..(Len(q) + 1) /\ Len(q) \in Nat
      /\ \A i \in 1..Len(q) : Append(q, e)[i] = q[i]
      /\ Append(q, e)[Len(q) + 1] = e
    BY AppendType
<1>2. CASE e \in K
    <2>1. Where(Append(q, e), K) = Where(q, K) \cup {Len(q) + 1}
        BY <1>1, <1>2 DEF Where
    <2>2. Len(q) + 1 \notin Where(q, K)
        BY <1>1 DEF Where
    <2> QED
        BY <1>2, <2>1, <2>2, WhereFinite, FS_AddElement
<1>3. CASE e \notin K
    <2>1. Where(Append(q, e), K) = Where(q, K)
        BY <1>1, <1>3 DEF Where
    <2> QED
        BY <1>3, <2>1, WhereFinite
<1> QED
    BY <1>2, <1>3

LEMMA WhereTail ==
    ASSUME NEW q \in Seq(Input), q # <<>>, NEW K
    PROVE  Cardinality(Where(Tail(q), K))
             = Cardinality(Where(q, K)) - (IF Head(q) \in K THEN 1 ELSE 0)
<1> DEFINE R == Where(q, K) \ {1}
           T == Where(Tail(q), K)
           shift == [i \in R |-> i - 1]
<1>1. /\ DOMAIN q = 1..Len(q) /\ DOMAIN Tail(q) = 1..(Len(q) - 1) /\ Len(q) \in Nat
      /\ Len(q) > 0 /\ Head(q) = q[1] /\ Tail(q) \in Seq(Input)
      /\ \A i \in 1..(Len(q) - 1) : Tail(q)[i] = q[i + 1]
    BY TailType
<1>2. R \subseteq 2..Len(q) /\ T \subseteq 1..(Len(q) - 1)
    BY <1>1 DEF Where
<1>3. \A i \in 2..Len(q) : i \in R <=> i - 1 \in T
    BY <1>1 DEF Where
<1>4. shift \in [R -> T]
    BY <1>2, <1>3
<1>5. \A i, j \in R : shift[i] = shift[j] => i = j
    BY <1>2
<1>6. \A t \in T : t + 1 \in R /\ shift[t + 1] = t
    BY <1>2, <1>3, <1>1
<1>7. shift \in Bijection(R, T)
    BY <1>4, <1>5, <1>6 DEF Bijection, Injection, IsInjective, Surjection
<1>8. ExistsBijection(R, T)
    BY <1>7 DEF ExistsBijection
<1>9. IsFiniteSet(Where(q, K)) /\ IsFiniteSet(R) /\ Cardinality(Where(q, K)) \in Nat
      /\ Cardinality(R) = IF 1 \in Where(q, K) THEN Cardinality(Where(q, K)) - 1
                          ELSE Cardinality(Where(q, K))
    BY WhereFinite, FS_RemoveElement
<1>10. Cardinality(T) = Cardinality(R)
    BY <1>8, <1>9, FS_Bijection
<1>11. 1 \in Where(q, K) <=> Head(q) \in K
    BY <1>1 DEF Where
<1> HIDE DEF R, T
<1>12. Cardinality(T) = Cardinality(Where(q, K)) - (IF Head(q) \in K THEN 1 ELSE 0)
    BY <1>9, <1>10, <1>11
<1> QED
    BY <1>12 DEF T

LEMMA WhereEmpty ==
    ASSUME NEW K
    PROVE  Cardinality(Where(<<>>, K)) = 0
<1>1. Where(<<>>, K) = {}
    BY DEF Where
<1> QED
    BY <1>1, FS_EmptySet

(* One caller moves: the counted callers change by that one at most.       *)
LEMMA CallersCount ==
    ASSUME TypeInv, NEW c \in Callers, NEW s, CallerBecomes(c, s),
           NEW K, NEW pcs, IsFiniteSet(CallersAt(K, pcs))
    PROVE  /\ IsFiniteSet(CallersAt(K, pcs)')
           /\ Cardinality(CallersAt(K, pcs)) \in Nat
           /\ Cardinality(CallersAt(K, pcs)')
                = Cardinality(CallersAt(K, pcs))
                  + (IF s.input \in K /\ s.pc \in pcs THEN 1 ELSE 0)
                  - (IF caller[c].input \in K /\ caller[c].pc \in pcs THEN 1 ELSE 0)
<1>1. /\ caller'[c] = s
      /\ \A d \in Callers \ {c} : caller'[d] = caller[d]
    BY CallerStep
<1>2. c \in CallersAt(K, pcs) <=> caller[c].input \in K /\ caller[c].pc \in pcs
    BY DEF CallersAt
<1>3. Cardinality(CallersAt(K, pcs)) \in Nat
    BY FS_CardinalityType
<1>4. CASE s.input \in K /\ s.pc \in pcs
    <2>1. CallersAt(K, pcs)' = CallersAt(K, pcs) \cup {c}
        BY <1>1, <1>4 DEF CallersAt
    <2>2. /\ IsFiniteSet(CallersAt(K, pcs) \cup {c})
          /\ Cardinality(CallersAt(K, pcs) \cup {c}) =
               IF c \in CallersAt(K, pcs) THEN Cardinality(CallersAt(K, pcs))
               ELSE Cardinality(CallersAt(K, pcs)) + 1
        BY FS_AddElement
    <2> QED
        BY <1>2, <1>3, <1>4, <2>1, <2>2
<1>5. CASE ~(s.input \in K /\ s.pc \in pcs)
    <2>1. CallersAt(K, pcs)' = CallersAt(K, pcs) \ {c}
        BY <1>1, <1>5 DEF CallersAt
    <2>2. /\ IsFiniteSet(CallersAt(K, pcs) \ {c})
          /\ Cardinality(CallersAt(K, pcs) \ {c}) =
               IF c \in CallersAt(K, pcs) THEN Cardinality(CallersAt(K, pcs)) - 1
               ELSE Cardinality(CallersAt(K, pcs))
        BY FS_RemoveElement
    <2> QED
        BY <1>2, <1>3, <1>5, <2>1, <2>2
<1> QED
    BY <1>4, <1>5

LEMMA KindSets ==
    /\ \A x \in Input : /\ x \in Controls <=> IsControl(x)
                        /\ x \in Tools <=> IsTool(x)
    /\ NoInput \in Input /\ NoInput \notin Controls /\ NoInput \notin Tools
BY IdleType DEF Controls, Tools

(* A step of one caller that leaves both queues and the runner alone.      *)
LEMMA CallerCount ==
    ASSUME TypeInv, CountInv, UNCHANGED <<ordered, runner>>,
           NEW c \in Callers, NEW s, CallerBecomes(c, s),
           s.pc \in {"lane", "count"} => s.input \in Controls,
           queuedControls' = queuedControls
             + (IF s.input \in Controls /\ s.pc \in {"lock", "send", "uncount"}
                THEN 1 ELSE 0)
             - (IF caller[c].input \in Controls /\ caller[c].pc \in {"lock", "send", "uncount"}
                THEN 1 ELSE 0),
           toolEvents' = toolEvents
             + (IF s.input \in Tools /\ s.pc \in {"send"} THEN 1 ELSE 0)
             - (IF caller[c].input \in Tools /\ caller[c].pc \in {"send"} THEN 1 ELSE 0)
    PROVE  CountInv'
<1> DEFINE A == CallersAt(Controls, {"lock", "send", "uncount"})
           T == CallersAt(Tools, {"send"})
           a == IF s.input \in Controls /\ s.pc \in {"lock", "send", "uncount"}
                THEN 1 ELSE 0
           b == IF caller[c].input \in Controls /\ caller[c].pc \in {"lock", "send", "uncount"}
                THEN 1 ELSE 0
           d == IF s.input \in Tools /\ s.pc \in {"send"} THEN 1 ELSE 0
           e == IF caller[c].input \in Tools /\ caller[c].pc \in {"send"} THEN 1 ELSE 0
<1>1. /\ IsFiniteSet(A') /\ Cardinality(A) \in Nat
      /\ Cardinality(A') = Cardinality(A) + a - b
    BY CallersCount DEF CountInv
<1>2. /\ IsFiniteSet(T') /\ Cardinality(T) \in Nat
      /\ Cardinality(T') = Cardinality(T) + d - e
    BY CallersCount DEF CountInv
<1>3. /\ queuedControls' = queuedControls + a - b /\ toolEvents' = toolEvents + d - e
      /\ a \in Int /\ b \in Int /\ d \in Int /\ e \in Int
    OBVIOUS
<1>4. /\ Where(ordered, Controls)' = Where(ordered, Controls)
      /\ Where(ordered, Tools)' = Where(ordered, Tools)
      /\ HandAt(Controls, {"consume"})' = HandAt(Controls, {"consume"})
      /\ HandAt(Tools, {"consume", "forward"})' = HandAt(Tools, {"consume", "forward"})
    BY DEF Where, HandAt
<1>5. /\ Cardinality(Where(ordered, Controls)) \in Nat
      /\ Cardinality(Where(ordered, Tools)) \in Nat
      /\ HandAt(Controls, {"consume"}) \in Nat
      /\ HandAt(Tools, {"consume", "forward"}) \in Nat
    BY WhereFinite DEF TypeInv, HandAt
<1>6. \A f \in Callers : caller'[f].pc \in {"lane", "count"} => caller'[f].input \in Controls
    BY CallerStep DEF CountInv
<1> HIDE DEF a, b, d, e
<1>7. /\ IsFiniteSet(A)
      /\ queuedControls = Cardinality(Where(ordered, Controls)) + Cardinality(A)
                          + HandAt(Controls, {"consume"})
      /\ toolEvents = Cardinality(Where(ordered, Tools)) + Cardinality(T)
                      + HandAt(Tools, {"consume", "forward"})
    BY DEF CountInv
<1>8. queuedControls' = Cardinality(Where(ordered, Controls)') + Cardinality(A')
                        + HandAt(Controls, {"consume"})'
    BY <1>1, <1>3, <1>4, <1>5, <1>7
<1>9. toolEvents' = Cardinality(Where(ordered, Tools)') + Cardinality(T')
                    + HandAt(Tools, {"consume", "forward"})'
    BY <1>2, <1>3, <1>4, <1>5, <1>7
<1> QED
    BY <1>1, <1>2, <1>6, <1>8, <1>9 DEF CountInv

(* A step that leaves the callers alone.                                   *)
LEMMA RunnerCount ==
    ASSUME TypeInv, CountInv, UNCHANGED caller,
           NEW m \in Int, NEW n \in Int,
           queuedControls' = queuedControls + m, toolEvents' = toolEvents + n,
           Cardinality(Where(ordered, Controls)') + HandAt(Controls, {"consume"})'
             = Cardinality(Where(ordered, Controls)) + HandAt(Controls, {"consume"}) + m,
           Cardinality(Where(ordered, Tools)') + HandAt(Tools, {"consume", "forward"})'
             = Cardinality(Where(ordered, Tools)) + HandAt(Tools, {"consume", "forward"}) + n,
           ordered' \in Seq(Input)
    PROVE  CountInv'
<1> DEFINE A == CallersAt(Controls, {"lock", "send", "uncount"})
           T == CallersAt(Tools, {"send"})
           x == Cardinality(Where(ordered, Controls))
           y == Cardinality(Where(ordered, Tools))
           h == HandAt(Controls, {"consume"})
           k == HandAt(Tools, {"consume", "forward"})
<1>1. A' = A /\ T' = T
    BY DEF CallersAt
<1>2. /\ x \in Nat /\ y \in Nat /\ h \in Nat /\ k \in Nat
      /\ x' \in Nat /\ y' \in Nat /\ h' \in Nat /\ k' \in Nat
    <2>1. x \in Nat /\ y \in Nat
        BY WhereFinite DEF TypeInv
    <2>2. /\ Cardinality(Where(ordered', Controls)) \in Nat
          /\ Cardinality(Where(ordered', Tools)) \in Nat
        BY WhereFinite
    <2>3. x' \in Nat /\ y' \in Nat
        BY <2>2 DEF Where
    <2>4. h \in Nat /\ k \in Nat /\ h' \in Nat /\ k' \in Nat
        BY DEF HandAt
    <2> QED
        BY <2>1, <2>3, <2>4
<1>3. /\ IsFiniteSet(A) /\ IsFiniteSet(T)
      /\ Cardinality(A) \in Nat /\ Cardinality(T) \in Nat
    BY FS_CardinalityType DEF CountInv
<1>4. /\ queuedControls = x + Cardinality(A) + h
      /\ toolEvents = y + Cardinality(T) + k
      /\ x' + h' = x + h + m /\ y' + k' = y + k + n
    BY DEF CountInv
<1>5. /\ \A f \in Callers :
           caller'[f].pc \in {"lane", "count"} => caller'[f].input \in Controls
      /\ queuedControls' = queuedControls + m /\ toolEvents' = toolEvents + n
    BY DEF CountInv
<1> HIDE DEF A, T, x, y, h, k
<1>6. /\ queuedControls' = x' + Cardinality(A') + h'
      /\ toolEvents' = y' + Cardinality(T') + k'
      /\ IsFiniteSet(A') /\ IsFiniteSet(T')
    <2>1. /\ IsFiniteSet(A') /\ IsFiniteSet(T')
          /\ Cardinality(A') = Cardinality(A) /\ Cardinality(T') = Cardinality(T)
        BY <1>1, <1>3
    <2>2. queuedControls' = x' + Cardinality(A) + h'
        <3>1. queuedControls' = (x + Cardinality(A) + h) + m
            BY <1>4, <1>5
        <3>2. queuedControls' = Cardinality(A) + (x + h + m)
            BY SMTT(60), <3>1, <1>2, <1>3
        <3>3. queuedControls' = Cardinality(A) + (x' + h')
            BY <3>2, <1>4
        <3> QED
            BY SMTT(60), <3>3, <1>2, <1>3
    <2>3. toolEvents' = y' + Cardinality(T) + k'
        <3>1. toolEvents' = (y + Cardinality(T) + k) + n
            BY <1>4, <1>5
        <3>2. toolEvents' = Cardinality(T) + (y + k + n)
            BY SMTT(60), <3>1, <1>2, <1>3
        <3>3. toolEvents' = Cardinality(T) + (y' + k')
            BY <3>2, <1>4
        <3> QED
            BY SMTT(60), <3>3, <1>2, <1>3
    <2> QED
        BY <2>1, <2>2, <2>3
<1> QED
    BY <1>5, <1>6 DEF CountInv, A, T, x, y, h, k

LEMMA InitCount == Init => CountInv
<1> SUFFICES ASSUME Init PROVE CountInv
    OBVIOUS
<1>1. CallersAt(Controls, {"lock", "send", "uncount"}) = {} /\ CallersAt(Tools, {"send"}) = {}
    BY IdleType DEF Init, CallersAt
<1>2. /\ Cardinality(Where(ordered, Controls)) = 0 /\ Cardinality(Where(ordered, Tools)) = 0
      /\ HandAt(Controls, {"consume"}) = 0 /\ HandAt(Tools, {"consume", "forward"}) = 0
    BY WhereEmpty DEF Init, HandAt
<1>3. \A c \in Callers : caller[c].pc \notin {"lane", "count"}
    BY IdleType DEF Init
<1>4. queuedControls = 0 /\ toolEvents = 0
    BY DEF Init
<1> QED
    BY <1>1, <1>2, <1>3, <1>4, FS_EmptySet DEF CountInv

(* A member of a counted set makes the count positive.                     *)
LEMMA PositiveCounts ==
    ASSUME TypeInv, CountInv
    PROVE  /\ \A c \in Callers :
                 caller[c].input \in Tools /\ caller[c].pc = "send" => toolEvents > 0
           /\ HandAt(Tools, {"consume", "forward"}) = 1 => toolEvents > 0
           /\ queuedControls = 0 => Where(ordered, Controls) = {}
<1> DEFINE A == CallersAt(Controls, {"lock", "send", "uncount"})
           T == CallersAt(Tools, {"send"})
<1>1. /\ Cardinality(Where(ordered, Controls)) \in Nat
      /\ IsFiniteSet(Where(ordered, Controls))
      /\ Cardinality(Where(ordered, Tools)) \in Nat
    BY WhereFinite DEF TypeInv
<1>2. /\ IsFiniteSet(T) /\ Cardinality(A) \in Nat /\ Cardinality(T) \in Nat
      /\ HandAt(Controls, {"consume"}) \in Nat
      /\ HandAt(Tools, {"consume", "forward"}) \in Nat
    BY FS_CardinalityType DEF CountInv, HandAt
<1>3. /\ queuedControls = Cardinality(Where(ordered, Controls)) + Cardinality(A)
                          + HandAt(Controls, {"consume"})
      /\ toolEvents = Cardinality(Where(ordered, Tools)) + Cardinality(T)
                      + HandAt(Tools, {"consume", "forward"})
    BY DEF CountInv
<1>4. ASSUME NEW c \in Callers, caller[c].input \in Tools, caller[c].pc = "send"
      PROVE  T # {}
    BY <1>4 DEF CallersAt
<1>5. T # {} => Cardinality(T) > 0
    BY <1>2, FS_EmptySet
<1>6. queuedControls = 0 => Cardinality(Where(ordered, Controls)) = 0
    BY <1>1, <1>2, <1>3
<1>7. queuedControls = 0 => Where(ordered, Controls) = {}
    BY <1>1, <1>6, FS_EmptySet
<1> HIDE DEF A, T
<1>8. T # {} => toolEvents > 0
    BY <1>1, <1>2, <1>3, <1>5
<1>9. HandAt(Tools, {"consume", "forward"}) = 1 => toolEvents > 0
    BY <1>1, <1>2, <1>3
<1> QED
    BY <1>4, <1>7, <1>8, <1>9

LEMMA CallerNextCount ==
    ASSUME TypeInv, CountInv, NEW c \in Callers,
           Begin(c) \/ CancelContext(c) \/ Lock(c) \/ Admit(c)
    PROVE  CountInv'
<1> USE DEF queues, history, counts, At
<1>0. /\ caller[c] \in CallerStates /\ caller[c].input \in Input
      /\ queuedControls \in Int /\ toolEvents \in Int
      /\ caller[c].pc \in {"lane", "count"} => caller[c].input \in Controls
    BY CallerFields DEF TypeInv, CountInv
<1>1. CASE Begin(c)
    <2>1. PICK s : /\ CallerBecomes(c, s)
                   /\ s.pc \in {"lane", "lock", "count"}
                   /\ s.pc = "lock" => s.input \notin Controls
                   /\ s.pc \in {"lane", "count"} => s.input \in Controls
        BY <1>1, BeginStep
    <2>2. caller[c].pc = "idle"
          /\ UNCHANGED <<ordered, runner, queuedControls, toolEvents>>
        BY <1>1 DEF Begin
    <2> QED
        BY <1>0, <2>1, <2>2, CallerCount
<1>2. CASE CancelContext(c)
    <2>1. PICK s : CallerBecomes(c, s) /\ s.input = caller[c].input /\ s.pc = caller[c].pc
        BY <1>2, CancelStep
    <2>2. UNCHANGED <<ordered, runner, queuedControls, toolEvents>>
        BY <1>2 DEF CancelContext
    <2> QED
        BY <1>0, <2>1, <2>2, CallerCount
<1>3. CASE Lock(c)
    <2>1. PICK s : /\ CallerBecomes(c, s)
                   /\ s.input = caller[c].input /\ s.pc \in {"uncount", "send"}
                   /\ toolEvents' = IF s.pc = "send" /\ IsTool(caller[c].input)
                                    THEN toolEvents + 1 ELSE toolEvents
        BY <1>3, LockStep
    <2>2. caller[c].pc = "lock" /\ UNCHANGED <<ordered, runner, queuedControls>>
        BY <1>3 DEF Lock
    <2>3. toolEvents' = toolEvents + (IF s.input \in Tools /\ s.pc \in {"send"} THEN 1 ELSE 0)
        BY <1>0, <2>1, KindSets
    <2> QED
        BY <1>0, <2>1, <2>2, <2>3, CallerCount
<1>4. ASSUME NEW pc \in {"count", "lock", "uncount"}, Goto(c, pc)
      PROVE  \E s : CallerBecomes(c, s) /\ s.input = caller[c].input /\ s.pc = pc
    <2>1. CallerBecomes(c, [caller[c] EXCEPT !.pc = pc])
        BY <1>4, GotoBecomes
    <2>2. /\ [caller[c] EXCEPT !.pc = pc].pc = pc
          /\ [caller[c] EXCEPT !.pc = pc].input = caller[c].input
        BY CallerFields
    <2> QED
        BY <2>1, <2>2
<1>5. ASSUME Admitted(c)
      PROVE  CallerBecomes(c, Idle)
    BY <1>5, IdleStep DEF Admitted
<1>6. CASE SendPriority(c)
    <2>1. PICK s : /\ CallerBecomes(c, s)
                   /\ \/ s.pc = "idle"
                      \/ s.pc = "count" /\ s.input = caller[c].input
        BY <1>4, <1>5, <1>6, IdleType DEF SendPriority
    <2>2. caller[c].pc = "lane" /\ UNCHANGED <<ordered, runner, queuedControls, toolEvents>>
        BY <1>6 DEF SendPriority
    <2> QED
        BY <1>0, <2>1, <2>2, CallerCount
<1>7. CASE CountControl(c)
    <2>1. PICK s : CallerBecomes(c, s) /\ s.pc = "lock" /\ s.input = caller[c].input
        BY <1>4, <1>7 DEF CountControl
    <2>2. caller[c].pc = "count" /\ UNCHANGED <<ordered, runner, toolEvents>>
          /\ queuedControls' = queuedControls + 1
        BY <1>7 DEF CountControl
    <2> QED
        BY <1>0, <2>1, <2>2, CallerCount
<1>8. CASE GiveUp(c)
    <2>1. PICK s : CallerBecomes(c, s) /\ s.pc = "uncount" /\ s.input = caller[c].input
        BY <1>4, <1>8 DEF GiveUp
    <2>2. caller[c].pc = "send" /\ UNCHANGED <<ordered, runner, queuedControls>>
        BY <1>8 DEF GiveUp
    <2>3. toolEvents' = toolEvents - (IF caller[c].input \in Tools THEN 1 ELSE 0)
        BY <1>0, <1>8, <2>2, KindSets, PositiveCounts DEF GiveUp
    <2> QED
        BY <1>0, <2>1, <2>2, <2>3, CallerCount
<1>9. CASE Uncount(c)
    <2>1. CallerBecomes(c, Idle)
        BY <1>9, IdleStep DEF Uncount
    <2>2. caller[c].pc = "uncount" /\ UNCHANGED <<ordered, runner, toolEvents>>
        BY <1>9 DEF Uncount
    <2>3. queuedControls' = queuedControls - (IF caller[c].input \in Controls THEN 1 ELSE 0)
        BY <1>0, <1>9, KindSets DEF Uncount, Uncounted
    <2> QED
        BY <1>0, <2>1, <2>2, <2>3, CallerCount, IdleType
<1>10. CASE SendOrdered(c)
    <2>1. CallerBecomes(c, Idle)
        BY <1>5, <1>10 DEF SendOrdered
    <2>2. /\ caller[c].pc = "send" /\ UNCHANGED <<runner, queuedControls, toolEvents>>
          /\ ordered' = Append(ordered, caller[c].input)
        BY <1>10 DEF SendOrdered
    <2> DEFINE m == IF caller[c].input \in Controls THEN 1 ELSE 0
               n == IF caller[c].input \in Tools THEN 1 ELSE 0
               A == CallersAt(Controls, {"lock", "send", "uncount"})
               T == CallersAt(Tools, {"send"})
    <2>3. /\ IsFiniteSet(A') /\ Cardinality(A) \in Nat
          /\ Cardinality(A') = Cardinality(A) - m
          /\ IsFiniteSet(T') /\ Cardinality(T) \in Nat
          /\ Cardinality(T') = Cardinality(T) - n
        BY <2>1, <2>2, CallersCount, IdleType, KindSets DEF CountInv
    <2>4. /\ Cardinality(Where(ordered, Controls)') = Cardinality(Where(ordered, Controls)) + m
          /\ Cardinality(Where(ordered, Tools)') = Cardinality(Where(ordered, Tools)) + n
          /\ Cardinality(Where(ordered, Controls)) \in Nat
          /\ Cardinality(Where(ordered, Tools)) \in Nat
        <3>1. ordered \in Seq(Input)
            BY DEF TypeInv
        <3>2. \A K : Where(ordered, K)' = Where(Append(ordered, caller[c].input), K)
            BY <2>2 DEF Where
        <3> QED
            BY <1>0, <3>1, <3>2, WhereAppend, WhereFinite
    <2>5. /\ HandAt(Controls, {"consume"})' = HandAt(Controls, {"consume"})
          /\ HandAt(Tools, {"consume", "forward"})' = HandAt(Tools, {"consume", "forward"})
          /\ HandAt(Controls, {"consume"}) \in Nat
          /\ HandAt(Tools, {"consume", "forward"}) \in Nat
        BY <2>2 DEF HandAt
    <2>6. /\ queuedControls = Cardinality(Where(ordered, Controls)) + Cardinality(A)
                              + HandAt(Controls, {"consume"})
          /\ toolEvents = Cardinality(Where(ordered, Tools)) + Cardinality(T)
                          + HandAt(Tools, {"consume", "forward"})
        BY DEF CountInv
    <2>7. \A f \in Callers :
             caller'[f].pc \in {"lane", "count"} => caller'[f].input \in Controls
        BY <2>1, CallerStep, IdleType DEF CountInv
    <2>8. m \in Int /\ n \in Int
        OBVIOUS
    <2> HIDE DEF m, n
    <2>a. /\ queuedControls' = Cardinality(Where(ordered, Controls)) + Cardinality(A)
                               + HandAt(Controls, {"consume"})
          /\ toolEvents' = Cardinality(Where(ordered, Tools)) + Cardinality(T)
                           + HandAt(Tools, {"consume", "forward"})
        BY <2>2, <2>6
    <2>b. queuedControls' = (Cardinality(Where(ordered, Controls)) + m) + (Cardinality(A) - m)
                            + HandAt(Controls, {"consume"})
        BY <2>a, <2>3, <2>4, <2>5, <2>8
    <2>c. toolEvents' = (Cardinality(Where(ordered, Tools)) + n) + (Cardinality(T) - n)
                        + HandAt(Tools, {"consume", "forward"})
        BY <2>a, <2>3, <2>4, <2>5, <2>8
    <2> HIDE DEF A, T
    <2>9. /\ queuedControls' = Cardinality(Where(ordered, Controls)') + Cardinality(A')
                               + HandAt(Controls, {"consume"})'
          /\ toolEvents' = Cardinality(Where(ordered, Tools)') + Cardinality(T')
                           + HandAt(Tools, {"consume", "forward"})'
        BY <2>b, <2>c, <2>3, <2>4, <2>5
    <2> QED
        BY <2>3, <2>7, <2>9 DEF CountInv, A, T
<1> QED
    BY <1>1, <1>2, <1>3, <1>6, <1>7, <1>8, <1>9, <1>10 DEF Admit

LEMMA RunnerNextCount ==
    ASSUME TypeInv, CountInv, RunnerStep \/ StopSession \/ StartSession
    PROVE  CountInv'
<1> USE DEF queues, history, counts
<1>0. /\ runner \in RunnerStates /\ runner.input \in Input /\ ordered \in Seq(Input)
      /\ queuedControls \in Int /\ toolEvents \in Int
      /\ caller' = caller /\ ordered' \in Seq(Input)
      /\ Cardinality(Where(ordered, Controls)) \in Nat
      /\ Cardinality(Where(ordered, Tools)) \in Nat
    BY RunnerStepType, WhereFinite DEF TypeInv, RunnerStates
<1>1. CASE TakeOrdered /\ runner.pc \in {"ordered", "await"}
    <2> DEFINE m == IF Head(ordered) \in Controls THEN 1 ELSE 0
               n == IF Head(ordered) \in Tools THEN 1 ELSE 0
    <2>1. \A K : Where(ordered, K)' = Where(Tail(ordered), K)
        BY <1>1 DEF TakeOrdered, Where
    <2>2. /\ Cardinality(Where(ordered, Controls)') = Cardinality(Where(ordered, Controls)) - m
          /\ Cardinality(Where(ordered, Tools)') = Cardinality(Where(ordered, Tools)) - n
        BY <1>0, <1>1, <2>1, WhereTail DEF TakeOrdered
    <2>3. /\ HandAt(Controls, {"consume"}) = 0 /\ HandAt(Controls, {"consume"})' = m
          /\ HandAt(Tools, {"consume", "forward"}) = 0
          /\ HandAt(Tools, {"consume", "forward"})' = n
        BY <1>1 DEF TakeOrdered, HandAt
    <2>4. queuedControls' = queuedControls + 0 /\ toolEvents' = toolEvents + 0
        BY <1>0, <1>1 DEF TakeOrdered
    <2>5. m \in Int /\ n \in Int
        OBVIOUS
    <2> HIDE DEF m, n
    <2>6. /\ Cardinality(Where(ordered, Controls)') + HandAt(Controls, {"consume"})'
               = Cardinality(Where(ordered, Controls)) + HandAt(Controls, {"consume"}) + 0
          /\ Cardinality(Where(ordered, Tools)') + HandAt(Tools, {"consume", "forward"})'
               = Cardinality(Where(ordered, Tools)) + HandAt(Tools, {"consume", "forward"}) + 0
        BY <1>0, <2>2, <2>3, <2>5
    <2> QED
        BY <1>0, <2>4, <2>6, RunnerCount
<1>2. ASSUME NEW m \in Int, NEW n \in Int, UNCHANGED ordered,
             queuedControls' = queuedControls + m, toolEvents' = toolEvents + n,
             HandAt(Controls, {"consume"})' = HandAt(Controls, {"consume"}) + m,
             HandAt(Tools, {"consume", "forward"})'
               = HandAt(Tools, {"consume", "forward"}) + n
      PROVE  CountInv'
    <2>1. \A K : Where(ordered, K)' = Where(ordered, K)
        BY <1>2 DEF Where
    <2>2. /\ HandAt(Controls, {"consume"}) \in Nat
          /\ HandAt(Tools, {"consume", "forward"}) \in Nat
        BY DEF HandAt
    <2>3. /\ Cardinality(Where(ordered, Controls)') + HandAt(Controls, {"consume"})'
               = Cardinality(Where(ordered, Controls)) + HandAt(Controls, {"consume"}) + m
          /\ Cardinality(Where(ordered, Tools)') + HandAt(Tools, {"consume", "forward"})'
               = Cardinality(Where(ordered, Tools)) + HandAt(Tools, {"consume", "forward"}) + n
        BY <1>0, <1>2, <2>1, <2>2
    <2> QED
        BY <1>0, <1>2, <2>3, RunnerCount
<1>3. ASSUME UNCHANGED <<ordered, queuedControls, toolEvents>>,
             runner.pc \notin {"consume", "forward"}, runner'.pc \notin {"consume", "forward"}
      PROVE  CountInv'
    <2>1. /\ HandAt(Controls, {"consume"})' = 0 /\ HandAt(Controls, {"consume"}) = 0
          /\ HandAt(Tools, {"consume", "forward"})' = 0
          /\ HandAt(Tools, {"consume", "forward"}) = 0
        BY <1>3 DEF HandAt
    <2>2. queuedControls' = queuedControls + 0 /\ toolEvents' = toolEvents + 0
        BY <1>0, <1>3
    <2> QED
        BY <1>2, <1>3, <2>1, <2>2
<1>4. CASE PendingCancels
    <2>1. /\ runner.pc = "lane" /\ runner'.pc \in {"lane", "ordered"}
          /\ UNCHANGED <<ordered, queuedControls, toolEvents>>
        BY <1>0, <1>4 DEF PendingCancels, ForwardPriority, RunnerGoto, RunnerIdleStep,
                          RunnerStates
    <2> QED
        BY <1>3, <2>1
<1>5. CASE PendingOrdered
    <2>1. CASE ordered # <<>>
        BY <1>1, <1>5, <2>1 DEF PendingOrdered
    <2>2. CASE ordered = <<>>
        <3>1. /\ runner.pc = "ordered" /\ runner'.pc \in {"lane", "await"}
              /\ UNCHANGED <<ordered, queuedControls, toolEvents>>
            BY <1>0, <1>5, <2>2 DEF PendingOrdered, RunnerIdleStep, RunnerStates
        <3> QED
            BY <1>3, <3>1
    <2> QED
        BY <2>1, <2>2
<1>6. CASE AwaitCancel
    <2>1. /\ runner.pc = "await" /\ runner'.pc = "lane"
          /\ UNCHANGED <<ordered, queuedControls, toolEvents>>
        BY <1>0, <1>6 DEF AwaitCancel, ForwardPriority, RunnerGoto, RunnerStates
    <2> QED
        BY <1>3, <2>1
<1>7. CASE AwaitOrdered
    BY <1>1, <1>7 DEF AwaitOrdered
<1>8. CASE Consume
    <2> DEFINE m == IF runner.input \in Controls THEN -1 ELSE 0
    <2>1. /\ runner.pc = "consume" /\ runner'.pc = "forward" /\ runner'.input = runner.input
          /\ UNCHANGED <<ordered, toolEvents>> /\ queuedControls' = queuedControls + m
        BY <1>0, <1>8, KindSets DEF Consume, RunnerGoto, RunnerStates, Uncounted
    <2>2. /\ HandAt(Controls, {"consume"})' = HandAt(Controls, {"consume"}) + m
          /\ HandAt(Tools, {"consume", "forward"})'
               = HandAt(Tools, {"consume", "forward"}) + 0
        BY <2>1 DEF HandAt
    <2>3. m \in Int /\ toolEvents' = toolEvents + 0
        BY <1>0, <2>1
    <2> QED
        BY <1>2, <2>1, <2>2, <2>3
<1>9. CASE Forward
    <2> DEFINE n == IF runner.input \in Tools THEN -1 ELSE 0
    <2>1. /\ runner.pc = "forward" /\ runner'.pc = "lane"
          /\ UNCHANGED <<ordered, queuedControls>>
        BY <1>0, <1>9 DEF Forward, RunnerStates
    <2>2. runner.input \in Tools => toolEvents > 0
        BY <2>1, PositiveCounts DEF HandAt
    <2>3. toolEvents' = toolEvents + n
        BY <1>0, <1>9, <2>2, KindSets DEF Forward
    <2>4. /\ HandAt(Controls, {"consume"})' = HandAt(Controls, {"consume"}) + 0
          /\ HandAt(Tools, {"consume", "forward"})'
               = HandAt(Tools, {"consume", "forward"}) + n
        BY <2>1 DEF HandAt
    <2>5. n \in Int /\ queuedControls' = queuedControls + 0
        BY <1>0, <2>1
    <2> QED
        BY <1>2, <2>1, <2>3, <2>4, <2>5
<1>10. CASE StopSession
    <2>1. /\ runner.pc = "await" /\ runner'.pc = "over"
          /\ UNCHANGED <<ordered, queuedControls, toolEvents>>
        BY <1>10 DEF StopSession
    <2> QED
        BY <1>3, <2>1
<1>11. CASE StartSession
    <2>1. /\ runner.pc = "over" /\ runner'.pc = "lane"
          /\ UNCHANGED <<ordered, queuedControls, toolEvents>>
        BY <1>0, <1>11 DEF StartSession, RunnerGoto, RunnerStates
    <2> QED
        BY <1>3, <2>1
<1> QED
    BY <1>4, <1>5, <1>6, <1>7, <1>8, <1>9, <1>10, <1>11 DEF RunnerStep

LEMMA NextCount ==
    ASSUME TypeInv, CountInv, [Next]_vars
    PROVE  CountInv'
<1>1. CASE UNCHANGED vars
    <2>1. UNCHANGED <<caller, runner, ordered, queuedControls, toolEvents>>
        BY <1>1 DEF vars, queues, counts
    <2> QED
        BY <2>1 DEF CountInv, CallersAt, Where, HandAt
<1> QED
    BY <1>1, CallerNextCount, RunnerNextCount DEF Next

(* queuedControls and toolEvents count exactly what is in the queue, in an *)
(* admission or in the goroutine's hand, for any number of callers, so no  *)
(* test of either is ever made on a stale count.                           *)
THEOREM Counted == Spec => []CountsExact
<1>1. TypeInv /\ CountInv => CountsExact
    <2> SUFFICES ASSUME TypeInv, CountInv PROVE CountsExact
        OBVIOUS
    <2>0. /\ \A c \in Callers : caller[c].input \in Input
          /\ \A i \in DOMAIN ordered : ordered[i] \in Input
          /\ runner.input \in Input
        BY CallerFields, ElementOfSeq, LenProperties DEF TypeInv, RunnerStates
    <2>1. /\ {i \in DOMAIN ordered : IsControl(ordered[i])} = Where(ordered, Controls)
          /\ {i \in DOMAIN ordered : IsTool(ordered[i])} = Where(ordered, Tools)
        BY <2>0, KindSets DEF Where
    <2>2. {c \in Callers : /\ IsControl(caller[c].input)
                           /\ caller[c].pc \in {"lock", "send", "uncount"}}
            = CallersAt(Controls, {"lock", "send", "uncount"})
        BY <2>0, KindSets DEF CallersAt
    <2>3. {c \in Callers : IsTool(caller[c].input) /\ At(c, "send")}
            = CallersAt(Tools, {"send"})
        BY <2>0, KindSets DEF CallersAt, At
    <2>4. /\ (IF runner.pc = "consume" /\ IsControl(runner.input) THEN 1 ELSE 0)
               = HandAt(Controls, {"consume"})
          /\ (IF runner.pc \in {"consume", "forward"} /\ IsTool(runner.input) THEN 1 ELSE 0)
               = HandAt(Tools, {"consume", "forward"})
        BY <2>0, KindSets DEF HandAt
    <2> QED
        BY <2>1, <2>2, <2>3, <2>4 DEF CountInv, CountsExact
<1> QED
    BY InitType, InitFresh, InitCount, NextType, NextFresh, NextCount, <1>1, PTL DEF Spec

-----------------------------------------------------------------------------
(* Order                                                                   *)

(* Queue r is queue q without some of its first inputs, whose ids are in   *)
(* L: nothing before an input is lost but those.                           *)
Shrinks(q, r, L) ==
    /\ IdsOf(q) \subseteq IdsOf(r) \cup L
    /\ AudioIds(q) \subseteq AudioIds(r) \cup L
    /\ \A j \in DOMAIN r : \E i \in DOMAIN q :
          r[j] = q[i] /\ Before(q, i) \subseteq Before(r, j) \cup L

LEMMA ShrinksNot ==
    ASSUME NEW q
    PROVE  Shrinks(q, q, {})
BY DEF Shrinks

LEMMA ShrinksTail ==
    ASSUME NEW q \in Seq(Input), q # <<>>
    PROVE  Shrinks(q, Tail(q), {Head(q).id})
<1>1. /\ DOMAIN q = 1..Len(q) /\ DOMAIN Tail(q) = 1..(Len(q) - 1) /\ Len(q) \in Nat
      /\ Len(q) > 0 /\ Head(q) = q[1]
      /\ \A i \in 1..(Len(q) - 1) : Tail(q)[i] = q[i + 1]
    BY TailType
<1>2. \A i \in 1..Len(q) : i = 1 \/ (i - 1 \in 1..(Len(q) - 1) /\ Tail(q)[i - 1] = q[i])
    BY <1>1
<1>3. IdsOf(q) \subseteq IdsOf(Tail(q)) \cup {Head(q).id}
    <2> SUFFICES ASSUME NEW i \in 1..Len(q), i # 1
                 PROVE  q[i].id \in IdsOf(Tail(q))
        BY <1>1 DEF IdsOf, IdsAt
    <2> QED
        BY <1>1, <1>2 DEF IdsOf, IdsAt
<1>4. \A i \in Where(q, Audio) : i = 1 \/ i - 1 \in Where(Tail(q), Audio)
    BY <1>1, <1>2 DEF Where
<1>5. AudioIds(q) \subseteq AudioIds(Tail(q)) \cup {Head(q).id}
    <2> SUFFICES ASSUME NEW i \in Where(q, Audio), i # 1
                 PROVE  q[i].id \in AudioIds(Tail(q))
        BY <1>1 DEF AudioIds, IdsAt
    <2>1. i \in 1..Len(q) /\ i - 1 \in Where(Tail(q), Audio)
        BY <1>1, <1>4 DEF Where
    <2> QED
        BY <1>2, <2>1 DEF AudioIds, IdsAt
<1>6. ASSUME NEW j \in DOMAIN Tail(q)
      PROVE  /\ j + 1 \in DOMAIN q /\ Tail(q)[j] = q[j + 1]
             /\ Before(q, j + 1) \subseteq Before(Tail(q), j) \cup {Head(q).id}
    <2>1. j \in 1..(Len(q) - 1) /\ j + 1 \in 1..Len(q)
        BY <1>1
    <2>2. \A i \in 1..((j + 1) - 1) :
             i = 1 \/ (i - 1 \in 1..(j - 1) /\ Tail(q)[i - 1] = q[i])
        BY <1>1, <1>2, <2>1
    <2>3. Before(q, j + 1) \subseteq Before(Tail(q), j) \cup {Head(q).id}
        BY <1>1, <2>2 DEF Before, IdsAt
    <2> QED
        BY <1>1, <2>1, <2>3
<1> QED
    BY <1>3, <1>5, <1>6 DEF Shrinks

(* A queue grows at its end.                                               *)
LEMMA Grows ==
    ASSUME NEW q \in Seq(Input), NEW e \in Input
    PROVE  /\ IdsOf(Append(q, e)) = IdsOf(q) \cup {e.id}
           /\ AudioIds(q) \subseteq AudioIds(Append(q, e))
           /\ \A i \in DOMAIN q : /\ Append(q, e)[i] = q[i]
                                  /\ Before(Append(q, e), i) = Before(q, i)
           /\ DOMAIN Append(q, e) = DOMAIN q \cup {Len(q) + 1}
           /\ Append(q, e)[Len(q) + 1] = e
           /\ Before(Append(q, e), Len(q) + 1) = IdsOf(q)
<1>1. /\ DOMAIN q = 1..Len(q) /\ DOMAIN Append(q, e) = 1..(Len(q) + 1) /\ Len(q) \in Nat
      /\ \A i \in 1..Len(q) : Append(q, e)[i] = q[i]
      /\ Append(q, e)[Len(q) + 1] = e
    BY AppendType
<1>2. 1..(Len(q) + 1) = 1..Len(q) \cup {Len(q) + 1}
    BY <1>1
<1>3. IdsOf(Append(q, e)) = IdsOf(q) \cup {e.id}
    BY <1>1, <1>2 DEF IdsOf, IdsAt
<1>4. Where(q, Audio) \subseteq Where(Append(q, e), Audio)
    BY <1>1, <1>2 DEF Where
<1>5. AudioIds(q) \subseteq AudioIds(Append(q, e))
    BY <1>1, <1>4 DEF AudioIds, IdsAt, Where
<1>6. \A i \in 1..(Len(q) + 1) : \A j \in 1..(i - 1) : Append(q, e)[j] = q[j]
    BY <1>1
<1>7. \A i \in 1..(Len(q) + 1) : Before(Append(q, e), i) = Before(q, i)
    BY <1>6 DEF Before, IdsAt
<1>8. Before(q, Len(q) + 1) = IdsOf(q)
    <2>1. 1..((Len(q) + 1) - 1) = DOMAIN q
        BY <1>1
    <2> QED
        BY <2>1 DEF Before, IdsOf
<1> QED
    BY <1>1, <1>2, <1>3, <1>5, <1>7, <1>8

(* A step that takes inputs away, into the hand or to the provider.        *)
LEMMA ShrinkOrder ==
    ASSUME TypeInv, OrderInv, UNCHANGED <<caller, begun, overtaken>>,
           unsent' \subseteq unsent,
           \A i \in Ids : ahead'[i] \subseteq ahead[i],
           NEW L, NEW M, Shrinks(ordered, ordered', L), Shrinks(lane, lane', M),
           (L \cup M \cup InHand) \cap unsent' \subseteq InHand',
           runner'.pc \in {"consume", "forward"} =>
               /\ runner'.input.id \in 1..begun
               /\ ahead'[runner'.input.id] \cap unsent' \subseteq IdsOf(lane'),
           FreshInv
    PROVE  OrderInv'
<1>1. 1..begun \subseteq Ids
    BY Bounds DEF TypeInv, Ids
<1>2. IdsOf(lane)' = IdsOf(lane') /\ IdsOf(ordered)' = IdsOf(ordered')
      /\ AudioIds(ordered)' = AudioIds(ordered')
    BY DEF IdsOf, IdsAt, AudioIds, Where
<1>3. /\ unsent \subseteq IdsOf(ordered) \cup IdsOf(lane) \cup InHand
      /\ IdsOf(ordered) \subseteq IdsOf(ordered') \cup L
      /\ AudioIds(ordered) \subseteq AudioIds(ordered') \cup L
      /\ IdsOf(lane) \subseteq IdsOf(lane') \cup M
    BY DEF OrderInv, Shrinks
<1>4. unsent' \subseteq IdsOf(ordered') \cup IdsOf(lane') \cup InHand'
    BY <1>3
<1>5. ASSUME NEW j \in DOMAIN ordered'
      PROVE  /\ ordered'[j].id \in 1..begun
             /\ ahead'[ordered'[j].id] \cap unsent'
                  \subseteq Before(ordered', j) \cup IdsOf(lane') \cup InHand'
    <2>1. PICK i \in DOMAIN ordered :
             ordered'[j] = ordered[i]
             /\ Before(ordered, i) \subseteq Before(ordered', j) \cup L
        BY DEF Shrinks
    <2>2. /\ ordered[i].id \in 1..begun
          /\ ahead[ordered[i].id] \cap unsent
               \subseteq Before(ordered, i) \cup IdsOf(lane) \cup InHand
        BY DEF OrderInv
    <2>3. ahead'[ordered'[j].id] \subseteq ahead[ordered[i].id]
        BY <1>1, <2>1, <2>2
    <2> QED
        BY <1>3, <2>1, <2>2, <2>3
<1>6. ASSUME NEW j \in DOMAIN lane'
      PROVE  /\ lane'[j].id \in 1..begun
             /\ ahead'[lane'[j].id] \cap unsent'
                  \subseteq Before(lane', j) \cup AudioIds(ordered') \cup InHand'
    <2>1. PICK i \in DOMAIN lane :
             lane'[j] = lane[i] /\ Before(lane, i) \subseteq Before(lane', j) \cup M
        BY DEF Shrinks
    <2>2. /\ lane[i].id \in 1..begun
          /\ ahead[lane[i].id] \cap unsent
               \subseteq Before(lane, i) \cup AudioIds(ordered) \cup InHand
        BY DEF OrderInv
    <2>3. ahead'[lane'[j].id] \subseteq ahead[lane[i].id]
        BY <1>1, <2>1, <2>2
    <2> QED
        BY <1>3, <2>1, <2>2, <2>3
<1>7. ASSUME NEW c \in Callers, caller[c].pc = "lane"
      PROVE  ahead'[caller[c].input.id] \cap unsent'
               \subseteq IdsOf(lane') \cup AudioIds(ordered') \cup InHand'
    <2>1. ahead[caller[c].input.id] \cap unsent
            \subseteq IdsOf(lane) \cup AudioIds(ordered) \cup InHand
        BY <1>7 DEF OrderInv, At
    <2>2. ahead'[caller[c].input.id] \subseteq ahead[caller[c].input.id]
        BY <1>1, <1>7 DEF FreshInv
    <2> QED
        BY <1>3, <2>1, <2>2
<1> QED
    BY <1>2, <1>4, <1>5, <1>6, <1>7 DEF OrderInv, At, Before, IdsAt

(* Nothing is passed when everything unsent ahead is excused.              *)
LEMMA ForwardedInOrder ==
    ASSUME TypeInv, NEW x \in Input, NEW b \in BOOLEAN, Forwarded(x, b),
           overtaken = {}, x.id \in Ids,
           b => ahead[x.id] \cap unsent \subseteq AudioIds(ordered),
           ~b => ahead[x.id] \cap unsent \subseteq IdsOf(lane)
    PROVE  overtaken' = {}
<1> DEFINE passed == {y \in ahead[x.id] \cap unsent :
                        ~(b /\ \E i \in DOMAIN ordered :
                            ordered[i].id = y /\ ~IsControl(ordered[i]))
                        /\ ~(\E i \in DOMAIN lane : lane[i].id = y /\ ~b)}
<1>1. ASSUME NEW y \in ahead[x.id] \cap unsent
      PROVE  y \notin passed
    <2>1. CASE b
        <3>1. PICK i \in DOMAIN ordered : ordered[i].id = y /\ ordered[i] \in Audio
            BY <1>1, <2>1 DEF AudioIds, IdsAt, Where
        <3> QED
            BY <2>1, <3>1, KindSets DEF Audio
    <2>2. CASE ~b
        <3>1. PICK i \in DOMAIN lane : lane[i].id = y
            BY <1>1, <2>2 DEF IdsOf, IdsAt
        <3> QED
            BY <2>2, <3>1
    <2> QED
        BY <2>1, <2>2
<1>2. passed = {}
    BY <1>1
<1>3. overtaken' = overtaken \cup {<<y, x.id>> : y \in passed}
    BY DEF Forwarded
<1> QED
    BY <1>2, <1>3

LEMMA RunnerNextOrder ==
    ASSUME TypeInv, FreshInv, OrderInv, RunnerStep \/ StopSession \/ StartSession
    PROVE  OrderInv'
<1> USE DEF queues, history, counts
<1>0. /\ runner \in RunnerStates /\ runner.input \in Input
      /\ ordered \in Seq(Input) /\ lane \in Seq(Input)
      /\ UNCHANGED <<caller, begun>> /\ unsent' \subseteq unsent
      /\ \A i \in Ids : ahead'[i] \subseteq ahead[i]
      /\ 1..begun \subseteq Ids /\ overtaken = {}
    BY RunnerStepType, Bounds DEF TypeInv, RunnerStates, Ids, OrderInv
<1>1. ASSUME UNCHANGED <<ordered, lane, unsent, ahead, overtaken>>,
             runner.pc \notin {"consume", "forward"}, runner'.pc \notin {"consume", "forward"}
      PROVE  OrderInv'
    <2>1. InHand = {} /\ InHand' = {}
        BY <1>1 DEF InHand
    <2>2. Shrinks(ordered, ordered', {}) /\ Shrinks(lane, lane', {})
        BY <1>1, ShrinksNot
    <2> QED
        BY <1>0, <1>1, <2>1, <2>2, ShrinkOrder
<1>2. ASSUME ForwardPriority, UNCHANGED ordered,
             runner.pc \in {"lane", "await"}, runner'.pc \notin {"consume", "forward"}
      PROVE  OrderInv'
    <2> DEFINE h == Head(lane)
    <2>1. lane # <<>> /\ lane' = Tail(lane) /\ Forwarded(h, TRUE)
        BY <1>2 DEF ForwardPriority
    <2>2. h \in Input /\ 1 \in DOMAIN lane /\ h = lane[1] /\ InHand = {} /\ Before(lane, 1) = {}
        BY <1>0, <1>2, <2>1, TailType DEF InHand, Before, IdsAt
    <2>3. h.id \in Ids /\ ahead[h.id] \cap unsent \subseteq AudioIds(ordered)
        BY <1>0, <2>2 DEF OrderInv
    <2> HIDE DEF h
    <2>4. overtaken' = {} /\ unsent' = unsent \ {h.id}
        BY <1>0, <2>1, <2>2, <2>3, ForwardedInOrder, ForwardedType
    <2>5. Shrinks(lane, lane', {h.id}) /\ Shrinks(ordered, ordered', {})
        BY <1>0, <1>2, <2>1, ShrinksTail, ShrinksNot DEF h
    <2> QED
        BY <1>0, <1>2, <2>2, <2>4, <2>5, ShrinkOrder
<1>3. ASSUME TakeOrdered, runner.pc \in {"ordered", "await"}
      PROVE  OrderInv'
    <2> DEFINE h == Head(ordered)
    <2>1. /\ ordered # <<>> /\ ordered' = Tail(ordered)
          /\ UNCHANGED <<lane, unsent, ahead, overtaken>>
          /\ runner'.pc = "consume" /\ runner'.input = h
        BY <1>3 DEF TakeOrdered
    <2>2. h \in Input /\ 1 \in DOMAIN ordered /\ h = ordered[1] /\ InHand = {}
          /\ Before(ordered, 1) = {} /\ InHand' = {h.id}
        BY <1>0, <1>3, <2>1, TailType DEF InHand, Before, IdsAt
    <2>3. h.id \in 1..begun /\ ahead[h.id] \cap unsent \subseteq IdsOf(lane)
        BY <1>0, <2>2 DEF OrderInv
    <2>5. Shrinks(ordered, ordered', {h.id}) /\ Shrinks(lane, lane', {})
        BY <1>0, <2>1, ShrinksTail, ShrinksNot
    <2> HIDE DEF h
    <2> QED
        BY <1>0, <2>1, <2>2, <2>3, <2>5, ShrinkOrder
<1>4. CASE PendingCancels
    <2>1. CASE lane # <<>>
        <3>1. runner.pc = "lane" /\ runner'.pc = "lane" /\ UNCHANGED ordered
              /\ ForwardPriority
            BY <1>0, <1>4, <2>1 DEF PendingCancels, ForwardPriority, RunnerStates
        <3> QED
            BY <1>2, <3>1
    <2>2. CASE lane = <<>>
        <3>1. /\ runner.pc = "lane" /\ runner'.pc = "ordered"
              /\ UNCHANGED <<ordered, lane, unsent, ahead, overtaken>>
            BY <1>0, <1>4, <2>2 DEF PendingCancels, RunnerGoto, RunnerIdleStep, RunnerStates
        <3> QED
            BY <1>1, <3>1
    <2> QED
        BY <2>1, <2>2
<1>5. CASE PendingOrdered
    <2>1. CASE ordered # <<>>
        BY <1>3, <1>5, <2>1 DEF PendingOrdered
    <2>2. CASE ordered = <<>>
        <3>1. /\ runner.pc = "ordered" /\ runner'.pc \in {"lane", "await"}
              /\ UNCHANGED <<ordered, lane, unsent, ahead, overtaken>>
            BY <1>0, <1>5, <2>2 DEF PendingOrdered, RunnerIdleStep, RunnerStates
        <3> QED
            BY <1>1, <3>1
    <2> QED
        BY <2>1, <2>2
<1>6. CASE AwaitCancel
    <2>1. /\ runner.pc = "await" /\ runner'.pc = "lane" /\ ForwardPriority
          /\ UNCHANGED ordered
        BY <1>0, <1>6 DEF AwaitCancel, ForwardPriority, RunnerGoto, RunnerStates
    <2> QED
        BY <1>2, <2>1
<1>7. CASE AwaitOrdered
    BY <1>3, <1>7 DEF AwaitOrdered
<1>8. CASE Consume
    <2>1. /\ runner.pc = "consume" /\ runner'.pc = "forward" /\ runner'.input = runner.input
          /\ UNCHANGED <<ordered, lane, unsent, ahead, overtaken>>
        BY <1>0, <1>8 DEF Consume, RunnerGoto, RunnerStates
    <2>2. InHand' = InHand /\ Shrinks(ordered, ordered', {}) /\ Shrinks(lane, lane', {})
        BY <2>1, ShrinksNot DEF InHand
    <2>3. /\ runner.input.id \in 1..begun
          /\ ahead[runner.input.id] \cap unsent \subseteq IdsOf(lane)
        BY <2>1 DEF OrderInv
    <2> QED
        BY <1>0, <2>1, <2>2, <2>3, ShrinkOrder
<1>9. CASE Forward
    <2>1. /\ runner.pc = "forward" /\ runner'.pc = "lane" /\ Forwarded(runner.input, FALSE)
          /\ UNCHANGED <<ordered, lane>>
        BY <1>0, <1>9 DEF Forward, RunnerStates
    <2>2. /\ runner.input.id \in Ids
          /\ ahead[runner.input.id] \cap unsent \subseteq IdsOf(lane)
        BY <1>0, <2>1 DEF OrderInv
    <2>3. overtaken' = {} /\ unsent' = unsent \ {runner.input.id}
        BY <1>0, <2>1, <2>2, ForwardedInOrder, ForwardedType
    <2>4. InHand = {runner.input.id} /\ InHand' = {}
        BY <2>1 DEF InHand
    <2>5. Shrinks(ordered, ordered', {}) /\ Shrinks(lane, lane', {})
        BY <2>1, ShrinksNot
    <2> QED
        BY <1>0, <2>1, <2>3, <2>4, <2>5, ShrinkOrder
<1>10. CASE StopSession
    <2>1. /\ runner.pc = "await" /\ runner'.pc = "over"
          /\ UNCHANGED <<ordered, lane, unsent, ahead, overtaken>>
        BY <1>10 DEF StopSession
    <2> QED
        BY <1>1, <2>1
<1>11. CASE StartSession
    <2>1. /\ runner.pc = "over" /\ runner'.pc = "lane"
          /\ UNCHANGED <<ordered, lane, unsent, ahead, overtaken>>
        BY <1>0, <1>11 DEF StartSession, RunnerGoto, RunnerStates
    <2> QED
        BY <1>1, <2>1
<1> QED
    BY <1>4, <1>5, <1>6, <1>7, <1>8, <1>9, <1>10, <1>11 DEF RunnerStep

(* A step of one caller that leaves the queues alone.                      *)
LEMMA CallerOrder ==
    ASSUME TypeInv, FreshInv, OrderInv,
           UNCHANGED <<ordered, lane, runner, unsent, overtaken, begun>>,
           \A i \in Ids : ahead'[i] \subseteq ahead[i],
           NEW c \in Callers, NEW s, CallerBecomes(c, s),
           s.pc = "lane" => caller[c].pc = "lane" /\ s.input = caller[c].input
    PROVE  OrderInv'
<1>1. \A d \in Callers : caller'[d].pc = "lane" =>
         caller[d].pc = "lane" /\ caller'[d].input = caller[d].input
    BY CallerStep
<1>2. 1..begun \subseteq Ids
    BY Bounds DEF TypeInv, Ids
<1>3. InHand' = InHand /\ IdsOf(lane)' = IdsOf(lane) /\ IdsOf(ordered)' = IdsOf(ordered)
      /\ AudioIds(ordered)' = AudioIds(ordered)
    BY DEF InHand, IdsOf, AudioIds, IdsAt, Where
<1>4. ASSUME NEW i \in DOMAIN ordered
      PROVE  /\ ordered[i].id \in 1..begun
             /\ ahead'[ordered[i].id] \cap unsent
                  \subseteq Before(ordered, i) \cup IdsOf(lane) \cup InHand
    BY <1>2 DEF OrderInv
<1>5. ASSUME NEW i \in DOMAIN lane
      PROVE  /\ lane[i].id \in 1..begun
             /\ ahead'[lane[i].id] \cap unsent
                  \subseteq Before(lane, i) \cup AudioIds(ordered) \cup InHand
    BY <1>2 DEF OrderInv
<1>6. ASSUME NEW d \in Callers, caller'[d].pc = "lane"
      PROVE  ahead'[caller'[d].input.id] \cap unsent
               \subseteq IdsOf(lane) \cup AudioIds(ordered) \cup InHand
    <2>1. caller[d].pc = "lane" /\ caller'[d].input = caller[d].input
        BY <1>1, <1>6
    <2>2. caller[d].input.id \in Ids
        BY <1>2, <2>1 DEF FreshInv
    <2> QED
        BY <2>1, <2>2 DEF OrderInv, At
<1>7. runner.pc \in {"consume", "forward"} =>
          /\ runner.input.id \in 1..begun
          /\ ahead'[runner.input.id] \cap unsent \subseteq IdsOf(lane)
    BY <1>2 DEF OrderInv
<1>8. overtaken = {} /\ unsent \subseteq IdsOf(ordered) \cup IdsOf(lane) \cup InHand
    BY DEF OrderInv
<1> QED
    BY <1>3, <1>4, <1>5, <1>6, <1>7, <1>8 DEF OrderInv, At, Before, IdsAt

(* The ids that an admission adds are ahead of nothing.                    *)
LEMMA NewcomerAheadOfNone ==
    ASSUME TypeInv, FreshInv, NEW c \in Callers, caller[c].pc # "idle"
    PROVE  /\ caller[c].input.id \in 1..begun
           /\ \A i \in Ids : ahead[i] \cap (unsent \cup {caller[c].input.id})
                               = ahead[i] \cap unsent
BY DEF FreshInv

LEMMA SendOrderedOrder ==
    ASSUME TypeInv, FreshInv, OrderInv, NEW c \in Callers, SendOrdered(c)
    PROVE  OrderInv'
<1> DEFINE e == caller[c].input
<1>0. /\ ordered \in Seq(Input) /\ e \in Input /\ 1..begun \subseteq Ids
      /\ \A d \in Callers \ {c} : caller'[d] = caller[d]
      /\ caller'[c].pc = "idle"
    <2>1. CallerBecomes(c, Idle)
        BY IdleStep DEF SendOrdered, Admitted
    <2> QED
        BY <2>1, CallerStep, CallerFields, IdleType, Bounds DEF TypeInv, Ids
<1>1. /\ ordered' = Append(ordered, e) /\ unsent' = unsent \cup {e.id}
      /\ UNCHANGED <<lane, runner, ahead, overtaken, begun>> /\ caller[c].pc # "idle"
    BY DEF SendOrdered, Admitted, At
<1>2. /\ e.id \in 1..begun
      /\ \A i \in Ids : ahead[i] \cap unsent' = ahead[i] \cap unsent
    BY <1>1, NewcomerAheadOfNone
<1> HIDE DEF e
<1>3. InHand' = InHand /\ IdsOf(lane)' = IdsOf(lane)
      /\ IdsOf(ordered)' = IdsOf(ordered') /\ AudioIds(ordered)' = AudioIds(ordered')
    BY <1>1 DEF InHand, IdsOf, AudioIds, IdsAt, Where
<1>4. /\ IdsOf(ordered') = IdsOf(ordered) \cup {e.id}
      /\ AudioIds(ordered) \subseteq AudioIds(ordered')
      /\ \A i \in DOMAIN ordered : /\ ordered'[i] = ordered[i]
                                   /\ Before(ordered', i) = Before(ordered, i)
      /\ DOMAIN ordered' = DOMAIN ordered \cup {Len(ordered) + 1}
      /\ ordered'[Len(ordered) + 1] = e
      /\ Before(ordered', Len(ordered) + 1) = IdsOf(ordered)
    BY <1>0, <1>1, Grows
<1>5. overtaken = {} /\ unsent \subseteq IdsOf(ordered) \cup IdsOf(lane) \cup InHand
    BY DEF OrderInv
<1>6. ASSUME NEW i \in DOMAIN ordered'
      PROVE  /\ ordered'[i].id \in 1..begun
             /\ ahead[ordered'[i].id] \cap unsent'
                  \subseteq Before(ordered', i) \cup IdsOf(lane) \cup InHand
    <2>1. CASE i \in DOMAIN ordered
        BY <1>0, <1>2, <1>4, <2>1 DEF OrderInv
    <2>2. CASE i = Len(ordered) + 1
        <3>1. ahead[e.id] \cap unsent' \subseteq unsent
            BY <1>0, <1>2
        <3> QED
            BY <1>2, <1>4, <1>5, <2>2, <3>1
    <2> QED
        BY <1>4, <2>1, <2>2
<1>7. ASSUME NEW i \in DOMAIN lane
      PROVE  /\ lane[i].id \in 1..begun
             /\ ahead[lane[i].id] \cap unsent'
                  \subseteq Before(lane, i) \cup AudioIds(ordered') \cup InHand
    BY <1>0, <1>2, <1>4 DEF OrderInv
<1>8. ASSUME NEW d \in Callers, caller'[d].pc = "lane"
      PROVE  ahead[caller'[d].input.id] \cap unsent'
               \subseteq IdsOf(lane) \cup AudioIds(ordered') \cup InHand
    <2>1. caller'[d] = caller[d] /\ caller[d].pc = "lane"
        BY <1>0, <1>8
    <2>2. caller[d].input.id \in Ids
        BY <1>0, <2>1 DEF FreshInv
    <2> QED
        BY <1>2, <1>4, <2>1, <2>2 DEF OrderInv, At
<1>9. runner.pc \in {"consume", "forward"} =>
          /\ runner.input.id \in 1..begun
          /\ ahead[runner.input.id] \cap unsent' \subseteq IdsOf(lane)
    BY <1>0, <1>2 DEF OrderInv
<1>10. unsent' \subseteq IdsOf(ordered') \cup IdsOf(lane) \cup InHand
    BY <1>1, <1>4, <1>5
<1> QED
    BY <1>1, <1>3, <1>5, <1>6, <1>7, <1>8, <1>9, <1>10 DEF OrderInv, At, Before, IdsAt

LEMMA SendPriorityOrder ==
    ASSUME TypeInv, FreshInv, OrderInv, NEW c \in Callers, SendPriority(c), Admitted(c),
           lane' = Append(lane, caller[c].input)
    PROVE  OrderInv'
<1> DEFINE e == caller[c].input
<1>0. /\ lane \in Seq(Input) /\ e \in Input /\ 1..begun \subseteq Ids
      /\ \A d \in Callers \ {c} : caller'[d] = caller[d]
      /\ caller'[c].pc = "idle"
    <2>1. CallerBecomes(c, Idle)
        BY IdleStep DEF Admitted
    <2> QED
        BY <2>1, CallerStep, CallerFields, IdleType, Bounds DEF TypeInv, Ids
<1>1. /\ lane' = Append(lane, e) /\ unsent' = unsent \cup {e.id}
      /\ UNCHANGED <<ordered, runner, ahead, overtaken, begun>> /\ caller[c].pc = "lane"
    BY DEF SendPriority, Admitted, At
<1>2. /\ e.id \in 1..begun
      /\ \A i \in Ids : ahead[i] \cap unsent' = ahead[i] \cap unsent
      /\ ahead[e.id] \cap unsent \subseteq IdsOf(lane) \cup AudioIds(ordered) \cup InHand
    BY <1>1, NewcomerAheadOfNone DEF OrderInv, At
<1> HIDE DEF e
<1>3. InHand' = InHand /\ IdsOf(lane)' = IdsOf(lane')
      /\ IdsOf(ordered)' = IdsOf(ordered) /\ AudioIds(ordered)' = AudioIds(ordered)
    BY <1>1 DEF InHand, IdsOf, AudioIds, IdsAt, Where
<1>4. /\ IdsOf(lane') = IdsOf(lane) \cup {e.id}
      /\ \A i \in DOMAIN lane : /\ lane'[i] = lane[i]
                                /\ Before(lane', i) = Before(lane, i)
      /\ DOMAIN lane' = DOMAIN lane \cup {Len(lane) + 1}
      /\ lane'[Len(lane) + 1] = e
      /\ Before(lane', Len(lane) + 1) = IdsOf(lane)
    BY <1>0, <1>1, Grows
<1>5. overtaken = {} /\ unsent \subseteq IdsOf(ordered) \cup IdsOf(lane) \cup InHand
    BY DEF OrderInv
<1>6. ASSUME NEW i \in DOMAIN ordered
      PROVE  /\ ordered[i].id \in 1..begun
             /\ ahead[ordered[i].id] \cap unsent'
                  \subseteq Before(ordered, i) \cup IdsOf(lane') \cup InHand
    BY <1>0, <1>2, <1>4 DEF OrderInv
<1>7. ASSUME NEW i \in DOMAIN lane'
      PROVE  /\ lane'[i].id \in 1..begun
             /\ ahead[lane'[i].id] \cap unsent'
                  \subseteq Before(lane', i) \cup AudioIds(ordered) \cup InHand
    <2>1. CASE i \in DOMAIN lane
        BY <1>0, <1>2, <1>4, <2>1 DEF OrderInv
    <2>2. CASE i = Len(lane) + 1
        BY <1>0, <1>2, <1>4, <2>2
    <2> QED
        BY <1>4, <2>1, <2>2
<1>8. ASSUME NEW d \in Callers, caller'[d].pc = "lane"
      PROVE  ahead[caller'[d].input.id] \cap unsent'
               \subseteq IdsOf(lane') \cup AudioIds(ordered) \cup InHand
    <2>1. caller'[d] = caller[d] /\ caller[d].pc = "lane"
        BY <1>0, <1>8
    <2>2. caller[d].input.id \in Ids
        BY <1>0, <2>1 DEF FreshInv
    <2> QED
        BY <1>2, <1>4, <2>1, <2>2 DEF OrderInv, At
<1>9. runner.pc \in {"consume", "forward"} =>
          /\ runner.input.id \in 1..begun
          /\ ahead[runner.input.id] \cap unsent' \subseteq IdsOf(lane')
    BY <1>0, <1>2, <1>4 DEF OrderInv
<1>10. unsent' \subseteq IdsOf(ordered) \cup IdsOf(lane') \cup InHand
    BY <1>1, <1>4, <1>5
<1> QED
    BY <1>1, <1>3, <1>5, <1>6, <1>7, <1>8, <1>9, <1>10 DEF OrderInv, At, Before, IdsAt

(* What is ahead of a new admission is all that is unsent, and a cancel    *)
(* takes the lane only when no control is queued.                          *)
LEMMA BeginOrder ==
    ASSUME TypeInv, FreshInv, CountInv, OrderInv, NEW c \in Callers, Begin(c)
    PROVE  OrderInv'
<1>1. PICK s : /\ CallerBecomes(c, s)
               /\ s.pc = "lane" => queuedControls = 0
               /\ s.input.id = begun + 1 /\ begun + 1 \in 1..MaxInputs
    BY BeginStep
<1>2. /\ caller'[c] = s
      /\ \A d \in Callers \ {c} : caller'[d] = caller[d]
    BY <1>1, CallerStep
<1>3. /\ begun' = begun + 1 /\ ahead' = [ahead EXCEPT ![begun + 1] = unsent]
      /\ UNCHANGED <<ordered, lane, runner, unsent, overtaken>>
    BY DEF Begin, queues
<1>4. /\ \A i \in 1..begun : ahead'[i] = ahead[i]
      /\ ahead'[begun + 1] = unsent /\ 1..begun \subseteq 1..begun'
    BY <1>1, <1>3, Bounds DEF TypeInv, Ids
<1>5. InHand' = InHand /\ IdsOf(lane)' = IdsOf(lane) /\ IdsOf(ordered)' = IdsOf(ordered)
      /\ AudioIds(ordered)' = AudioIds(ordered)
    BY <1>3 DEF InHand, IdsOf, AudioIds, IdsAt, Where
<1>6. overtaken = {} /\ unsent \subseteq IdsOf(ordered) \cup IdsOf(lane) \cup InHand
    BY DEF OrderInv
<1>7. queuedControls = 0 => IdsOf(ordered) \subseteq AudioIds(ordered)
    <2> SUFFICES ASSUME queuedControls = 0, NEW i \in DOMAIN ordered
                 PROVE  i \in Where(ordered, Audio)
        BY DEF IdsOf, AudioIds, IdsAt
    <2>1. i \notin Where(ordered, Controls)
        BY PositiveCounts
    <2>2. ordered[i] \in Input
        BY ElementOfSeq, LenProperties DEF TypeInv
    <2> QED
        BY <2>1, <2>2 DEF Where, Audio
<1>8. ASSUME NEW d \in Callers, caller'[d].pc = "lane"
      PROVE  ahead'[caller'[d].input.id] \cap unsent
               \subseteq IdsOf(lane) \cup AudioIds(ordered) \cup InHand
    <2>1. CASE d = c
        BY <1>1, <1>2, <1>4, <1>6, <1>7, <1>8, <2>1
    <2>2. CASE d # c
        <3>1. caller'[d] = caller[d] /\ caller[d].pc = "lane" /\ caller[d].input.id \in 1..begun
            BY <1>2, <1>8, <2>2 DEF FreshInv
        <3> QED
            BY <1>4, <3>1 DEF OrderInv, At
    <2> QED
        BY <2>1, <2>2
<1>9. ASSUME NEW i \in DOMAIN ordered
      PROVE  /\ ordered[i].id \in 1..begun'
             /\ ahead'[ordered[i].id] \cap unsent
                  \subseteq Before(ordered, i) \cup IdsOf(lane) \cup InHand
    BY <1>4 DEF OrderInv
<1>10. ASSUME NEW i \in DOMAIN lane
       PROVE  /\ lane[i].id \in 1..begun'
              /\ ahead'[lane[i].id] \cap unsent
                   \subseteq Before(lane, i) \cup AudioIds(ordered) \cup InHand
    BY <1>4 DEF OrderInv
<1>11. runner.pc \in {"consume", "forward"} =>
          /\ runner.input.id \in 1..begun'
          /\ ahead'[runner.input.id] \cap unsent \subseteq IdsOf(lane)
    BY <1>4 DEF OrderInv
<1> QED
    BY <1>3, <1>5, <1>6, <1>8, <1>9, <1>10, <1>11 DEF OrderInv, At, Before, IdsAt

LEMMA NextOrder ==
    ASSUME TypeInv, FreshInv, CountInv, OrderInv, [Next]_vars
    PROVE  OrderInv'
<1> USE DEF queues, history, counts
<1>1. CASE UNCHANGED vars
    <2>1. /\ UNCHANGED <<caller, ordered, lane, runner, begun, unsent, ahead, overtaken>>
        BY <1>1 DEF vars
    <2> QED
        BY <2>1 DEF OrderInv, At, InHand, IdsOf, AudioIds, Before, IdsAt, Where
<1>2. CASE RunnerStep \/ StopSession \/ StartSession
    BY <1>2, RunnerNextOrder
<1>3. ASSUME NEW c \in Callers, CancelContext(c)
      PROVE  OrderInv'
    BY <1>3, CancelStep, CallerOrder DEF CancelContext
<1>4. ASSUME NEW c \in Callers, Lock(c)
      PROVE  OrderInv'
    <2>1. PICK s : CallerBecomes(c, s) /\ s.pc \in {"uncount", "send"}
        BY <1>4, LockStep
    <2> QED
        BY <1>4, <2>1, CallerOrder DEF Lock
<1>5. ASSUME NEW c \in Callers, NEW pc \in {"count", "lock", "uncount"}, Goto(c, pc),
             UNCHANGED <<ordered, lane, runner, unsent, ahead, overtaken, begun>>
      PROVE  OrderInv'
    <2>1. CallerBecomes(c, [caller[c] EXCEPT !.pc = pc])
          /\ [caller[c] EXCEPT !.pc = pc].pc = pc
        BY <1>5, GotoBecomes, CallerFields
    <2> QED
        BY <1>5, <2>1, CallerOrder
<1>6. ASSUME NEW c \in Callers, SendPriority(c)
      PROVE  OrderInv'
    BY <1>5, <1>6, SendPriorityOrder DEF SendPriority
<1>7. ASSUME NEW c \in Callers, CountControl(c) \/ GiveUp(c)
      PROVE  OrderInv'
    BY <1>5, <1>7 DEF CountControl, GiveUp
<1>8. ASSUME NEW c \in Callers, Uncount(c)
      PROVE  OrderInv'
    <2>1. \A i \in Ids : ahead'[i] \subseteq ahead[i]
        BY <1>8 DEF Uncount, TypeInv
    <2> QED
        BY <1>8, <2>1, IdleStep, IdleType, CallerOrder DEF Uncount
<1> QED
    BY <1>1, <1>2, <1>3, <1>4, <1>6, <1>7, <1>8, BeginOrder, SendOrderedOrder
       DEF Next, Admit

(* Whatever the callers, the lane and the session goroutine do, and        *)
(* through any restart, no input reaches the provider before one that was  *)
(* admitted before its admission began, but for a cancel passing audio.    *)
THEOREM InAdmissionOrder == Spec => []AdmissionOrder
<1>1. Init => OrderInv
    <2> SUFFICES ASSUME Init PROVE OrderInv
        OBVIOUS
    <2>1. /\ DOMAIN ordered = {} /\ DOMAIN lane = {} /\ overtaken = {} /\ unsent = {}
          /\ runner.pc = "lane" /\ \A c \in Callers : caller[c].pc = "idle"
        BY IdleType DEF Init
    <2> QED
        BY <2>1 DEF OrderInv, At
<1>2. OrderInv => AdmissionOrder
    BY DEF OrderInv, AdmissionOrder
<1> QED
    BY InitType, InitFresh, InitCount, NextType, NextFresh, NextCount, NextOrder,
       <1>1, <1>2, PTL DEF Spec
=============================================================================
