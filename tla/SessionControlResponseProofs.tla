-------------------- MODULE SessionControlResponseProofs --------------------
(***************************************************************************)
(* What becomes of a response in SessionControl: the provider's messages   *)
(* in their order, the ledger of cancelled responses, and what is left     *)
(* once the provider falls silent.                                         *)
(***************************************************************************)
EXTENDS SessionControlProofs

-----------------------------------------------------------------------------
(* The order of the provider's messages                                    *)

(* What holds of a message m ahead of a message k; named tells whether the *)
(* provider names its responses.  Starts come in the order of the          *)
(* responses, output never before a start of its response, late output     *)
(* from the last Retention responses only, and a rejection while the last  *)
(* response that started plays.                                            *)
Before(named, m, k) ==
    /\ m.t = "start" /\ k.t \in {"start", "reject"} => m.r <= k.r
    /\ m.t \in {"delta", "end"} /\ k.t = "start" => m.r < k.r
    /\ m.t = "end" /\ k.t = "reject" => m.r < k.r
    /\ m.t = "start" /\ k.t \in {"delta", "end"} => m.r < k.r + Retention
    /\ ~named /\ m.t = "start" /\ k.t # "close" => m.r <= k.r
    /\ ~named /\ m.t = "end" /\ k.t # "close" => m.r < k.r

Orderly(named, q) == \A i, j \in 1..Len(q) : i < j => Before(named, q[i], q[j])

LEMMA OrderlyAppend ==
    ASSUME NEW named, NEW q \in Seq(Message), NEW k \in Message, Orderly(named, q),
           \A m \in Elems(q) : Before(named, m, k)
    PROVE  Append(q, k) \in Seq(Message) /\ Orderly(named, Append(q, k))
<1> DEFINE p == Append(q, k)
<1>1. /\ p \in Seq(Message) /\ Len(p) = Len(q) + 1 /\ Len(q) \in Nat
      /\ (\A i \in 1..Len(q) : p[i] = q[i]) /\ p[Len(q) + 1] = k
    BY AppendType
<1>2. \A i \in 1..Len(q) : q[i] \in Elems(q)
    BY ElemsType
<1> HIDE DEF p
<1>3. ASSUME NEW i \in 1..Len(p), NEW j \in 1..Len(p), i < j
      PROVE  Before(named, p[i], p[j])
    <2>1. i \in 1..Len(q) /\ p[i] = q[i]
        BY <1>1, <1>3
    <2>2. CASE j \in 1..Len(q)
        <3>1. p[j] = q[j]
            BY <1>1, <2>2
        <3> QED
            BY <1>3, <2>1, <2>2, <3>1 DEF Orderly
    <2>3. CASE j = Len(q) + 1
        <3>1. p[j] = k
            BY <1>1, <2>3
        <3> QED
            BY <1>2, <2>1, <3>1
    <2> QED
        BY <1>1, <2>2, <2>3
<1> QED
    BY <1>1, <1>3 DEF Orderly, p

LEMMA OrderlyTail ==
    ASSUME NEW named, NEW q \in Seq(Message), q # <<>>, Orderly(named, q)
    PROVE  /\ Tail(q) \in Seq(Message) /\ Orderly(named, Tail(q))
           /\ Head(q) \in Elems(q) /\ Elems(q) = {Head(q)} \cup Elems(Tail(q))
           /\ \A m \in Elems(Tail(q)) : Before(named, Head(q), m)
<1> DEFINE p == Tail(q)
<1>1. /\ p \in Seq(Message) /\ Len(q) \in Nat /\ Len(q) > 0 /\ Len(p) = Len(q) - 1
      /\ (\A i \in 1..Len(p) : p[i] = q[i + 1]) /\ Head(q) = q[1]
      /\ DOMAIN p = 1..Len(p)
    BY TailType
<1>2. Head(q) \in Elems(q) /\ Elems(q) = {Head(q)} \cup Elems(p)
    BY ElemsTail
<1> HIDE DEF p
<1>3. ASSUME NEW i \in 1..Len(p), NEW j \in 1..Len(p), i < j
      PROVE  Before(named, p[i], p[j])
    <2>1. /\ p[i] = q[i + 1] /\ p[j] = q[j + 1] /\ i + 1 < j + 1
          /\ i + 1 \in 1..Len(q) /\ j + 1 \in 1..Len(q)
        BY <1>1, <1>3
    <2> QED
        BY <2>1 DEF Orderly
<1>4. ASSUME NEW m \in Elems(p) PROVE Before(named, Head(q), m)
    <2>1. PICK i \in 1..Len(p) : m = p[i]
        BY <1>1 DEF Elems
    <2>2. 1 \in 1..Len(q) /\ i + 1 \in 1..Len(q) /\ 1 < i + 1 /\ m = q[i + 1]
        BY <1>1, <2>1
    <2> QED
        BY <1>1, <2>2 DEF Orderly
<1> QED
    BY <1>1, <1>2, <1>3, <1>4 DEF Orderly, p

(* What the provider has sent is behind what it plays.                     *)
Sent(m) ==
    /\ m.t # "close" => m.r \in 0..Len(origin)
    /\ m.t = "end" => m.r # prov.active
    /\ m.t = "delta" /\ prov.fresh => m.r # prov.active

StreamInv ==
    /\ Orderly(scenario.tagged, receive)
    /\ \A m \in Elems(receive) : Before(scenario.tagged, Msg("start", st.r), m) /\ Sent(m)
    /\ prov.old # 0 => Len(origin) < prov.old + Retention

(* What it may send next.                                                  *)
SaysNext(k) ==
    \/ k.t = "close"
    \/ k.t = "start" /\ (k.r = Next1 \/ (prov.fresh /\ k.r = prov.active))
    \/ k.t \in {"delta", "end", "reject"} /\ prov.active # 0 /\ k.r = prov.active
    \/ k.t \in {"delta", "end"} /\ prov.old # 0 /\ k.r = prov.old

LEMMA SentBefore ==
    ASSUME TypeInv, StreamInv, NEW m, Sent(m), NEW k, SaysNext(k)
    PROVE  Before(scenario.tagged, m, k)
<1>1. /\ Len(origin) \in Nat /\ prov.active \in {0, Len(origin)} /\ prov.old \in 0..Len(origin)
      /\ (prov.fresh => prov.active # 0) /\ (prov.old # 0 => scenario.tagged)
      /\ Retention \in Nat /\ Retention > 1
    BY SessionAssumption DEF TypeInv, ProviderTypes
<1>2. prov.old # 0 => Len(origin) < prov.old + Retention
    BY DEF StreamInv
<1>3. CASE k.t = "close"
    BY <1>3 DEF Before
<1>4. CASE k.t = "start" /\ k.r = Next1
    BY <1>1, <1>4 DEF Before, Sent, Next1
<1>5. CASE k.t = "start" /\ prov.fresh /\ k.r = prov.active
    BY <1>1, <1>5 DEF Before, Sent
<1>6. CASE k.t \in {"delta", "end", "reject"} /\ prov.active # 0 /\ k.r = prov.active
    BY <1>1, <1>6 DEF Before, Sent
<1>7. CASE k.t \in {"delta", "end"} /\ prov.old # 0 /\ k.r = prov.old
    BY <1>1, <1>2, <1>7 DEF Before, Sent
<1> QED
    BY <1>3, <1>4, <1>5, <1>6, <1>7 DEF SaysNext

(* One more message, behind what was sent.                                 *)
LEMMA StreamAppend ==
    ASSUME TypeInv, StreamInv, NEW k \in Message, SaysNext(k)
    PROVE  /\ Append(receive, k) \in Seq(Message)
           /\ Orderly(scenario.tagged, Append(receive, k))
           /\ Before(scenario.tagged, Msg("start", st.r), k)
           /\ Elems(Append(receive, k)) = Elems(receive) \cup {k}
<1>1. receive \in Seq(Message) /\ st.r \in 0..Len(origin)
    BY RunnerFacts DEF TypeInv, ProviderTypes
<1>2. \A m \in Elems(receive) : Before(scenario.tagged, m, k)
    BY SentBefore DEF StreamInv
<1>3. Sent(Msg("start", st.r))
    BY <1>1 DEF Sent, Msg
<1>4. Orderly(scenario.tagged, receive)
    BY DEF StreamInv
<1> QED
    BY <1>1, <1>2, <1>3, <1>4, SentBefore, OrderlyAppend, ElemsAppend

-----------------------------------------------------------------------------
(* The provider's steps by what they send                                  *)

KeepsPlaying == prov'.active = prov.active /\ prov'.old = prov.old /\ prov'.fresh = prov.fresh

SaysNothing ==
    /\ receive' = receive /\ origin' = origin
    /\ prov'.active = prov.active /\ prov'.fresh = prov.fresh /\ prov'.old \in {prov.old, 0}
SaysMore(k) ==
    /\ receive' = Append(receive, k) /\ origin' = origin /\ k \in Message
    /\ \/ /\ k.t \in {"start", "delta"} /\ k.r = prov.active /\ prov.fresh
          /\ prov'.active = prov.active /\ ~prov'.fresh /\ prov'.old = prov.old
       \/ k.t = "reject" /\ k.r = prov.active /\ prov.active # 0 /\ KeepsPlaying
       \/ k.t = "close" /\ KeepsPlaying
       \/ /\ k.t = "end" /\ k.r = prov.active /\ prov.active # 0
          /\ prov'.active = 0 /\ ~prov'.fresh /\ prov'.old = prov.old
OpensNext ==
    /\ Len(origin') = Next1 /\ prov'.active = Next1 /\ prov'.fresh
    /\ \A i \in 1..Len(origin) : origin'[i] = origin[i]
    /\ Next1 <= MaxResponses
    /\ prov.old = 0 \/ prov.old + Retention > Next1
SaysStart ==
    /\ OpensNext /\ receive' = Append(receive, Msg("start", Next1))
    /\ \/ prov.active = 0 /\ prov'.old \in {prov.old, 0}
       \/ scenario.tagged /\ prov.old = 0 /\ prov'.old = prov.active
SaysEndStart ==
    /\ OpensNext /\ prov.active # 0 /\ prov'.old = prov.old
    /\ receive' = Append(Append(receive, Msg("end", prov.active)), Msg("start", Next1))
SaysLate ==
    /\ prov.old # 0 /\ prov'.old = 0 /\ origin' = origin
    /\ prov'.active = prov.active /\ prov'.fresh = prov.fresh
    /\ receive' = Append(Append(receive, Msg("delta", prov.old)), Msg("end", prov.old))

LEMMA OpensForm ==
    ASSUME TypeInv, NEW why \in Request \cup {"vad"}
    PROVE  /\ Opens(why, <<>>) => receive' = Append(receive, Msg("start", Next1))
           /\ prov.active # 0 /\ Opens(why, <<Msg("end", prov.active)>>) =>
                receive' = Append(Append(receive, Msg("end", prov.active)), Msg("start", Next1))
           /\ \A q : Opens(why, q) =>
                /\ Len(origin') = Next1 /\ Next1 <= MaxResponses
                /\ \A i \in 1..Len(origin) : origin'[i] = origin[i]
                /\ prov.old = 0 \/ prov.old + Retention > Next1
<1>1. /\ receive \in Seq(Message) /\ origin \in Seq(Request \cup {"vad"})
      /\ Len(origin) \in Nat /\ MaxResponses \in Nat
    BY SessionAssumption DEF TypeInv, ProviderTypes
<1> DEFINE s == Msg("start", Next1)
           e == Msg("end", prov.active)
           none == <<>>
<1>2. s \in Message /\ none \in Seq(Message)
    BY <1>1, MsgTypes DEF Next1
<1>3. prov.active # 0 => e \in Message
    BY EndMsg
<1>4. /\ \A q : Opens(why, q) => receive' = (receive \o q) \o <<s>>
      /\ \A q : Opens(why, q) =>
                /\ origin' = Append(origin, why) /\ Len(origin) < MaxResponses
                /\ prov.old = 0 \/ prov.old + Retention > Next1
    BY DEF Opens, Next1
<1> HIDE DEF s, e
<1>5. \A q \in Seq(Message) : q \o <<s>> = Append(q, s) /\ Append(q, s) \in Seq(Message)
    BY <1>2, AppendType, AppendIsConcat
<1>6. Opens(why, none) => receive' = Append(receive, s)
    <2>1. receive \o none = receive
        BY <1>1, ConcatSimplifications
    <2> QED
        BY <1>1, <1>4, <1>5, <2>1
<1>7. ASSUME prov.active # 0, Opens(why, <<e>>)
      PROVE  receive' = Append(Append(receive, e), s)
    <2>1. receive \o <<e>> = Append(receive, e) /\ Append(receive, e) \in Seq(Message)
        BY <1>1, <1>3, <1>7, AppendType, AppendIsConcat
    <2> DEFINE u == Append(receive, e)
    <2>2. receive' = u \o <<s>> /\ u \in Seq(Message)
        BY <1>4, <1>7, <2>1
    <2> HIDE DEF u
    <2>3. receive' = Append(u, s)
        BY <1>5, <2>2
    <2> QED
        BY <2>3 DEF u
<1>8. \A q : Opens(why, q) =>
                /\ Len(origin') = Next1 /\ Next1 <= MaxResponses
                /\ \A i \in 1..Len(origin) : origin'[i] = origin[i]
                /\ prov.old = 0 \/ prov.old + Retention > Next1
    <2>1. /\ Len(Append(origin, why)) = Len(origin) + 1
          /\ \A i \in 1..Len(origin) : Append(origin, why)[i] = origin[i]
        BY <1>1, AppendType
    <2> SUFFICES ASSUME NEW q, Opens(why, q)
                 PROVE  /\ Len(origin') = Next1 /\ Next1 <= MaxResponses
                        /\ \A i \in 1..Len(origin) : origin'[i] = origin[i]
                        /\ prov.old = 0 \/ prov.old + Retention > Next1
        OBVIOUS
    <2>2. /\ origin' = Append(origin, why) /\ Len(origin) < MaxResponses
          /\ prov.old = 0 \/ prov.old + Retention > Next1
        BY <1>4
    <2> QED
        BY <1>1, <2>1, <2>2 DEF Next1
<1> QED
    BY <1>6, <1>7, <1>8 DEF s, e

LEMMA ProviderForms ==
    ASSUME TypeInv, Provider
    PROVE  \/ SaysNothing \/ SaysStart \/ SaysEndStart \/ SaysLate
           \/ \E k \in Message : SaysMore(k)
<1>1. /\ prov \in [active : Nat, old : Nat, retry : Seq(Request), fresh : BOOLEAN]
      /\ (prov.fresh => prov.active # 0) /\ prov.active \in Nat /\ prov.old \in Nat
      /\ Len(origin) \in Nat
    BY DEF TypeInv, ProviderTypes
<1>2. Speaks \/ StreamsFresh \/ StreamsLate \/ EndsResponse
      \/ TakesCancel \/ TakesRequest \/ TakesSecond \/ Closes
    BY ProviderCases
<1>3. CASE Speaks
    <2>1. /\ Opens("vad", <<>>) /\ (prov.active = 0 \/ (scenario.tagged /\ prov.old = 0))
          /\ prov'.active = Next1 /\ prov'.fresh /\ prov'.old = prov.active
        BY <1>1, <1>3 DEF Speaks, Next1
    <2>2. OpensNext /\ receive' = Append(receive, Msg("start", Next1))
        BY <2>1, OpensForm DEF OpensNext
    <2>3. SaysStart
        BY <2>1, <2>2 DEF SaysStart
    <2> QED
        BY <2>3
<1>4. CASE StreamsFresh
    <2>1. PICK t \in {"start", "delta"} : receive' = Append(receive, Msg(t, prov.active))
        BY <1>4 DEF StreamsFresh
    <2>2. Msg(t, prov.active) \in Message /\ Msg(t, prov.active).t = t
          /\ Msg(t, prov.active).r = prov.active
        BY <1>1, MsgTypes
    <2>3. /\ prov.fresh /\ origin' = origin /\ prov'.active = prov.active
          /\ ~prov'.fresh /\ prov'.old = prov.old
        BY <1>1, <1>4 DEF StreamsFresh
    <2>4. SaysMore(Msg(t, prov.active))
        BY <2>1, <2>2, <2>3 DEF SaysMore
    <2> QED
        BY <2>2, <2>4
<1>5. CASE StreamsLate
    <2>1. /\ prov.old # 0 /\ origin' = origin /\ prov'.active = prov.active
          /\ prov'.fresh = prov.fresh /\ prov'.old = 0
          /\ receive' \in {receive \o <<Msg("delta", prov.old), Msg("end", prov.old)>>, receive}
        BY <1>1, <1>5 DEF StreamsLate
    <2>2. SaysNothing \/ SaysLate
        BY <2>1, LateMsgs DEF SaysNothing, SaysLate
    <2> QED
        BY <2>2
<1>6. CASE EndsResponse
    <2>1. prov.active # 0 /\ (EndsPlain \/ EndsAgain)
        BY <1>6, EndsCases DEF EndsResponse
    <2>2. CASE EndsPlain
        <3>1. /\ receive' = Append(receive, Msg("end", prov.active)) /\ origin' = origin
              /\ prov'.active = 0 /\ ~prov'.fresh /\ prov'.old = prov.old
            BY <1>1, <2>2 DEF EndsPlain
        <3>2. /\ Msg("end", prov.active) \in Message /\ Msg("end", prov.active).t = "end"
              /\ Msg("end", prov.active).r = prov.active
            BY <1>1, MsgTypes
        <3>3. SaysMore(Msg("end", prov.active))
            BY <2>1, <3>1, <3>2 DEF SaysMore
        <3> QED
            BY <3>2, <3>3
    <2>3. CASE EndsAgain
        <3>1. /\ Head(prov.retry) \in Request
              /\ Opens(Head(prov.retry), <<Msg("end", prov.active)>>)
              /\ prov'.active = Next1 /\ prov'.fresh /\ prov'.old = prov.old
            BY <1>1, <2>3 DEF EndsAgain, Next1
        <3>2. SaysEndStart
            BY <2>1, <3>1, OpensForm DEF SaysEndStart, OpensNext
        <3> QED
            BY <3>2
    <2> QED
        BY <2>1, <2>2, <2>3
<1>7. CASE TakesCancel
    BY <1>7 DEF TakesCancel, SaysNothing
<1>8. CASE TakesRequest
    <2>1. /\ Head(wire).t \in Request /\ Opens(Head(wire).t, <<>>) /\ prov.active = 0
          /\ prov'.active = Next1 /\ prov'.fresh /\ prov'.old = prov.old
        BY <1>1, <1>8 DEF TakesRequest, Next1
    <2>2. SaysStart
        BY <2>1, OpensForm DEF SaysStart, OpensNext
    <2> QED
        BY <2>2
<1>9. CASE TakesSecond
    <2>1. /\ receive' = Append(receive, Msg("reject", prov.active)) /\ origin' = origin
          /\ prov.active # 0 /\ KeepsPlaying
        BY <1>1, <1>9 DEF TakesSecond, KeepsPlaying
    <2>2. /\ Msg("reject", prov.active) \in Message /\ Msg("reject", prov.active).t = "reject"
          /\ Msg("reject", prov.active).r = prov.active
        BY <1>1, MsgTypes
    <2>3. SaysMore(Msg("reject", prov.active))
        BY <2>1, <2>2 DEF SaysMore
    <2> QED
        BY <2>2, <2>3
<1>10. CASE Closes
    <2>1. /\ receive' = Append(receive, Msg("close", 0)) /\ origin' = origin /\ KeepsPlaying
        BY <1>10 DEF Closes, KeepsPlaying
    <2>2. Msg("close", 0) \in Message /\ Msg("close", 0).t = "close"
        BY MsgTypes
    <2>3. SaysMore(Msg("close", 0))
        BY <2>1, <2>2 DEF SaysMore
    <2> QED
        BY <2>2, <2>3
<1> QED
    BY <1>2, <1>3, <1>4, <1>5, <1>6, <1>7, <1>8, <1>9, <1>10

(* The messages are in order whatever the provider says next.              *)
LEMMA StreamProvider ==
    ASSUME TypeInv, StreamInv, Provider
    PROVE  StreamInv'
<1>1. /\ receive \in Seq(Message) /\ Len(origin) \in Nat /\ prov.active \in {0, Len(origin)}
      /\ prov.old \in 0..Len(origin) /\ (prov.fresh => prov.active # 0)
      /\ (prov.old # 0 => prov.old # prov.active)
      /\ (\A m \in Elems(receive) : m.t # "close" => m.r \in 1..Len(origin))
      /\ Retention \in Nat /\ Retention > 1
    BY SessionAssumption DEF TypeInv, ProviderTypes
<1>2. scenario'.tagged = scenario.tagged /\ st' = st
    BY ProviderCases DEF ProvidersOnly, SameProvider
<1>3. /\ Orderly(scenario.tagged, receive)
      /\ \A m \in Elems(receive) : Before(scenario.tagged, Msg("start", st.r), m) /\ Sent(m)
      /\ prov.old # 0 => Len(origin) < prov.old + Retention
    BY DEF StreamInv
<1>4. st.r \in 0..Len(origin)
    BY RunnerFacts
<1> DEFINE First == Msg("start", st.r)
           Fine(q) == /\ Orderly(scenario.tagged, q)
                      /\ \A m \in Elems(q) : Before(scenario.tagged, First, m)
<1>5. ASSUME Fine(receive'), \A m \in Elems(receive') : Sent(m)',
             prov'.old # 0 => Len(origin') < prov'.old + Retention
      PROVE  StreamInv'
    BY <1>2, <1>5 DEF StreamInv
<1>6. ASSUME NEW k \in Message, SaysNext(k)
      PROVE  /\ Fine(Append(receive, k)) /\ Append(receive, k) \in Seq(Message)
             /\ Elems(Append(receive, k)) = Elems(receive) \cup {k}
    BY <1>3, <1>6, StreamAppend
<1>7. ASSUME NEW k \in Message, SaysNext(k), NEW l \in Message,
             \A m \in Elems(receive) : Before(scenario.tagged, m, l),
             Before(scenario.tagged, First, l), Before(scenario.tagged, k, l)
      PROVE  /\ Fine(Append(Append(receive, k), l))
             /\ Elems(Append(Append(receive, k), l)) = Elems(receive) \cup {k, l}
    <2> DEFINE u == Append(receive, k)
    <2>1. Fine(u) /\ u \in Seq(Message) /\ Elems(u) = Elems(receive) \cup {k}
        BY <1>6, <1>7
    <2> HIDE DEF u
    <2>2. Append(u, l) \in Seq(Message) /\ Orderly(scenario.tagged, Append(u, l))
        BY <1>7, <2>1, OrderlyAppend
    <2>3. Elems(Append(u, l)) = Elems(u) \cup {l}
        BY <2>1, ElemsAppend
    <2>4. Fine(Append(u, l)) /\ Elems(Append(u, l)) = Elems(receive) \cup {k, l}
        BY <1>7, <2>1, <2>2, <2>3
    <2> QED
        BY <2>4 DEF u
<1>8. \A m \in Elems(receive) : /\ m.t # "close" => m.r \in 1..Len(origin)
                                /\ m.t = "end" => m.r # prov.active
                                /\ m.t = "delta" /\ prov.fresh => m.r # prov.active
    BY <1>1, <1>3 DEF Sent
<1>9. CASE SaysNothing
    <2>1. \A m \in Elems(receive') : Sent(m)'
        BY <1>3, <1>9 DEF SaysNothing, Sent
    <2> QED
        BY <1>3, <1>5, <1>9, <2>1 DEF SaysNothing
<1>10. ASSUME NEW k \in Message, SaysMore(k) PROVE StreamInv'
    <2>1. SaysNext(k)
        BY <1>1, <1>10 DEF SaysMore, SaysNext
    <2>2. receive' = Append(receive, k) /\ origin' = origin /\ prov'.old = prov.old
        BY <1>10 DEF SaysMore, KeepsPlaying
    <2>3. Fine(receive') /\ Elems(receive') = Elems(receive) \cup {k}
        BY <1>6, <2>1, <2>2
    <2>4. ASSUME NEW m \in Elems(receive) PROVE Sent(m)'
        BY <1>1, <1>8, <1>10, <2>2, <2>4 DEF SaysMore, Sent, KeepsPlaying
    <2>5. Sent(k)'
        BY <1>1, <1>10, <2>2 DEF SaysMore, Sent, KeepsPlaying
    <2>6. \A m \in Elems(receive') : Sent(m)'
        BY <2>3, <2>4, <2>5
    <2> QED
        BY <1>3, <1>5, <2>2, <2>3, <2>6
<1> DEFINE s == Msg("start", Next1)
           e == Msg("end", prov.active)
           d == Msg("delta", prov.old)
           z == Msg("end", prov.old)
<1>11. /\ s \in Message /\ s.t = "start" /\ s.r = Next1
       /\ e \in Message /\ e.t = "end" /\ e.r = prov.active
       /\ d \in Message /\ d.t = "delta" /\ d.r = prov.old
       /\ z \in Message /\ z.t = "end" /\ z.r = prov.old
    BY <1>1, MsgTypes DEF Next1
<1>12. First.t = "start" /\ First.r = st.r
    BY MsgTypes
<1> HIDE DEF s, e, d, z, First
<1>20. SaysNext(s)
    <2>1. s.t = "start" /\ s.r = Next1
        BY <1>11
    <2> QED
        BY <2>1 DEF SaysNext
<1>13. CASE SaysStart
    <2>1. SaysNext(s)
        BY <1>20
    <2>2. receive' = Append(receive, s)
        BY <1>13 DEF SaysStart, s
    <2>3. Fine(receive') /\ Elems(receive') = Elems(receive) \cup {s}
        BY <1>6, <1>11, <2>1, <2>2
    <2>4. /\ Len(origin') = Next1 /\ prov'.active = Next1
          /\ prov.old = 0 \/ prov.old + Retention > Next1
          /\ \/ prov.active = 0 /\ prov'.old \in {prov.old, 0}
             \/ prov.old = 0 /\ prov'.old = prov.active
        BY <1>13 DEF SaysStart, OpensNext
    <2>5. \A m \in Elems(receive') : Sent(m)'
        BY <1>1, <1>8, <1>11, <2>3, <2>4 DEF Sent, Next1
    <2>6. prov'.old # 0 => Len(origin') < prov'.old + Retention
        BY <1>1, <2>4 DEF Next1
    <2> QED
        BY <1>5, <2>3, <2>5, <2>6
<1>14. CASE SaysEndStart
    <2>1. SaysNext(e)
        BY <1>11, <1>14 DEF SaysNext, SaysEndStart
    <2>2. receive' = Append(Append(receive, e), s)
        BY <1>14 DEF SaysEndStart, s, e
    <2>3. \A m \in Elems(receive) : Before(scenario.tagged, m, s)
        BY <1>3, <1>11, <1>20, SentBefore
    <2>4. Before(scenario.tagged, First, s)
        BY <1>1, <1>4, <1>11, <1>12 DEF Before, Next1
    <2>5. Before(scenario.tagged, e, s)
        BY <1>1, <1>11, <1>14 DEF Before, Next1
    <2>6. Fine(receive') /\ Elems(receive') = Elems(receive) \cup {e, s}
        BY <1>7, <1>11, <2>1, <2>2, <2>3, <2>4, <2>5
    <2>7. /\ Len(origin') = Next1 /\ prov'.active = Next1 /\ prov'.old = prov.old
          /\ prov.old = 0 \/ prov.old + Retention > Next1
        BY <1>14 DEF SaysEndStart, OpensNext
    <2>8. \A m \in Elems(receive') : Sent(m)'
        BY <1>1, <1>8, <1>11, <2>6, <2>7 DEF Sent, Next1
    <2>9. prov'.old # 0 => Len(origin') < prov'.old + Retention
        BY <1>1, <2>7 DEF Next1
    <2> QED
        BY <1>5, <2>6, <2>8, <2>9
<1>15. CASE SaysLate
    <2>1. SaysNext(d)
        BY <1>11, <1>15 DEF SaysNext, SaysLate
    <2>2. receive' = Append(Append(receive, d), z)
        BY <1>15 DEF SaysLate, d, z
    <2>3. SaysNext(z)
        BY <1>11, <1>15 DEF SaysNext, SaysLate
    <2>4. /\ \A m \in Elems(receive) : Before(scenario.tagged, m, z)
          /\ Before(scenario.tagged, First, z)
        <3>1. Sent(First)
            BY <1>4, <1>12 DEF Sent
        <3> QED
            BY <1>3, <2>3, <3>1, SentBefore
    <2>5. Before(scenario.tagged, d, z)
        BY <1>11 DEF Before
    <2>6. Fine(receive') /\ Elems(receive') = Elems(receive) \cup {d, z}
        BY <1>7, <1>11, <2>1, <2>2, <2>4, <2>5
    <2>7. /\ origin' = origin /\ prov'.active = prov.active /\ prov'.fresh = prov.fresh
          /\ prov'.old = 0 /\ prov.old # 0
        BY <1>15 DEF SaysLate
    <2>8. \A m \in Elems(receive') : Sent(m)'
        BY <1>1, <1>8, <1>11, <2>6, <2>7 DEF Sent
    <2> QED
        BY <1>5, <2>6, <2>7, <2>8
<1> QED
    BY <1>9, <1>10, <1>13, <1>14, <1>15, ProviderForms

(* What is left in Receive stays in order, also behind a start just taken. *)
LEMMA StreamHears ==
    ASSUME TypeInv, StreamInv, Hears
    PROVE  /\ StreamInv' /\ Head(receive) \in Elems(receive)
           /\ Elems(receive) = {Head(receive)} \cup Elems(receive')
           /\ \A m \in Elems(receive') : Before(scenario.tagged, Head(receive), m)
<1> DEFINE h == Head(receive)
<1>1. /\ receive' = Tail(receive) /\ receive # <<>> /\ UNCHANGED <<scenario, prov, origin>>
      /\ h \in Message
      /\ HearsStart(h) \/ HearsEnd(h) \/ HearsClose(h) \/ HearsOther(h)
    BY HearCases
<1>2. receive \in Seq(Message) /\ Retention \in Nat /\ Retention > 1
    BY SessionAssumption DEF TypeInv, ProviderTypes
<1>3. /\ Orderly(scenario.tagged, receive)
      /\ \A m \in Elems(receive) : Before(scenario.tagged, Msg("start", st.r), m) /\ Sent(m)
      /\ prov.old # 0 => Len(origin) < prov.old + Retention
    BY DEF StreamInv
<1>4. /\ Orderly(scenario.tagged, receive')
      /\ h \in Elems(receive) /\ Elems(receive) = {h} \cup Elems(receive')
      /\ \A m \in Elems(receive') : Before(scenario.tagged, h, m)
    BY <1>1, <1>2, <1>3, OrderlyTail
<1>5. \A m \in Elems(receive') : m \in Message /\ Sent(m)' /\ Sent(m)
    <2>1. Elems(receive) \subseteq Message
        BY <1>2, ElemsType
    <2> QED
        BY <1>1, <1>3, <1>4, <2>1 DEF Sent
<1>6. st'.r = st.r \/ st'.r = 0 \/ (h.t = "start" /\ st'.r = h.r)
    BY <1>1 DEF HearsStart, HearsEnd, HearsClose, HearsOther, Opening
<1> HIDE DEF h
<1>7. ASSUME NEW m \in Elems(receive')
      PROVE  Before(scenario.tagged, Msg("start", st'.r), m)
    <2>0. /\ Before(scenario.tagged, h, m) /\ Before(scenario.tagged, Msg("start", st.r), m)
          /\ m.r \in Nat
        BY <1>3, <1>4, <1>5 DEF Message
    <2>1. CASE st'.r = st.r
        BY <2>0, <2>1
    <2>2. CASE st'.r = 0
        BY <1>2, <2>0, <2>2, MsgTypes DEF Before
    <2>3. CASE h.t = "start" /\ st'.r = h.r
        BY <2>0, <2>3, MsgTypes DEF Before
    <2> QED
        BY <1>6, <2>1, <2>2, <2>3
<1>8. StreamInv'
    BY <1>1, <1>3, <1>4, <1>5, <1>7 DEF StreamInv
<1> QED
    BY <1>4, <1>8 DEF h

LEMMA StreamStep ==
    ASSUME TypeInv, StreamInv, [Next]_vars
    PROVE  StreamInv'
<1>1. CASE Hears
    BY <1>1, StreamHears
<1>2. CASE Provider
    BY <1>2, StreamProvider
<1>3. CASE Handles
    <2>1. UNCHANGED <<prov, origin, receive>> /\ scenario'.tagged = scenario.tagged
        BY <1>3, StepProvider DEF Handles, SameProvider
    <2>2. st'.r = st.r
        BY <1>3 DEF Handles, Lives, SameLife, Cuts, NotesCancel, Continues, Acks, Acknowledges
    <2>3. /\ Orderly(scenario.tagged, receive)
          /\ \A m \in Elems(receive) : Before(scenario.tagged, Msg("start", st.r), m) /\ Sent(m)
          /\ prov.old # 0 => Len(origin) < prov.old + Retention
        BY DEF StreamInv
    <2>4. \A m \in Elems(receive) : Sent(m)'
        BY <2>1, <2>3 DEF Sent
    <2> QED
        BY <2>1, <2>2, <2>3, <2>4 DEF StreamInv
<1> QED
    BY <1>1, <1>2, <1>3, LifeCases

LEMMA StreamHolds ==
    Spec => []StreamInv
<1>1. Init => StreamInv
    <2> SUFFICES ASSUME Init PROVE StreamInv
        OBVIOUS
    <2>1. receive = <<>> /\ prov.old = 0 /\ Len(receive) = 0 /\ Elems(receive) = {}
        BY ElemsSmall DEF Init
    <2> QED
        BY <2>1 DEF StreamInv, Orderly
<1>2. TypeInv /\ StreamInv /\ [Next]_vars => StreamInv'
    BY StreamStep
<1> QED
    BY <1>1, <1>2, TypesHold, PTL DEF Spec

(* What the provider's steps have in common.                               *)
LEMMA ProviderAdds ==
    ASSUME TypeInv, Provider
    PROVE  /\ Elems(receive) \subseteq Elems(receive')
           /\ \A m \in Elems(receive') : m \in Elems(receive) \/ (SaysNext(m) /\ m \in Message)
           /\ prov'.active \in {prov.active, 0, Next1}
           /\ prov'.old \in {prov.old, 0, prov.active}
           /\ prov'.fresh => prov'.active = Next1 \/ (prov.fresh /\ prov'.active = prov.active)
           /\ prov'.active = Next1 => Msg("start", Next1) \in Elems(receive')
           /\ Len(origin') \in {Len(origin), Next1}
           /\ Len(origin') = Next1 => prov'.active = Next1
<1>1. /\ receive \in Seq(Message) /\ Len(origin) \in Nat /\ prov.active \in {0, Len(origin)}
      /\ prov.old \in 0..Len(origin) /\ (prov.fresh => prov.active # 0)
    BY DEF TypeInv, ProviderTypes
<1> DEFINE s == Msg("start", Next1)
           e == Msg("end", prov.active)
           d == Msg("delta", prov.old)
           z == Msg("end", prov.old)
           One(k) == Append(receive, k)
           Two(k, l) == Append(Append(receive, k), l)
<1>2. /\ s \in Message /\ s.t = "start" /\ s.r = Next1
      /\ e \in Message /\ e.t = "end" /\ e.r = prov.active
      /\ d \in Message /\ d.t = "delta" /\ d.r = prov.old
      /\ z \in Message /\ z.t = "end" /\ z.r = prov.old
    BY <1>1, MsgTypes DEF Next1
<1> HIDE DEF s, e, d, z
<1>3. \A k \in Message : /\ Elems(One(k)) = Elems(receive) \cup {k} /\ One(k) \in Seq(Message)
                         /\ \A l \in Message : Elems(Two(k, l)) = Elems(receive) \cup {k, l}
    <2> SUFFICES ASSUME NEW k \in Message
                 PROVE  /\ Elems(One(k)) = Elems(receive) \cup {k} /\ One(k) \in Seq(Message)
                        /\ \A l \in Message : Elems(Two(k, l)) = Elems(receive) \cup {k, l}
        OBVIOUS
    <2>1. Elems(One(k)) = Elems(receive) \cup {k} /\ One(k) \in Seq(Message)
        BY <1>1, AppendType, ElemsAppend
    <2> DEFINE u == Append(receive, k)
    <2>2. u \in Seq(Message) /\ Elems(u) = Elems(receive) \cup {k}
        BY <2>1
    <2> HIDE DEF u
    <2>3. \A l \in Message : Elems(Append(u, l)) = Elems(u) \cup {l}
        BY <2>2, ElemsAppend
    <2>4. \A l \in Message : Elems(Append(u, l)) = Elems(receive) \cup {k, l}
        BY <2>2, <2>3
    <2> QED
        BY <2>1, <2>4 DEF u
<1>4. SaysNext(s)
    BY <1>2 DEF SaysNext
<1>5. CASE SaysNothing
    BY <1>1, <1>5 DEF SaysNothing, Next1
<1>6. ASSUME NEW k \in Message, SaysMore(k)
      PROVE  /\ Elems(receive') = Elems(receive) \cup {k} /\ SaysNext(k)
             /\ origin' = origin /\ prov'.active \in {prov.active, 0} /\ prov'.old = prov.old
             /\ prov'.fresh => prov.fresh /\ prov'.active = prov.active
    <2>1. SaysNext(k)
        BY <1>1, <1>6 DEF SaysMore, SaysNext
    <2>2. receive' = One(k) /\ origin' = origin /\ prov'.old = prov.old
        BY <1>6 DEF SaysMore, KeepsPlaying
    <2>3. /\ prov'.active \in {prov.active, 0}
          /\ prov'.fresh => prov.fresh /\ prov'.active = prov.active
        BY <1>6 DEF SaysMore, KeepsPlaying
    <2> QED
        BY <1>3, <1>6, <2>1, <2>2, <2>3
<1>7. CASE SaysStart
    <2>1. Elems(receive') = Elems(receive) \cup {s}
        BY <1>2, <1>3, <1>7 DEF SaysStart, s
    <2>2. /\ Len(origin') = Next1 /\ prov'.active = Next1 /\ prov'.old \in {prov.old, 0, prov.active}
        BY <1>7 DEF SaysStart, OpensNext
    <2> QED
        BY <1>2, <1>4, <2>1, <2>2 DEF s
<1>8. CASE SaysEndStart
    <2>1. Elems(receive') = Elems(receive) \cup {e, s}
        BY <1>2, <1>3, <1>8 DEF SaysEndStart, s, e
    <2>2. /\ Len(origin') = Next1 /\ prov'.active = Next1 /\ prov'.old = prov.old
        BY <1>8 DEF SaysEndStart, OpensNext
    <2>3. SaysNext(e)
        BY <1>2, <1>8 DEF SaysNext, SaysEndStart
    <2> QED
        BY <1>2, <1>4, <2>1, <2>2, <2>3 DEF s
<1>9. CASE SaysLate
    <2>1. Elems(receive') = Elems(receive) \cup {d, z}
        BY <1>2, <1>3, <1>9 DEF SaysLate, d, z
    <2>2. /\ origin' = origin /\ prov'.active = prov.active /\ prov'.old = 0
          /\ prov'.fresh = prov.fresh
        BY <1>9 DEF SaysLate
    <2>3. SaysNext(d) /\ SaysNext(z)
        BY <1>2, <1>9 DEF SaysNext, SaysLate
    <2> QED
        BY <1>1, <1>2, <2>1, <2>2, <2>3 DEF Next1
<1>10. CASE \E k \in Message : SaysMore(k)
    BY <1>1, <1>6, <1>10 DEF Next1
<1> QED
    BY <1>5, <1>7, <1>8, <1>9, <1>10, ProviderForms

-----------------------------------------------------------------------------
(* Cancelled responses                                                     *)

(* Receive and the provider are past response r.                           *)
Passed(r) ==
    /\ \A m \in Elems(receive) :
          m.t = "start" \/ (~scenario.tagged /\ m.t = "delta") => m.r > r
    /\ prov.active # 0 /\ (prov.fresh \/ ~scenario.tagged) => prov.active > r

CutInv == \A r \in cut : r \in 1..Len(origin)
                         /\ IF st.r = r THEN st.phase = "cancelling" ELSE Passed(r)
CancelInv == \A r \in Response : cancels[r] <= 1 /\ (cancels[r] # 0 => r \in cut)

LEMMA PassedProvider ==
    ASSUME TypeInv, Provider, NEW r \in 1..Len(origin), Passed(r)
    PROVE  Passed(r)'
<1>1. /\ Len(origin) \in Nat /\ prov.active \in {0, Len(origin)} /\ prov.old \in 0..Len(origin)
      /\ (prov.old # 0 => scenario.tagged) /\ (prov.fresh => prov.active # 0)
    BY DEF TypeInv, ProviderTypes
<1>2. scenario'.tagged = scenario.tagged
    BY ProviderCases DEF SameProvider
<1>3. ASSUME NEW m \in Elems(receive'), m.t = "start" \/ (~scenario.tagged /\ m.t = "delta")
      PROVE  m.r > r
    <2>1. CASE m \in Elems(receive)
        BY <1>3, <2>1 DEF Passed
    <2>2. CASE SaysNext(m)
        BY <1>1, <1>3, <2>2 DEF Passed, SaysNext, Next1
    <2> QED
        BY <2>1, <2>2, ProviderAdds
<1>4. prov'.active # 0 /\ (prov'.fresh \/ ~scenario.tagged) => prov'.active > r
    BY <1>1, ProviderAdds DEF Passed, Next1
<1> QED
    BY <1>2, <1>3, <1>4 DEF Passed

(* A response is left behind for good when another one starts, and when it *)
(* ends.                                                                   *)
LEMMA PassedStart ==
    ASSUME TypeInv, StreamInv, Hears, HearsStart(Head(receive))
    PROVE  /\ st'.r = Head(receive).r /\ st'.r # st.r
           /\ \A r \in 1..Len(origin) : (r = st.r \/ Passed(r)) => r # st'.r /\ Passed(r)'
<1> DEFINE h == Head(receive)
<1>1. /\ Len(origin) \in Nat /\ prov.active \in {0, Len(origin)}
      /\ (\A m \in Elems(receive) : m.t # "close" => m.r \in 1..Len(origin))
    BY DEF TypeInv, ProviderTypes
<1>2. /\ UNCHANGED <<scenario, prov, origin>> /\ h \in Elems(receive)
      /\ Elems(receive) = {h} \cup Elems(receive')
      /\ \A m \in Elems(receive') : Before(scenario.tagged, h, m)
      /\ Before(scenario.tagged, Msg("start", st.r), h)
    BY HearCases, StreamHears DEF StreamInv
<1>3. h.t = "start" /\ BeginsResponse(st, h.r) /\ st'.r = h.r
    BY DEF HearsStart, Opening
<1>4. st.r \in 0..Len(origin) /\ (InFlight(st) <=> st.r # 0)
    BY RunnerFacts
<1> HIDE DEF h
<1>5. h.r \in 1..Len(origin) /\ h.r # st.r
    BY <1>1, <1>2, <1>3, <1>4 DEF BeginsResponse, Id
<1>6. st.r < h.r
    BY <1>2, <1>3, <1>4, <1>5, MsgTypes DEF Before
<1>7. ASSUME NEW r \in 1..Len(origin), r = st.r \/ Passed(r)
      PROVE  r # h.r /\ Passed(r)'
    <2>1. r < h.r
        BY <1>2, <1>3, <1>6, <1>7 DEF Passed
    <2>2. ASSUME NEW m \in Elems(receive'), m.t = "start" \/ (~scenario.tagged /\ m.t = "delta")
          PROVE  m.r > r
        <3>1. m.r \in 1..Len(origin) /\ Before(scenario.tagged, h, m)
            BY <1>1, <1>2, <2>2
        <3> QED
            BY <1>3, <1>5, <2>1, <2>2, <3>1 DEF Before
    <2>3. prov.active # 0 => prov.active > r
        BY <1>1, <1>5, <2>1
    <2> QED
        BY <1>2, <1>5, <2>1, <2>2, <2>3 DEF Passed
<1> QED
    BY <1>3, <1>5, <1>7 DEF h

LEMMA PassedEnd ==
    ASSUME TypeInv, StreamInv, Hears, HearsEnd(Head(receive))
    PROVE  /\ st'.r = 0 /\ (scenario.tagged /\ st.r # 0 => Head(receive).r = st.r)
           /\ \A r \in 1..Len(origin) : (r = st.r \/ Passed(r)) => Passed(r)'
<1> DEFINE h == Head(receive)
<1>1. /\ Len(origin) \in Nat /\ prov.active \in {0, Len(origin)}
      /\ (\A m \in Elems(receive) : m.t # "close" => m.r \in 1..Len(origin))
    BY DEF TypeInv, ProviderTypes
<1>2. /\ UNCHANGED <<scenario, prov, origin>> /\ h \in Elems(receive)
      /\ Elems(receive) = {h} \cup Elems(receive')
      /\ \A m \in Elems(receive') : Before(scenario.tagged, h, m)
      /\ Before(scenario.tagged, Msg("start", st.r), h) /\ Sent(h)
    BY HearCases, StreamHears DEF StreamInv
<1>3. h.t = "end" /\ OwnsResponseEnd(st, h.r) /\ st'.r = 0
    BY DEF HearsEnd, Ending
<1>4. st.r \in 0..Len(origin) /\ (InFlight(st) <=> st.r # 0)
    BY RunnerFacts
<1> HIDE DEF h
<1>5. h.r \in 1..Len(origin)
    BY <1>1, <1>2, <1>3
<1>6. scenario.tagged /\ st.r # 0 => h.r = st.r
    BY <1>3, <1>4 DEF OwnsResponseEnd
<1>7. ASSUME NEW r \in 1..Len(origin), r = st.r \/ Passed(r)
      PROVE  Passed(r)'
    <2>1. CASE Passed(r)
        BY <1>2, <2>1 DEF Passed
    <2>2. CASE r = st.r
        <3>1. r <= h.r
            BY <1>2, <1>3, <1>4, <1>5, <1>6, <2>2, MsgTypes DEF Before
        <3>2. ASSUME NEW m \in Elems(receive'),
                     m.t = "start" \/ (~scenario.tagged /\ m.t = "delta")
              PROVE  m.r > r
            <4>1. m.r \in 1..Len(origin) /\ Before(scenario.tagged, h, m)
                BY <1>1, <1>2, <3>2
            <4> QED
                BY <1>3, <1>5, <3>1, <3>2, <4>1 DEF Before
        <3>3. prov.active # 0 => prov.active > r
            <4>1. h.r # prov.active
                BY <1>2, <1>3 DEF Sent
            <4> QED
                BY <1>1, <1>5, <3>1, <4>1
        <3> QED
            BY <1>2, <3>2, <3>3 DEF Passed
    <2> QED
        BY <1>7, <2>1, <2>2
<1> QED
    BY <1>3, <1>6, <1>7 DEF h

LEMMA CutStep ==
    ASSUME TypeInv, StreamInv, CutInv, [Next]_vars
    PROVE  CutInv'
<1>1. /\ Len(origin) \in Nat /\ Len(origin') \in Nat /\ Len(origin) <= Len(origin')
    BY OriginGrows
<1>2. /\ st.r \in 0..Len(origin) /\ (InFlight(st) <=> st.r # 0)
    BY RunnerFacts
<1>3. CASE Hears
    <2> DEFINE m == Head(receive)
    <2>1. /\ UNCHANGED <<scenario, origin, prov, cut>> /\ m \in Message
          /\ HearsStart(m) \/ HearsEnd(m) \/ HearsClose(m) \/ HearsOther(m)
        BY <1>3, HearCases
    <2>2. /\ Elems(receive') \subseteq Elems(receive)
        BY <1>3, StreamHears
    <2> SUFFICES ASSUME NEW r \in cut
                 PROVE  IF st'.r = r THEN st'.phase = "cancelling" ELSE Passed(r)'
        BY <2>1 DEF CutInv
    <2>3. r \in 1..Len(origin) /\ IF st.r = r THEN st.phase = "cancelling" ELSE Passed(r)
        BY DEF CutInv
    <2>4. Passed(r) => Passed(r)'
        BY <2>1, <2>2 DEF Passed
    <2>5. CASE HearsStart(m)
        BY <1>3, <2>3, <2>5, PassedStart
    <2>6. CASE HearsEnd(m)
        BY <1>3, <2>3, <2>6, PassedEnd
    <2>7. CASE HearsClose(m) \/ HearsOther(m)
        <3>1. st'.phase = st.phase /\ st'.r = st.r
            BY <2>7 DEF HearsClose, HearsOther
        <3> QED
            BY <2>3, <2>4, <3>1
    <2> QED
        BY <2>1, <2>5, <2>6, <2>7
<1>4. CASE Provider
    <2>1. UNCHANGED <<st, cut>>
        BY <1>4, ProviderCases DEF ProvidersOnly
    <2> SUFFICES ASSUME NEW r \in cut
                 PROVE  /\ r \in 1..Len(origin')
                        /\ IF st.r = r THEN st.phase = "cancelling" ELSE Passed(r)'
        BY <2>1 DEF CutInv
    <2>2. r \in 1..Len(origin) /\ IF st.r = r THEN st.phase = "cancelling" ELSE Passed(r)
        BY DEF CutInv
    <2> QED
        BY <1>1, <1>4, <2>2, PassedProvider
<1>5. CASE Handles
    <2>1. UNCHANGED <<prov, origin, receive>> /\ scenario'.tagged = scenario.tagged
        BY <1>5, StepProvider DEF Handles, SameProvider
    <2>2. \A r : Passed(r)' <=> Passed(r)
        BY <2>1 DEF Passed
    <2>3. st'.r = st.r
        BY <1>5 DEF Handles, Lives, SameLife, Cuts, NotesCancel, Continues, Acks, Acknowledges
    <2>4. CASE Cuts
        <3>1. /\ cut' = cut \cup ({st.r} \ {0})
              /\ st'.phase = IF st.phase = "inflight" THEN "cancelling"
                             ELSE IF st.phase = "idle" THEN "interrupted" ELSE st.phase
            BY <2>4 DEF Cuts, NotesCancel
        <3> SUFFICES ASSUME NEW r \in cut'
                     PROVE  /\ r \in 1..Len(origin)
                            /\ IF st.r = r THEN st'.phase = "cancelling" ELSE Passed(r)
            BY <2>1, <2>2, <2>3 DEF CutInv
        <3>2. CASE r = st.r
            BY <1>2, <3>1, <3>2 DEF CutInv, InFlight
        <3>3. CASE r # st.r
            BY <3>1, <3>3 DEF CutInv
        <3> QED
            BY <3>2, <3>3
    <2>5. CASE Lives \/ Continues \/ Acks
        <3>1. /\ cut' = cut
              /\ st'.phase = st.phase \/ st.r = 0
            BY <1>2, <2>5 DEF Lives, SameLife, Continues, Acks
        <3> SUFFICES ASSUME NEW r \in cut
                     PROVE  /\ r \in 1..Len(origin)
                            /\ IF st.r = r THEN st'.phase = "cancelling" ELSE Passed(r)
            BY <2>1, <2>2, <2>3, <3>1 DEF CutInv
        <3> QED
            BY <1>2, <3>1 DEF CutInv
    <2> QED
        BY <1>5, <2>4, <2>5 DEF Handles
<1> QED
    BY <1>3, <1>4, <1>5, LifeCases

LEMMA CancelStepOnce ==
    ASSUME TypeInv, CutInv, CancelInv, [Next]_vars
    PROVE  CancelInv'
<1>1. /\ st.r \in 0..Len(origin) /\ (InFlight(st) <=> st.r # 0)
      /\ (st.r # 0 => st.r \in Response) /\ cancels \in [Response -> Nat]
    BY RunnerFacts
<1>2. CASE Hears
    BY <1>2, HearCases DEF CancelInv
<1>3. CASE Provider
    <2>1. UNCHANGED <<cancels, cut>>
        BY <1>3, ProviderCases DEF ProvidersOnly
    <2> QED
        BY <2>1 DEF CancelInv
<1>4. CASE Handles
    <2>1. CASE Cuts
        <3>1. cut \subseteq cut'
            BY <2>1 DEF Cuts
        <3>2. CASE cancels' = cancels
            BY <3>1, <3>2 DEF CancelInv
        <3>3. CASE /\ CancelTarget(st) /\ st.r # 0
                   /\ cancels' = [cancels EXCEPT ![st.r] = @ + 1]
            <4>1. st.phase # "cancelling"
                BY <3>3 DEF CancelTarget, CancelPending
            <4>2. st.r \notin cut
                BY <4>1 DEF CutInv
            <4>3. cancels[st.r] = 0
                BY <1>1, <3>3, <4>2 DEF CancelInv
            <4>4. st.r \in cut'
                BY <2>1, <3>3 DEF Cuts
            <4> SUFFICES ASSUME NEW r \in Response
                         PROVE  cancels'[r] <= 1 /\ (cancels'[r] # 0 => r \in cut')
                BY DEF CancelInv
            <4> QED
                BY <1>1, <3>1, <3>3, <4>3, <4>4 DEF CancelInv
        <3> QED
            BY <2>1, <3>2, <3>3 DEF Cuts
    <2>2. CASE Lives \/ Continues \/ Acks
        BY <2>2 DEF Lives, Continues, Acks, CancelInv
    <2> QED
        BY <1>4, <2>1, <2>2 DEF Handles
<1> QED
    BY <1>2, <1>3, <1>4, LifeCases

LEMMA CutHolds ==
    Spec => [](CutInv /\ CancelInv)
<1>1. Init => CutInv /\ CancelInv
    BY DEF Init, CutInv, CancelInv
<1>2. TypeInv /\ StreamInv /\ CutInv /\ CancelInv /\ [Next]_vars => (CutInv /\ CancelInv)'
    BY CutStep, CancelStepOnce
<1> QED
    BY <1>1, <1>2, TypesHold, StreamHolds, PTL DEF Spec

(* Barge-in cancels a response at most once (CancelTarget, NoteCancelSent),*)
(* whatever starts, ends, rejected requests, acknowledgements and cancels  *)
(* by the user come between: an accepted cancel leaves its response        *)
(* "cancelling" until it is superseded or ends, and no message starts it   *)
(* again.                                                                  *)
THEOREM CancelledOnce == Spec => []OneCancelPerResponse
<1>1. CancelInv => OneCancelPerResponse
    BY DEF CancelInv, OneCancelPerResponse
<1> QED
    BY <1>1, CutHolds, PTL

-----------------------------------------------------------------------------
(* The ledger of response IDs                                              *)

(* IDs are entered in the order of the responses.                          *)
Sorted(l) == \A i, j \in 1..Len(l) : i < j => l[i].r < l[j].r
Top(l, y) == \A e \in Elems(l) : e.r <= y

LEMMA StatusOf ==
    ASSUME NEW l \in Seq(Entry), Sorted(l), NEW i \in 1..Len(l)
    PROVE  Status(l, l[i].r) = l[i].status
<1> DEFINE c == CHOOSE e \in Elems(l) : e.r = l[i].r
<1>1. DOMAIN l = 1..Len(l) /\ Len(l) \in Nat /\ \A j \in 1..Len(l) : l[j] \in Entry
    OBVIOUS
<1>2. l[i] \in Elems(l) /\ l[i].r = l[i].r
    BY <1>1 DEF Elems
<1>3. c \in Elems(l) /\ c.r = l[i].r
    BY <1>2
<1> HIDE DEF c
<1>4. PICK j \in 1..Len(l) : c = l[j]
    BY <1>1, <1>3 DEF Elems
<1>5. j = i
    <2>1. l[j].r = l[i].r /\ l[i].r \in Nat
        BY <1>1, <1>3, <1>4 DEF Entry
    <2>2. ~(i < j) /\ ~(j < i)
        BY <2>1 DEF Sorted
    <2> QED
        BY <2>2
<1>6. Status(l, l[i].r) = c.status
    BY <1>1 DEF Status, c
<1> QED
    BY <1>4, <1>5, <1>6

LEMMA StatusNone ==
    ASSUME NEW l \in Seq(Entry), NEW x
    PROVE  /\ (\A i \in 1..Len(l) : l[i].r # x) => Status(l, x) = "unknown"
           /\ Status(l, x) # "unknown" => \E i \in 1..Len(l) : l[i].r = x
<1>1. DOMAIN l = 1..Len(l)
    OBVIOUS
<1> QED
    BY <1>1 DEF Status

(* A ledger that is full reaches back exactly Retention responses at least.*)
LEMMA SortedSpan ==
    ASSUME NEW l \in Seq(Entry), Sorted(l)
    PROVE  \A n \in Nat : n + 1 \in 1..Len(l) => l[1].r + n <= l[n + 1].r
<1> DEFINE S == {n \in Nat : n + 1 \in 1..Len(l) => l[1].r + n <= l[n + 1].r}
<1>1. Len(l) \in Nat /\ \A j \in 1..Len(l) : l[j] \in Entry /\ l[j].r \in Nat
    <2>1. Len(l) \in Nat /\ \A j \in 1..Len(l) : l[j] \in Entry
        OBVIOUS
    <2> QED
        BY <2>1 DEF Entry
<1>2. 0 \in S
    BY <1>1
<1>3. ASSUME NEW n \in S PROVE n + 1 \in S
    <2> SUFFICES ASSUME (n + 1) + 1 \in 1..Len(l) PROVE l[1].r + (n + 1) <= l[(n + 1) + 1].r
        OBVIOUS
    <2>1. n \in Nat /\ n + 1 \in 1..Len(l) /\ 1 \in 1..Len(l) /\ n + 1 < (n + 1) + 1
        BY <1>1, <1>3
    <2>2. l[1].r + n <= l[n + 1].r
        BY <1>3, <2>1
    <2>3. l[n + 1].r < l[(n + 1) + 1].r
        BY <2>1 DEF Sorted
    <2>4. l[1].r \in Nat /\ l[n + 1].r \in Nat /\ l[(n + 1) + 1].r \in Nat
        BY <1>1, <2>1
    <2> QED
        BY <2>1, <2>2, <2>3, <2>4
<1>4. S \in SUBSET Nat
    OBVIOUS
<1> HIDE DEF S
<1>5. S = Nat
    BY <1>2, <1>3, <1>4, SetInduction
<1> QED
    BY <1>5 DEF S

(* What a mark keeps and what it forgets: an entry is dropped only for a   *)
(* response that is Retention or more later.                               *)
Marked(l, p, y, status) ==
    /\ Sorted(p) /\ \A z \in Nat : Top(l, z) /\ y <= z => Top(p, z)
    /\ Status(p, y) # "unknown" /\ (Closed(status) => Closed(Status(p, y)))
    /\ \A x \in Nat : x # y /\ Closed(Status(l, x)) /\ y < x + Retention => Closed(Status(p, x))
    /\ \A x : Closed(Status(p, x)) => Closed(Status(l, x)) \/ (x = y /\ Closed(status))

LEMMA ChangeMarks ==
    ASSUME NEW l \in Seq(Entry), NEW y \in Nat, NEW status \in EntryStatus, Sorted(l),
           Status(l, y) # "unknown"
    PROVE  Marked(l, [i \in DOMAIN l |-> IF l[i].r = y THEN [l[i] EXCEPT !.status = status]
                                          ELSE l[i]], y, status)
<1> DEFINE p == [i \in DOMAIN l |-> IF l[i].r = y THEN [l[i] EXCEPT !.status = status]
                                    ELSE l[i]]
<1>1. DOMAIN l = 1..Len(l) /\ Len(l) \in Nat /\ \A i \in 1..Len(l) : l[i] \in Entry
    OBVIOUS
<1>2. /\ p \in Seq(Entry) /\ Len(p) = Len(l)
      /\ \A i \in 1..Len(l) : /\ p[i].r = l[i].r
                              /\ p[i].status = IF l[i].r = y THEN status ELSE l[i].status
    <2>1. \A i \in 1..Len(l) : /\ p[i] \in Entry /\ p[i].r = l[i].r
                               /\ p[i].status = IF l[i].r = y THEN status ELSE l[i].status
        BY <1>1 DEF Entry
    <2>2. p \in Seq(Entry) /\ Len(p) = Len(l)
        BY <1>1, <2>1
    <2> QED
        BY <2>1, <2>2
<1> HIDE DEF p
<1>3. Sorted(p)
    BY <1>2 DEF Sorted
<1>4. ASSUME NEW z \in Nat, Top(l, z) PROVE Top(p, z)
    <2>1. \A i \in 1..Len(l) : p[i].r <= z
        BY <1>1, <1>2, <1>4 DEF Top, Elems
    <2>2. DOMAIN p = 1..Len(l)
        BY <1>2
    <2> QED
        BY <2>1, <2>2 DEF Top, Elems
<1>5. ASSUME NEW x, Status(l, x) # "unknown"
      PROVE  Status(p, x) = IF x = y THEN status ELSE Status(l, x)
    <2>1. PICK i \in 1..Len(l) : l[i].r = x
        BY <1>5, StatusNone
    <2>2. Status(l, x) = l[i].status
        BY <2>1, StatusOf
    <2>3. Status(p, p[i].r) = p[i].status
        BY <1>2, <1>3, StatusOf
    <2> QED
        BY <1>2, <2>1, <2>2, <2>3
<1>6. status # "unknown" /\ \A x : Closed(Status(l, x)) => Status(l, x) # "unknown"
    BY DEF Closed, EntryStatus
<1>7. ASSUME NEW x, Status(p, x) # "unknown" PROVE Status(l, x) # "unknown"
    <2>1. PICK i \in 1..Len(l) : l[i].r = x
        BY <1>2, <1>7, StatusNone
    <2>2. Status(l, x) = l[i].status
        BY <2>1, StatusOf
    <2> QED
        BY <1>1, <2>2 DEF Entry, EntryStatus
<1>8. \A x : Closed(Status(p, x)) => Closed(Status(l, x)) \/ (x = y /\ Closed(status))
    <2> SUFFICES ASSUME NEW x, Closed(Status(p, x))
                 PROVE  Closed(Status(l, x)) \/ (x = y /\ Closed(status))
        OBVIOUS
    <2>1. Status(l, x) # "unknown"
        BY <1>7 DEF Closed
    <2> QED
        BY <1>5, <2>1
<1> QED
    BY <1>3, <1>4, <1>5, <1>6, <1>8 DEF Marked, p

LEMMA GrowMarks ==
    ASSUME NEW l \in Seq(Entry), NEW y \in Nat, NEW status \in EntryStatus, Sorted(l),
           Top(l, y), Status(l, y) = "unknown"
    PROVE  /\ Append(l, [r |-> y, status |-> status]) \in Seq(Entry)
           /\ Marked(l, Append(l, [r |-> y, status |-> status]), y, status)
<1> DEFINE e == [r |-> y, status |-> status]
           p == Append(l, e)
<1>1. /\ DOMAIN l = 1..Len(l) /\ Len(l) \in Nat
      /\ \A i \in 1..Len(l) : l[i] \in Entry /\ l[i].r \in Nat /\ l[i].status \in EntryStatus
    <2>1. DOMAIN l = 1..Len(l) /\ Len(l) \in Nat /\ \A i \in 1..Len(l) : l[i] \in Entry
        OBVIOUS
    <2> QED
        BY <2>1 DEF Entry
<1>2. e \in Entry /\ e.r = y /\ e.status = status
    BY DEF Entry
<1> HIDE DEF e
<1>3. /\ p \in Seq(Entry) /\ Len(p) = Len(l) + 1 /\ p[Len(l) + 1] = e
      /\ (\A i \in 1..Len(l) : p[i] = l[i]) /\ DOMAIN p = 1..(Len(l) + 1)
      /\ Elems(p) = Elems(l) \cup {e}
    BY <1>2, AppendType, ElemsAppend
<1> HIDE DEF p
<1>4. \A i \in 1..Len(l) : l[i].r < y
    <2> SUFFICES ASSUME NEW i \in 1..Len(l) PROVE l[i].r < y
        OBVIOUS
    <2>1. l[i].r # y
        <3>1. Status(l, l[i].r) = l[i].status
            BY StatusOf
        <3>2. l[i].status # "unknown"
            BY <1>1 DEF EntryStatus
        <3> QED
            BY <3>1, <3>2
    <2>2. l[i].r <= y
        BY <1>1 DEF Top, Elems
    <2> QED
        BY <1>1, <2>1, <2>2
<1>5. Sorted(p)
    <2> SUFFICES ASSUME NEW i \in 1..Len(p), NEW j \in 1..Len(p), i < j
                 PROVE  p[i].r < p[j].r
        BY DEF Sorted
    <2>1. i \in 1..Len(l) /\ p[i] = l[i]
        BY <1>1, <1>3
    <2>2. CASE j \in 1..Len(l)
        BY <1>3, <2>1, <2>2 DEF Sorted
    <2>3. CASE j = Len(l) + 1
        BY <1>2, <1>3, <1>4, <2>1, <2>3
    <2> QED
        BY <1>1, <1>3, <2>2, <2>3
<1>6. \A z \in Nat : Top(l, z) /\ y <= z => Top(p, z)
    BY <1>2, <1>3 DEF Top
<1>7. Status(p, y) = status
    <2>1. Len(l) + 1 \in 1..Len(p)
        BY <1>1, <1>3
    <2>2. Status(p, p[Len(l) + 1].r) = p[Len(l) + 1].status
        BY <1>3, <1>5, <2>1, StatusOf
    <2> QED
        BY <1>2, <1>3, <2>2
<1>8. ASSUME NEW x, Closed(Status(l, x)) PROVE Closed(Status(p, x))
    <2>1. Status(l, x) # "unknown"
        BY <1>8 DEF Closed
    <2>2. PICK i \in 1..Len(l) : l[i].r = x
        BY <2>1, StatusNone
    <2>3. Status(l, x) = l[i].status
        BY <2>2, StatusOf
    <2>4. i \in 1..Len(p) /\ p[i] = l[i]
        BY <1>1, <1>3
    <2>5. Status(p, p[i].r) = p[i].status
        BY <1>3, <1>5, <2>4, StatusOf
    <2> QED
        BY <1>8, <2>2, <2>3, <2>4, <2>5
<1>9. status # "unknown"
    BY DEF EntryStatus
<1>10. ASSUME NEW x, Closed(Status(p, x))
       PROVE  Closed(Status(l, x)) \/ (x = y /\ Closed(status))
    <2>1. Status(p, x) # "unknown"
        BY <1>10 DEF Closed
    <2>2. PICK i \in 1..Len(p) : p[i].r = x
        BY <1>3, <2>1, StatusNone
    <2>3. CASE i \in 1..Len(l)
        <3>1. l[i].r = x /\ Status(l, x) = l[i].status
            BY <1>3, <2>2, <2>3, StatusOf
        <3>2. Status(p, x) = p[i].status
            BY <1>3, <1>5, <2>2, StatusOf
        <3> QED
            BY <1>3, <1>10, <2>3, <3>1, <3>2
    <2>4. CASE i = Len(l) + 1
        BY <1>2, <1>3, <1>7, <1>10, <2>2, <2>4
    <2> QED
        BY <1>1, <1>3, <2>3, <2>4
<1> QED
    BY <1>3, <1>5, <1>6, <1>7, <1>8, <1>9, <1>10 DEF Marked, e, p

LEMMA DropMarks ==
    ASSUME NEW l \in Seq(Entry), NEW y \in Nat, NEW status \in EntryStatus, Sorted(l),
           Top(l, y), Status(l, y) = "unknown", Len(l) = Retention
    PROVE  Marked(l, Tail(Append(l, [r |-> y, status |-> status])), y, status)
<1> DEFINE e == [r |-> y, status |-> status]
           g == Append(l, e)
           p == Tail(g)
<1>1. /\ DOMAIN l = 1..Len(l) /\ Len(l) \in Nat /\ Len(l) > 1
      /\ \A i \in 1..Len(l) : l[i] \in Entry /\ l[i].r \in Nat
    <2>1. DOMAIN l = 1..Len(l) /\ Len(l) \in Nat /\ \A i \in 1..Len(l) : l[i] \in Entry
        OBVIOUS
    <2> QED
        BY <2>1, SessionAssumption DEF Entry
<1>2. e \in Entry /\ e.r = y /\ e.status = status
    BY DEF Entry
<1>3. g \in Seq(Entry) /\ Marked(l, g, y, status)
    BY GrowMarks
<1> HIDE DEF e
<1>4. Len(g) = Len(l) + 1 /\ g[Len(l) + 1] = e /\ (\A i \in 1..Len(l) : g[i] = l[i])
    BY <1>2, AppendType
<1> HIDE DEF g
<1>5. /\ p \in Seq(Entry) /\ Len(p) = Len(l) /\ DOMAIN p = 1..Len(l)
      /\ (\A i \in 1..Len(l) : p[i] = g[i + 1])
    BY <1>1, <1>3, <1>4, TailType
<1>6. Elems(p) \subseteq Elems(g)
    <2>1. g # <<>>
        BY <1>1, <1>4
    <2> QED
        BY <1>3, <2>1, ElemsTail
<1> HIDE DEF p
<1>7. Sorted(g) /\ Sorted(p)
    <2>1. Sorted(g)
        BY <1>3 DEF Marked
    <2>2. ASSUME NEW i \in 1..Len(p), NEW j \in 1..Len(p), i < j
          PROVE  p[i].r < p[j].r
        <3>1. i + 1 \in 1..Len(g) /\ j + 1 \in 1..Len(g) /\ i + 1 < j + 1
            BY <1>1, <1>4, <1>5, <2>2
        <3>2. p[i] = g[i + 1] /\ p[j] = g[j + 1]
            BY <1>5
        <3> QED
            BY <2>1, <3>1, <3>2 DEF Sorted
    <2> QED
        BY <2>1, <2>2 DEF Sorted
<1>8. \A i \in 1..Len(l) : Status(p, g[i + 1].r) = g[i + 1].status
    BY SMTT(60), <1>5, <1>7, StatusOf
<1>9. \A i \in 1..Len(g) : Status(g, g[i].r) = g[i].status
    BY <1>3, <1>7, StatusOf
<1>10. \A z \in Nat : Top(l, z) /\ y <= z => Top(p, z)
    BY <1>3, <1>6 DEF Marked, Top
<1>11. Status(p, y) = Status(g, y)
    <2>1. Len(l) \in 1..Len(l) /\ Len(l) + 1 \in 1..Len(g)
        BY <1>1, <1>4
    <2>2. g[Len(l) + 1].r = y
        BY <1>2, <1>4
    <2> QED
        BY <1>8, <1>9, <2>1, <2>2
<1>12. ASSUME NEW x \in Nat, x # y, Closed(Status(l, x)), y < x + Retention
       PROVE  Closed(Status(p, x))
    <2>1. Closed(Status(g, x))
        BY <1>3, <1>12 DEF Marked
    <2>2. PICK k \in 1..Len(g) : g[k].r = x
        BY <1>3, <2>1, StatusNone DEF Closed
    <2>3. k # 1
        <3> SUFFICES ASSUME k = 1 PROVE FALSE
            OBVIOUS
        <3>1. l[1].r = x
            BY <1>1, <1>4, <2>2
        <3>2. l[1].r + (Len(l) - 1) <= l[Len(l)].r
            <4>1. Len(l) - 1 \in Nat /\ (Len(l) - 1) + 1 \in 1..Len(l)
                  /\ (Len(l) - 1) + 1 = Len(l)
                BY <1>1
            <4> QED
                BY <4>1, SortedSpan
        <3>3. l[Len(l)].r < y
            <4>1. g[Len(l)].r < g[Len(l) + 1].r
                BY <1>1, <1>4, <1>7 DEF Sorted
            <4> QED
                BY <1>1, <1>2, <1>4, <4>1
        <3>4. l[Len(l)].r \in Nat /\ Retention \in Nat
            BY <1>1, SessionAssumption
        <3> QED
            BY <1>1, <1>12, <3>1, <3>2, <3>3, <3>4
    <2>4. k - 1 \in 1..Len(l) /\ (k - 1) + 1 = k
        BY <1>1, <1>4, <2>3
    <2>5. Status(p, g[k].r) = g[k].status
        BY <1>8, <2>4
    <2>6. Status(g, g[k].r) = g[k].status
        BY <1>9
    <2> QED
        BY <2>1, <2>2, <2>5, <2>6
<1>13. ASSUME NEW x, Closed(Status(p, x)) PROVE Closed(Status(g, x))
    <2>1. Status(p, x) # "unknown"
        BY <1>13 DEF Closed
    <2>2. PICK i \in 1..Len(p) : p[i].r = x
        BY <1>5, <2>1, StatusNone
    <2>3. i \in 1..Len(l) /\ i + 1 \in 1..Len(g) /\ g[i + 1].r = x
        BY <1>1, <1>4, <1>5, <2>2
    <2> QED
        BY <1>8, <1>9, <1>13, <2>3
<1> QED
    BY <1>3, <1>7, <1>10, <1>11, <1>12, <1>13 DEF Marked, p, g, e

(* Mark, for a provider that names its responses.                          *)
LEMMA MarkMarks ==
    ASSUME NEW l \in Seq(Entry), NEW y \in Nat, NEW status \in EntryStatus, Sorted(l),
           Top(l, y), Len(l) <= Retention, scenario.tagged, y # 0
    PROVE  Marked(l, Mark(l, y, status), y, status)
<1> DEFINE e == [r |-> y, status |-> status]
           grown == Append(l, e)
           changed == [i \in DOMAIN l |-> IF l[i].r = y THEN [l[i] EXCEPT !.status = status]
                                          ELSE l[i]]
           p == Mark(l, y, status)
<1>1. Id(y) = y
    BY DEF Id
<1>2. CASE Closed(Status(l, y))
    <2>1. p = l
        BY <1>2 DEF Mark
    <2> HIDE DEF p
    <2>2. Status(l, y) # "unknown"
        BY <1>2 DEF Closed
    <2> QED
        BY <1>2, <2>1, <2>2 DEF Marked, p
<1>3. CASE ~Closed(Status(l, y)) /\ Status(l, y) # "unknown"
    <2>1. p = changed
        BY <1>1, <1>3 DEF Mark
    <2>2. Marked(l, changed, y, status)
        BY <1>3, ChangeMarks
    <2> QED
        BY <2>1, <2>2
<1>4. CASE Status(l, y) = "unknown"
    <2>0. ~Closed(Status(l, y))
        BY <1>4 DEF Closed
    <2>1. p = IF Len(grown) > Retention THEN Tail(grown) ELSE grown
        BY <1>1, <1>4, <2>0 DEF Mark
    <2>2. Marked(l, grown, y, status)
        BY <1>4, GrowMarks
    <2>3. Len(grown) = Len(l) + 1 /\ Len(l) \in Nat /\ Retention \in Nat
        <3>1. e \in Entry
            BY DEF Entry
        <3> QED
            BY <3>1, AppendType, SessionAssumption
    <2>4. Len(grown) > Retention => Len(l) = Retention
        BY <2>3
    <2>5. Len(l) = Retention => Marked(l, Tail(grown), y, status)
        BY <1>4, DropMarks
    <2> HIDE DEF p, grown
    <2>6. CASE Len(grown) > Retention
        BY <2>1, <2>4, <2>5, <2>6 DEF p
    <2>7. CASE ~(Len(grown) > Retention)
        BY <2>1, <2>2, <2>7 DEF p
    <2> QED
        BY <2>6, <2>7
<1> QED
    BY <1>2, <1>3, <1>4

(* What marks up to response y leave behind.                               *)
Carries(l, p, y) ==
    /\ Sorted(p) /\ \A z \in Nat : Top(l, z) /\ y <= z => Top(p, z)
    /\ \A x \in Nat : Closed(Status(l, x)) /\ y < x + Retention => Closed(Status(p, x))

(* No other response than y is closed.                                     *)
ClosesOnly(l, p, y) == \A x : Closed(Status(p, x)) => Closed(Status(l, x)) \/ x = y

LEMMA MarkCarries ==
    ASSUME NEW l \in Seq(Entry), NEW y \in Nat, NEW status \in EntryStatus, Sorted(l),
           y = 0 \/ Top(l, y), Len(l) <= Retention, scenario.tagged
    PROVE  /\ Carries(l, Mark(l, y, status), y)
           /\ y # 0 => /\ Status(Mark(l, y, status), y) # "unknown"
                       /\ Closed(status) => Closed(Status(Mark(l, y, status), y))
           /\ \A x : Closed(Status(Mark(l, y, status), x)) =>
                    Closed(Status(l, x)) \/ (x = y /\ Closed(status))
<1> DEFINE p == Mark(l, y, status)
<1>1. CASE y = 0 \/ Closed(Status(l, y))
    <2>1. p = l
        BY <1>1 DEF Mark, Id
    <2>2. Closed(Status(l, y)) => Status(l, y) # "unknown"
        BY DEF Closed
    <2> HIDE DEF p
    <2> QED
        BY <1>1, <2>1, <2>2 DEF Carries, p
<1>2. CASE y # 0 /\ ~Closed(Status(l, y))
    <2>1. Marked(l, p, y, status)
        BY <1>2, MarkMarks
    <2> HIDE DEF p
    <2> QED
        BY <1>2, <2>1 DEF Carries, Marked, p
<1> QED
    BY <1>1, <1>2

LedgerInv ==
    scenario.tagged =>
    /\ Sorted(st.ledger) /\ Top(st.ledger, Len(origin))
    /\ st.r # 0 => Top(st.ledger, st.r)
    /\ \A m \in Elems(receive) : m.t = "start" => Top(st.ledger, m.r)

(* Output of response x, or its end, is still to come.                     *)
LateIn(q, x) ==
    \/ x = prov.active \/ x = prov.old
    \/ \E m \in Elems(q) : m.t \in {"delta", "end"} /\ m.r = x
Starting(x) == \E m \in Elems(receive) : m.t = "start" /\ m.r = x

(* Such a response is known to the runner: it will start, has started, or  *)
(* the ledger has it closed.                                               *)
LateInv ==
    scenario.tagged =>
    \A x \in 1..Len(origin) :
        LateIn(receive, x) => Starting(x) \/ st.r = x \/ Closed(Status(st.ledger, x))

LEMMA LateNear ==
    ASSUME TypeInv, StreamInv, NEW q, NEW y \in 0..Len(origin), NEW x \in 1..Len(origin),
           \A k \in Elems(q) : Before(scenario.tagged, Msg("start", y), k), LateIn(q, x)
    PROVE  y < x + Retention
<1>1. /\ Len(origin) \in Nat /\ prov.active \in {0, Len(origin)} /\ prov.old \in 0..Len(origin)
      /\ Retention \in Nat /\ Retention > 1
    BY SessionAssumption DEF TypeInv, ProviderTypes
<1>2. prov.old # 0 => Len(origin) < prov.old + Retention
    BY DEF StreamInv
<1>3. CASE x = prov.active \/ x = prov.old
    BY <1>1, <1>2, <1>3
<1>4. CASE \E m \in Elems(q) : m.t \in {"delta", "end"} /\ m.r = x
    BY <1>4, MsgTypes DEF Before
<1> QED
    BY <1>3, <1>4 DEF LateIn

LEMMA LedgerFacts ==
    ASSUME TypeInv
    PROVE  /\ st.ledger \in Seq(Entry) /\ Len(st.ledger) <= Retention /\ st.r \in Nat
           /\ Len(origin) \in Nat /\ st.r \in 0..Len(origin)
           /\ scenario.tagged => (Retires(st) <=> st.r # 0)
           /\ \A m \in Elems(receive) : m.t # "close" => m.r \in 1..Len(origin)
<1>1. st \in State /\ Len(st.ledger) <= Retention
    BY DEF TypeInv, RunnerTypes, Steady
<1>2. \A m \in Elems(receive) : m.t # "close" => m.r \in 1..Len(origin)
    BY DEF TypeInv, ProviderTypes
<1>3. st.ledger \in Seq(Entry)
    BY <1>1 DEF State
<1>4. st.r \in 0..Len(origin) /\ Len(origin) \in Nat /\ (InFlight(st) <=> st.r # 0)
    BY RunnerFacts
<1> QED
    BY <1>1, <1>2, <1>3, <1>4 DEF Retires, Id

(* What a start, an end and a cancel do to the ledger.                     *)
LEMMA LedgerStart ==
    ASSUME TypeInv, StreamInv, LedgerInv, scenario.tagged, Hears, HearsStart(Head(receive))
    PROVE  /\ Carries(st.ledger, st'.ledger, Head(receive).r)
           /\ st.r # 0 => Closed(Status(st'.ledger, st.r))
           /\ ClosesOnly(st.ledger, st'.ledger, st.r)
<1> DEFINE h == Head(receive)
           l1 == Retired(st)
<1>1. h \in Elems(receive) /\ h.t = "start" /\ Before(scenario.tagged, Msg("start", st.r), h)
    BY StreamHears DEF StreamInv, HearsStart, Opening
<1>2. /\ st.ledger \in Seq(Entry) /\ Len(st.ledger) <= Retention /\ st.r \in Nat
      /\ (Retires(st) <=> st.r # 0) /\ h.r \in 1..Len(origin) /\ Len(origin) \in Nat
    BY <1>1, LedgerFacts
<1>3. /\ Sorted(st.ledger) /\ Top(st.ledger, h.r) /\ (st.r # 0 => Top(st.ledger, st.r))
    BY <1>1 DEF LedgerInv
<1>4. st'.ledger = IF CutBegun(st) THEN Mark(l1, h.r, "cancelled") ELSE l1
    BY DEF HearsStart
<1>5. st.r <= h.r
    BY <1>1, MsgTypes DEF Before
<1>6. "retired" \in EntryStatus /\ "cancelled" \in EntryStatus /\ Closed("retired")
      /\ ~Closed("cancelled")
    BY DEF EntryStatus, Closed
<1> HIDE DEF h
<1>7. CASE st.r # 0
    <2>1. st'.ledger = Mark(st.ledger, st.r, "retired")
        BY <1>2, <1>4, <1>7 DEF CutBegun, Retired
    <2>2. /\ Carries(st.ledger, st'.ledger, st.r) /\ Closed(Status(st'.ledger, st.r))
          /\ ClosesOnly(st.ledger, st'.ledger, st.r)
        BY <1>2, <1>3, <1>6, <1>7, <2>1, MarkCarries DEF ClosesOnly
    <2>3. Retention \in Nat
        BY SessionAssumption
    <2>4. \A z \in Nat : h.r <= z => st.r <= z
        BY <1>2, <1>5
    <2>5. \A x \in Nat : h.r < x + Retention => st.r < x + Retention
        BY <1>2, <1>5, <2>3
    <2> QED
        BY <2>2, <2>4, <2>5 DEF Carries, h
<1>8. CASE st.r = 0
    <2>1. l1 = st.ledger
        BY <1>2, <1>8 DEF Retired
    <2>2. CASE CutBegun(st)
        <3>1. st'.ledger = Mark(st.ledger, h.r, "cancelled")
            BY <1>4, <2>1, <2>2
        <3>2. h.r \in Nat
            BY <1>2
        <3>3. Carries(st.ledger, st'.ledger, h.r) /\ ClosesOnly(st.ledger, st'.ledger, st.r)
            BY <1>2, <1>3, <1>6, <3>1, <3>2, MarkCarries DEF ClosesOnly
        <3> QED
            BY <1>8, <3>3 DEF h
    <2>3. CASE ~CutBegun(st)
        BY <1>3, <1>4, <1>8, <2>1, <2>3 DEF Carries, ClosesOnly, h
    <2> QED
        BY <2>2, <2>3
<1> QED
    BY <1>7, <1>8

(* The runner owns the end of its current response only.                   *)
LEMMA LedgerEnd ==
    ASSUME TypeInv, StreamInv, LedgerInv, LateInv, scenario.tagged, Hears,
           HearsEnd(Head(receive))
    PROVE  /\ st.r # 0 /\ Head(receive).r = st.r
           /\ Carries(st.ledger, st'.ledger, st.r) /\ Closed(Status(st'.ledger, st.r))
           /\ ClosesOnly(st.ledger, st'.ledger, st.r)
<1> DEFINE h == Head(receive)
<1>1. /\ h \in Elems(receive) /\ h.t = "end" /\ OwnsResponseEnd(st, h.r)
      /\ Elems(receive) = {h} \cup Elems(receive')
      /\ \A m \in Elems(receive') : Before(scenario.tagged, h, m)
    BY StreamHears DEF HearsEnd, Ending
<1>2. /\ st.ledger \in Seq(Entry) /\ Len(st.ledger) <= Retention /\ st.r \in Nat
      /\ h.r \in 1..Len(origin) /\ Len(origin) \in Nat
    BY <1>1, LedgerFacts
<1>3. Sorted(st.ledger) /\ (st.r # 0 => Top(st.ledger, st.r))
    BY DEF LedgerInv
<1>4. st'.ledger = Mark(st.ledger, h.r, "terminal")
    BY DEF HearsEnd, Owned
<1>5. "terminal" \in EntryStatus /\ Closed("terminal")
    BY DEF EntryStatus, Closed
<1> HIDE DEF h
<1>6. h.r = st.r
    <2>1. LateIn(receive, h.r)
        BY <1>1 DEF LateIn
    <2>2. ~Closed(Status(st.ledger, h.r))
        BY <1>1 DEF OwnsResponseEnd
    <2>3. ~Starting(h.r)
        <3> SUFFICES ASSUME NEW m \in Elems(receive), m.t = "start", m.r = h.r PROVE FALSE
            BY DEF Starting
        <3>1. m \in Elems(receive')
            BY <1>1
        <3>2. h.r < m.r
            BY <1>1, <3>1 DEF Before
        <3> QED
            BY <1>2, <3>2
    <2> QED
        BY <1>2, <2>1, <2>2, <2>3 DEF LateInv
<1>7. /\ st.r # 0 /\ Carries(st.ledger, st'.ledger, st.r) /\ Closed(Status(st'.ledger, st.r))
      /\ ClosesOnly(st.ledger, st'.ledger, st.r)
    BY <1>2, <1>3, <1>4, <1>5, <1>6, MarkCarries DEF ClosesOnly
<1> QED
    BY <1>6, <1>7 DEF h

LEMMA LedgerCuts ==
    ASSUME TypeInv, LedgerInv, scenario.tagged, Cuts
    PROVE  /\ Carries(st.ledger, st'.ledger, st.r)
           /\ st.r # 0 => Status(st'.ledger, st.r) # "unknown"
           /\ \A x : Closed(Status(st'.ledger, x)) => Closed(Status(st.ledger, x))
<1>1. /\ st.ledger \in Seq(Entry) /\ Len(st.ledger) <= Retention /\ st.r \in Nat
    BY LedgerFacts
<1>2. Sorted(st.ledger) /\ (st.r # 0 => Top(st.ledger, st.r))
    BY DEF LedgerInv
<1>3. /\ st'.ledger = Mark(st.ledger, st.r, "cancelled") /\ "cancelled" \in EntryStatus
      /\ ~Closed("cancelled")
    BY DEF Cuts, NotesCancel, EntryStatus, Closed
<1> QED
    BY <1>1, <1>2, <1>3, MarkCarries

LEMMA LedgerStep ==
    ASSUME TypeInv, StreamInv, LedgerInv, LateInv, [Next]_vars
    PROVE  LedgerInv'
<1>0. scenario'.tagged = scenario.tagged
    BY StepProvider DEF SameProvider
<1> SUFFICES ASSUME scenario.tagged PROVE LedgerInv'
    BY <1>0 DEF LedgerInv
<1>1. /\ Len(origin) \in Nat /\ Len(origin') \in Nat /\ Len(origin) <= Len(origin')
    BY OriginGrows
<1>2. /\ st.r \in 0..Len(origin) /\ st.ledger \in Seq(Entry)
      /\ \A m \in Elems(receive) : m.t # "close" => m.r \in 1..Len(origin)
    BY LedgerFacts
<1>3. /\ Sorted(st.ledger) /\ Top(st.ledger, Len(origin))
      /\ st.r # 0 => Top(st.ledger, st.r)
      /\ \A m \in Elems(receive) : m.t = "start" => Top(st.ledger, m.r)
    BY DEF LedgerInv
<1>4. ASSUME NEW y \in 0..Len(origin), Carries(st.ledger, st'.ledger, y), origin' = origin,
             st'.r # 0 => st'.r \in Nat /\ y <= st'.r /\ Top(st.ledger, st'.r),
             Elems(receive') \subseteq Elems(receive),
             \A m \in Elems(receive') : m.t = "start" => y <= m.r
      PROVE  LedgerInv'
    <2>1. Sorted(st'.ledger) /\ Top(st'.ledger, Len(origin'))
        BY <1>1, <1>3, <1>4 DEF Carries
    <2>2. st'.r # 0 => Top(st'.ledger, st'.r)
        BY <1>4 DEF Carries
    <2>3. ASSUME NEW m \in Elems(receive'), m.t = "start" PROVE Top(st'.ledger, m.r)
        <3>1. m.r \in Nat /\ y <= m.r /\ Top(st.ledger, m.r)
            BY <1>1, <1>2, <1>3, <1>4, <2>3
        <3> QED
            BY <1>4, <3>1 DEF Carries
    <2> QED
        BY <2>1, <2>2, <2>3 DEF LedgerInv
<1>5. Carries(st.ledger, st.ledger, 0)
    BY <1>3 DEF Carries
<1>9. \A e \in Elems(st.ledger) : e.r \in Nat /\ e.r <= Len(origin)
    <2>1. Elems(st.ledger) \subseteq Entry
        BY <1>2, ElemsType
    <2>2. \A e \in Elems(st.ledger) : e.r \in Nat
        BY <2>1 DEF Entry
    <2> QED
        BY <1>3, <2>2 DEF Top
<1>6. CASE Hears
    <2> DEFINE m == Head(receive)
    <2>1. /\ UNCHANGED origin /\ m \in Message
          /\ HearsStart(m) \/ HearsEnd(m) \/ HearsClose(m) \/ HearsOther(m)
        BY <1>6, HearCases
    <2>2. /\ Elems(receive) = {m} \cup Elems(receive')
          /\ \A k \in Elems(receive') : Before(scenario.tagged, m, k)
          /\ \A k \in Elems(receive') : Before(scenario.tagged, Msg("start", st.r), k)
        BY <1>6, StreamHears DEF StreamInv
    <2>3. CASE HearsStart(m)
        <3>1. Carries(st.ledger, st'.ledger, m.r) /\ st'.r = m.r /\ m.t = "start"
            BY <1>6, <2>3, LedgerStart DEF HearsStart, Opening
        <3> HIDE DEF m
        <3>2. m.r \in 0..Len(origin) /\ m.r \in Nat /\ Top(st.ledger, m.r)
            BY <1>1, <1>2, <1>3, <2>2, <3>1
        <3>3. \A k \in Elems(receive') : k.t = "start" => m.r <= k.r
            BY <2>2, <3>1 DEF Before
        <3> QED
            BY <1>1, <1>4, <2>1, <2>2, <3>1, <3>2, <3>3
    <2>4. CASE HearsEnd(m)
        <3>1. Carries(st.ledger, st'.ledger, st.r) /\ st'.r = 0
            BY <1>6, <2>4, LedgerEnd DEF HearsEnd
        <3>2. \A k \in Elems(receive') : k.t = "start" => st.r <= k.r
            BY <2>2, MsgTypes DEF Before
        <3> HIDE DEF m
        <3> QED
            BY <1>1, <1>2, <1>4, <2>1, <2>2, <3>1, <3>2
    <2>5. CASE HearsClose(m) \/ HearsOther(m)
        <3>1. st'.r = st.r /\ st'.ledger = st.ledger
            BY <2>5 DEF HearsClose, HearsOther
        <3>2. \A k \in Elems(receive') : k.t = "start" => 0 <= k.r
            BY <1>1, <1>2, <2>2
        <3> HIDE DEF m
        <3> QED
            BY <1>1, <1>2, <1>3, <1>4, <1>5, <2>1, <2>2, <3>1, <3>2
    <2> QED
        BY <2>1, <2>3, <2>4, <2>5
<1>7. CASE Provider
    <2>1. st' = st
        BY <1>7, ProviderCases DEF ProvidersOnly
    <2>2. Top(st.ledger, Len(origin'))
        <3> SUFFICES ASSUME NEW e \in Elems(st.ledger) PROVE e.r <= Len(origin')
            BY DEF Top
        <3>1. e.r \in Nat /\ e.r <= Len(origin)
            BY <1>9
        <3> QED
            BY <1>1, <3>1
    <2>3. ASSUME NEW m \in Elems(receive'), m.t = "start" PROVE Top(st.ledger, m.r)
        <3>1. CASE m \in Elems(receive)
            BY <1>3, <2>3, <3>1
        <3>2. CASE SaysNext(m)
            <4>1. m.r \in Nat /\ Len(origin) <= m.r
                <5>1. /\ prov.active \in {0, Len(origin)} /\ (prov.fresh => prov.active # 0)
                    BY DEF TypeInv, ProviderTypes
                <5> QED
                    BY <1>1, <2>3, <3>2, <5>1 DEF SaysNext, Next1
            <4> SUFFICES ASSUME NEW e \in Elems(st.ledger) PROVE e.r <= m.r
                BY DEF Top
            <4>2. e.r \in Nat /\ e.r <= Len(origin)
                BY <1>9
            <4> QED
                BY <1>1, <4>1, <4>2
        <3> QED
            BY <1>7, <2>3, <3>1, <3>2, ProviderAdds
    <2> QED
        BY <1>3, <2>1, <2>2, <2>3 DEF LedgerInv
<1>8. CASE Handles
    <2>1. UNCHANGED <<prov, origin, receive>> /\ st'.r = st.r
        BY <1>8 DEF Handles, Lives, SameLife, Cuts, NotesCancel, Continues, Acks, Acknowledges
    <2>2. \A k \in Elems(receive) : k.t = "start" => st.r <= k.r
        BY MsgTypes DEF StreamInv, Before
    <2>3. CASE Cuts
        <3>1. Carries(st.ledger, st'.ledger, st.r)
            BY <2>3, LedgerCuts
        <3> QED
            BY <1>1, <1>2, <1>3, <1>4, <2>1, <2>2, <3>1
    <2>4. CASE Lives \/ Continues \/ Acks
        <3>1. st'.ledger = st.ledger
            BY <2>4 DEF Lives, SameLife, Continues, Acks, Acknowledges
        <3> QED
            BY <1>3, <2>1, <3>1 DEF LedgerInv
    <2> QED
        BY <1>8, <2>3, <2>4 DEF Handles
<1> QED
    BY <1>6, <1>7, <1>8, LifeCases

LEMMA LateStep ==
    ASSUME TypeInv, StreamInv, LedgerInv, LateInv, [Next]_vars
    PROVE  LateInv'
<1>0. scenario'.tagged = scenario.tagged
    BY StepProvider DEF SameProvider
<1> SUFFICES ASSUME scenario.tagged PROVE LateInv'
    BY <1>0 DEF LateInv
<1>1. /\ Len(origin) \in Nat /\ Len(origin') \in Nat /\ Len(origin) <= Len(origin')
    BY OriginGrows
<1>2. /\ st.r \in 0..Len(origin) /\ st.ledger \in Seq(Entry)
      /\ \A m \in Elems(receive) : m.t # "close" => m.r \in 1..Len(origin)
    BY LedgerFacts
<1>3. CASE Hears
    <2> DEFINE m == Head(receive)
    <2>1. /\ UNCHANGED <<origin, prov>> /\ m \in Message
          /\ HearsStart(m) \/ HearsEnd(m) \/ HearsClose(m) \/ HearsOther(m)
        BY <1>3, HearCases
    <2>2. /\ Elems(receive) = {m} \cup Elems(receive')
          /\ \A k \in Elems(receive') : Before(scenario.tagged, m, k)
          /\ \A k \in Elems(receive') : Before(scenario.tagged, Msg("start", st.r), k)
        BY <1>3, StreamHears DEF StreamInv
    <2> SUFFICES ASSUME NEW x \in 1..Len(origin), LateIn(receive', x), ~Starting(x)'
                 PROVE  st'.r = x \/ Closed(Status(st'.ledger, x))
        BY <2>1 DEF LateInv, LateIn
    <2>3. LateIn(receive, x)
        BY <2>2 DEF LateIn
    <2>4. (m.t = "start" /\ m.r = x) \/ st.r = x \/ Closed(Status(st.ledger, x))
        BY <2>2, <2>3 DEF LateInv, Starting
    <2>5. CASE HearsStart(m)
        <3>1. /\ Carries(st.ledger, st'.ledger, m.r) /\ st'.r = m.r /\ m.t = "start"
              /\ st.r # 0 => Closed(Status(st'.ledger, st.r))
            BY <1>3, <2>5, LedgerStart DEF HearsStart, Opening
        <3>2. m.r \in 0..Len(origin)
            BY <1>1, <1>2, <2>2, <3>1
        <3>3. \A k \in Elems(receive') : Before(scenario.tagged, Msg("start", m.r), k)
            BY <2>2, <3>1, MsgTypes DEF Before
        <3>4. m.r < x + Retention
            BY <3>2, <3>3, LateNear
        <3> HIDE DEF m
        <3>5. CASE Closed(Status(st.ledger, x))
            BY <1>1, <3>1, <3>4, <3>5 DEF Carries
        <3> QED
            BY <1>1, <2>4, <3>1, <3>5
    <2>6. CASE HearsEnd(m)
        <3>1. /\ Carries(st.ledger, st'.ledger, st.r) /\ Closed(Status(st'.ledger, st.r))
              /\ m.t = "end"
            BY <1>3, <2>6, LedgerEnd DEF HearsEnd, Ending
        <3>2. st.r < x + Retention
            BY <1>2, <2>2, LateNear
        <3>3. CASE Closed(Status(st.ledger, x))
            BY <1>1, <3>1, <3>2, <3>3 DEF Carries
        <3> QED
            BY <2>4, <3>1, <3>3
    <2>7. CASE HearsClose(m) \/ HearsOther(m)
        <3>1. st'.r = st.r /\ st'.ledger = st.ledger
            BY <2>7 DEF HearsClose, HearsOther
        <3>2. CASE m.t = "start" /\ m.r = x
            <4>1. ~Opening(st, m)
                BY <2>7, <3>2 DEF HearsClose, HearsOther
            <4>2. ~BeginsResponse(st, x)
                BY <3>2, <4>1 DEF Opening
            <4> QED
                BY <3>1, <4>2 DEF BeginsResponse, Id
        <3> QED
            BY <2>4, <3>1, <3>2
    <2> QED
        BY <2>1, <2>5, <2>6, <2>7
<1>4. CASE Provider
    <2>1. st' = st
        BY <1>4, ProviderCases DEF ProvidersOnly
    <2>2. /\ prov.active \in {0, Len(origin)} /\ prov.old \in 0..Len(origin)
        BY DEF TypeInv, ProviderTypes
    <2> SUFFICES ASSUME NEW x \in 1..Len(origin'), LateIn(receive, x)'
                 PROVE  Starting(x)' \/ st.r = x \/ Closed(Status(st.ledger, x))
        BY <2>1 DEF LateInv
    <2>3. CASE x = Next1
        <3>1. Len(origin') = Next1
            BY <1>1, <1>4, <2>3, ProviderAdds DEF Next1
        <3>2. Msg("start", Next1) \in Elems(receive')
            BY <1>4, <3>1, ProviderAdds
        <3> QED
            BY <2>3, <3>2, MsgTypes DEF Starting
    <2>4. CASE x # Next1
        <3>1. x \in 1..Len(origin)
            BY <1>1, <1>4, <2>4, ProviderAdds DEF Next1
        <3>2. LateIn(receive, x)
            <4>1. CASE x = prov'.active \/ x = prov'.old
                <5>1. prov'.active \in {prov.active, 0, Next1} /\ prov'.old \in {prov.old, 0, prov.active}
                    BY <1>4, ProviderAdds
                <5> QED
                    BY <2>4, <3>1, <4>1, <5>1 DEF LateIn
            <4>2. CASE \E m \in Elems(receive') : m.t \in {"delta", "end"} /\ m.r = x
                <5>1. PICK m \in Elems(receive') : m.t \in {"delta", "end"} /\ m.r = x
                    BY <4>2
                <5>2. m \in Elems(receive) \/ SaysNext(m)
                    BY <1>4, ProviderAdds
                <5> QED
                    BY <3>1, <5>1, <5>2 DEF SaysNext, LateIn
            <4> QED
                BY <4>1, <4>2 DEF LateIn
        <3>3. Starting(x) => Starting(x)'
            BY <1>4, ProviderAdds DEF Starting
        <3> QED
            BY <3>1, <3>2, <3>3 DEF LateInv
    <2> QED
        BY <2>3, <2>4
<1>5. CASE Handles
    <2>1. UNCHANGED <<prov, origin, receive>> /\ st'.r = st.r
        BY <1>5 DEF Handles, Lives, SameLife, Cuts, NotesCancel, Continues, Acks, Acknowledges
    <2> SUFFICES ASSUME NEW x \in 1..Len(origin), LateIn(receive, x), ~Starting(x), st.r # x
                 PROVE  Closed(Status(st'.ledger, x))
        BY <2>1 DEF LateInv, LateIn, Starting
    <2>2. Closed(Status(st.ledger, x))
        BY DEF LateInv
    <2>3. CASE Cuts
        <3>1. Carries(st.ledger, st'.ledger, st.r)
            BY <2>3, LedgerCuts
        <3>2. st.r < x + Retention
            BY <1>2, LateNear DEF StreamInv
        <3> QED
            BY <1>1, <2>2, <3>1, <3>2 DEF Carries
    <2>4. CASE Lives \/ Continues \/ Acks
        <3>1. st'.ledger = st.ledger
            BY <2>4 DEF Lives, SameLife, Continues, Acks, Acknowledges
        <3> QED
            BY <2>2, <3>1
    <2> QED
        BY <1>5, <2>3, <2>4 DEF Handles
<1> QED
    BY <1>3, <1>4, <1>5, LifeCases

(* The ledger knows the current response once its cancel is sent.          *)
KnownInv ==
    scenario.tagged /\ st.r \in cut => Status(st.ledger, st.r) # "unknown"

LEMMA KnownStep ==
    ASSUME TypeInv, StreamInv, CutInv, LedgerInv, KnownInv, [Next]_vars
    PROVE  KnownInv'
<1>0. scenario'.tagged = scenario.tagged
    BY StepProvider DEF SameProvider
<1> SUFFICES ASSUME scenario.tagged, st'.r \in cut'
             PROVE  Status(st'.ledger, st'.r) # "unknown"
    BY <1>0 DEF KnownInv
<1>1. /\ st.r \in 0..Len(origin) /\ \A r \in cut : r \in 1..Len(origin)
    BY LedgerFacts DEF CutInv
<1>2. CASE Hears
    <2> DEFINE m == Head(receive)
    <2>1. /\ UNCHANGED <<origin, prov, cut>>
          /\ HearsStart(m) \/ HearsEnd(m) \/ HearsClose(m) \/ HearsOther(m)
        BY <1>2, HearCases
    <2>2. CASE HearsStart(m)
        <3>1. \A r \in 1..Len(origin) : (r = st.r \/ Passed(r)) => r # st'.r
            BY <1>2, <2>2, PassedStart
        <3>2. st'.r \in cut /\ (st'.r = st.r \/ Passed(st'.r))
            BY <2>1 DEF CutInv
        <3> QED
            BY <1>1, <3>1, <3>2
    <2>3. CASE HearsEnd(m)
        BY <1>1, <2>1, <2>3 DEF HearsEnd
    <2>4. CASE HearsClose(m) \/ HearsOther(m)
        BY <2>1, <2>4 DEF HearsClose, HearsOther, KnownInv
    <2> QED
        BY <2>1, <2>2, <2>3, <2>4
<1>3. CASE Provider
    <2>1. UNCHANGED <<st, cut>>
        BY <1>3, ProviderCases DEF ProvidersOnly
    <2> QED
        BY <2>1 DEF KnownInv
<1>4. CASE Handles
    <2>1. CASE Cuts
        <3>1. st'.r = st.r /\ cut' = cut \cup ({st.r} \ {0})
            BY <2>1 DEF Cuts, NotesCancel
        <3>2. st.r # 0
            BY <1>1, <3>1
        <3> QED
            BY <2>1, <3>1, <3>2, LedgerCuts
    <2>2. CASE Lives \/ Continues \/ Acks
        BY <2>2 DEF Lives, SameLife, Continues, Acks, Acknowledges, KnownInv
    <2> QED
        BY <1>4, <2>1, <2>2 DEF Handles
<1> QED
    BY <1>2, <1>3, <1>4, LifeCases

(* Output that crosses to the customer is not of a cancelled response.     *)
LEMMA LeakStep ==
    ASSUME TypeInv, StreamInv, CutInv, LateInv, KnownInv, NoOutputAfterCancel, [Next]_vars
    PROVE  NoOutputAfterCancel'
<1>1. CASE Hears
    <2> DEFINE m == Head(receive)
    <2>1. /\ m \in Elems(receive)
          /\ IF m.t = "delta" /\ ~StaleCustomerOutput(st, m.r)
             THEN leaked' = leaked \cup ({m.r} \cap cut) ELSE leaked' = leaked
        BY <1>1, HearCases
    <2> HIDE DEF m
    <2>2. ASSUME m.t = "delta", ~StaleCustomerOutput(st, m.r), m.r \in cut
          PROVE  FALSE
        <3>1. /\ m.r \in 1..Len(origin)
              /\ IF st.r = m.r THEN st.phase = "cancelling" ELSE Passed(m.r)
            BY <2>2 DEF CutInv
        <3>2. CASE ~scenario.tagged
            <4>1. st.phase # "cancelling"
                BY <2>2, <3>2 DEF StaleCustomerOutput, CancelSent
            <4>2. Passed(m.r)
                BY <3>1, <4>1
            <4>3. m.r > m.r
                BY <2>1, <2>2, <3>2, <4>2 DEF Passed
            <4> QED
                BY <3>1, <4>3
        <3>3. CASE scenario.tagged
            <4>1. Status(st.ledger, m.r) = "unknown" /\ (st.r = 0 \/ st.r = m.r)
                BY <2>2, <3>3 DEF StaleCustomerOutput
            <4>2. st.r # m.r
                BY <2>2, <3>3, <4>1 DEF KnownInv
            <4>3. LateIn(receive, m.r)
                BY <2>1, <2>2 DEF LateIn
            <4>4. ~Closed(Status(st.ledger, m.r))
                BY <4>1 DEF Closed
            <4>5. PICK k \in Elems(receive) : k.t = "start" /\ k.r = m.r
                BY <3>1, <3>3, <4>2, <4>3, <4>4 DEF LateInv, Starting
            <4>6. k.r > m.r
                BY <3>1, <4>2, <4>5 DEF Passed
            <4> QED
                BY <3>1, <4>5, <4>6
        <3> QED
            BY <3>2, <3>3
    <2> QED
        BY <2>1, <2>2 DEF NoOutputAfterCancel
<1>2. CASE Provider
    BY <1>2, ProviderCases DEF ProvidersOnly, NoOutputAfterCancel
<1>3. CASE Handles
    BY <1>3 DEF Handles, NoOutputAfterCancel
<1> QED
    BY <1>1, <1>2, <1>3, LifeCases

LEMMA LedgerHolds ==
    Spec => [](LedgerInv /\ LateInv /\ KnownInv /\ NoOutputAfterCancel)
<1>1. Init => LedgerInv /\ LateInv /\ KnownInv /\ NoOutputAfterCancel
    <2> SUFFICES ASSUME Init PROVE LedgerInv /\ LateInv /\ KnownInv /\ NoOutputAfterCancel
        OBVIOUS
    <2>1. /\ receive = <<>> /\ Elems(receive) = {} /\ origin = <<>> /\ Len(origin) = 0
          /\ st.ledger = <<>> /\ Elems(st.ledger) = {} /\ Len(st.ledger) = 0
          /\ cut = {} /\ leaked = {}
        BY ElemsSmall DEF Init
    <2> QED
        BY <2>1 DEF LedgerInv, LateInv, KnownInv, NoOutputAfterCancel, Sorted, Top
<1>2. TypeInv /\ StreamInv /\ CutInv /\ LedgerInv /\ LateInv /\ KnownInv
      /\ NoOutputAfterCancel /\ [Next]_vars
      => (LedgerInv /\ LateInv /\ KnownInv /\ NoOutputAfterCancel)'
    BY LedgerStep, LateStep, KnownStep, LeakStep
<1> QED
    BY <1>1, <1>2, TypesHold, StreamHolds, CutHolds, PTL DEF Spec

(* After the cancel of a response was accepted, nothing of its output      *)
(* crosses to the customer (StaleCustomerOutput), although the ledger      *)
(* forgets all but the last Retention response IDs: whatever may still     *)
(* arrive late is closed in it or its start is still to come.              *)
THEOREM CancelledSilent == Spec => []NoOutputAfterCancel
<1> QED
    BY LedgerHolds, PTL

-----------------------------------------------------------------------------
(* Responses that are under way                                            *)

(* A response that starts, is current or may start again is not closed.    *)
MayStart(x) == Starting(x) \/ (st.r = x /\ x # 0) \/ (prov.fresh /\ prov.active = x)
OpenInv ==
    scenario.tagged =>
        \A x \in 1..Len(origin) : MayStart(x) => ~Closed(Status(st.ledger, x))

LEMMA OpenHears ==
    ASSUME TypeInv, StreamInv, LedgerInv, LateInv, OpenInv, scenario.tagged, Hears
    PROVE  OpenInv'
<1> DEFINE m == Head(receive)
<1>1. /\ UNCHANGED <<scenario, prov, origin>> /\ m \in Message
      /\ HearsStart(m) \/ HearsEnd(m) \/ HearsClose(m) \/ HearsOther(m)
    BY HearCases
<1>2. /\ m \in Elems(receive) /\ Elems(receive) = {m} \cup Elems(receive')
      /\ \A k \in Elems(receive') : Before(scenario.tagged, m, k)
    BY StreamHears
<1>3. Before(scenario.tagged, Msg("start", st.r), m) /\ Sent(m)
    BY <1>2 DEF StreamInv
<1>4. /\ st.r \in 0..Len(origin) /\ Len(origin) \in Nat
      /\ \A k \in Elems(receive) : k.t # "close" => k.r \in 1..Len(origin)
    BY LedgerFacts
<1>5. prov.active \in {0, Len(origin)} /\ (prov.fresh => prov.active # 0)
    BY DEF TypeInv, ProviderTypes
<1>6. \A x \in 1..Len(origin) : MayStart(x) => ~Closed(Status(st.ledger, x))
    BY DEF OpenInv
<1>7. CASE HearsStart(m)
    <2>1. ClosesOnly(st.ledger, st'.ledger, st.r)
        BY <1>7, LedgerStart
    <2>2. m.t = "start" /\ st'.r = m.r /\ st.r # m.r
        BY <1>7, PassedStart DEF HearsStart, Opening
    <2> HIDE DEF m
    <2>3. st.r < m.r /\ m.r \in 1..Len(origin)
        BY <1>2, <1>3, <1>4, <2>2, MsgTypes DEF Before
    <2>4. ASSUME NEW x \in 1..Len(origin), MayStart(x)'
          PROVE  MayStart(x) /\ m.r <= x
        <3>1. CASE Starting(x)'
            <4>1. PICK k \in Elems(receive') : k.t = "start" /\ k.r = x
                BY <3>1 DEF Starting
            <4> QED
                BY <1>2, <2>2, <4>1 DEF Before, MayStart, Starting
        <3>2. CASE st'.r = x
            <4>1. m.r = x /\ m.r <= x
                BY <1>4, <2>2, <2>3, <3>2
            <4>2. Starting(x)
                BY <1>2, <2>2, <4>1 DEF Starting
            <4> QED
                BY <4>1, <4>2 DEF MayStart
        <3>3. CASE prov.fresh /\ prov.active = x
            BY <1>4, <1>5, <2>3, <3>3 DEF MayStart
        <3> QED
            BY <1>1, <2>4, <3>1, <3>2, <3>3 DEF MayStart
    <2>5. ASSUME NEW x \in 1..Len(origin), MayStart(x)' PROVE ~Closed(Status(st'.ledger, x))
        <3>1. MayStart(x) /\ x # st.r
            BY <1>4, <2>3, <2>4, <2>5
        <3> QED
            BY <1>6, <2>1, <3>1 DEF ClosesOnly
    <2> QED
        BY <1>1, <2>5 DEF OpenInv
<1>8. CASE HearsEnd(m)
    <2>1. /\ ClosesOnly(st.ledger, st'.ledger, st.r) /\ m.r = st.r /\ st'.r = 0 /\ m.t = "end"
        BY <1>8, LedgerEnd DEF HearsEnd, Ending
    <2> HIDE DEF m
    <2>2. ASSUME NEW x \in 1..Len(origin), MayStart(x)'
          PROVE  MayStart(x) /\ x # st.r
        <3>1. CASE Starting(x)'
            <4>1. PICK k \in Elems(receive') : k.t = "start" /\ k.r = x
                BY <3>1 DEF Starting
            <4>2. m.r < x
                BY <1>2, <2>1, <4>1 DEF Before
            <4> QED
                BY <1>2, <1>4, <2>1, <4>1, <4>2 DEF MayStart, Starting
        <3>3. CASE prov.fresh /\ prov.active = x
            BY <1>3, <2>1, <3>3 DEF MayStart, Sent
        <3> QED
            BY <1>1, <2>1, <2>2, <3>1, <3>3 DEF MayStart
    <2>5. ASSUME NEW x \in 1..Len(origin), MayStart(x)' PROVE ~Closed(Status(st'.ledger, x))
        BY <1>6, <2>1, <2>2, <2>5 DEF ClosesOnly
    <2> QED
        BY <1>1, <2>5 DEF OpenInv
<1>9. CASE HearsClose(m) \/ HearsOther(m)
    <2>1. st'.r = st.r /\ st'.ledger = st.ledger
        BY <1>9 DEF HearsClose, HearsOther
    <2> HIDE DEF m
    <2>2. ASSUME NEW x \in 1..Len(origin), MayStart(x)' PROVE MayStart(x)
        BY <1>1, <1>2, <2>1, <2>2 DEF MayStart, Starting
    <2> QED
        BY <1>1, <1>6, <2>1, <2>2 DEF OpenInv
<1> QED
    BY <1>1, <1>7, <1>8, <1>9

LEMMA OpenStep ==
    ASSUME TypeInv, StreamInv, LedgerInv, LateInv, OpenInv, [Next]_vars
    PROVE  OpenInv'
<1>0. scenario'.tagged = scenario.tagged
    BY StepProvider DEF SameProvider
<1> SUFFICES ASSUME scenario.tagged PROVE OpenInv'
    BY <1>0 DEF OpenInv
<1>1. /\ st.r \in 0..Len(origin) /\ Len(origin) \in Nat /\ st.ledger \in Seq(Entry)
      /\ \A k \in Elems(receive) : k.t # "close" => k.r \in 1..Len(origin)
    BY LedgerFacts
<1>2. \A x \in 1..Len(origin) : MayStart(x) => ~Closed(Status(st.ledger, x))
    BY DEF OpenInv
<1>3. CASE Hears
    BY <1>3, OpenHears
<1>4. CASE Provider
    <2>1. st' = st
        BY <1>4, ProviderCases DEF ProvidersOnly
    <2>2. /\ \A m \in Elems(receive') : m \in Elems(receive) \/ (SaysNext(m) /\ m \in Message)
          /\ prov'.fresh => prov'.active = Next1 \/ (prov.fresh /\ prov'.active = prov.active)
          /\ Len(origin') \in {Len(origin), Next1}
        BY <1>4, ProviderAdds
    <2>3. ASSUME NEW x \in 1..Len(origin'), MayStart(x)'
          PROVE  x = Next1 \/ (x \in 1..Len(origin) /\ MayStart(x))
        <3>1. x = Next1 \/ x \in 1..Len(origin)
            BY <1>1, <2>2 DEF Next1
        <3>2. CASE Starting(x)'
            <4>1. PICK k \in Elems(receive') : k.t = "start" /\ k.r = x
                BY <3>2 DEF Starting
            <4> QED
                BY <2>2, <3>1, <4>1 DEF SaysNext, MayStart, Starting
        <3>3. CASE st.r = x /\ x # 0
            BY <3>1, <3>3 DEF MayStart
        <3>4. CASE prov'.fresh /\ prov'.active = x
            BY <2>2, <3>1, <3>4 DEF MayStart
        <3> QED
            BY <2>1, <2>3, <3>2, <3>3, <3>4 DEF MayStart
    <2>4. ~Closed(Status(st.ledger, Next1))
        <3>1. \A i \in 1..Len(st.ledger) : st.ledger[i].r # Next1
            <4> SUFFICES ASSUME NEW i \in 1..Len(st.ledger) PROVE st.ledger[i].r # Next1
                OBVIOUS
            <4>1. st.ledger[i] \in Elems(st.ledger) /\ st.ledger[i] \in Entry
                BY <1>1, ElemsType
            <4>2. st.ledger[i].r \in Nat /\ st.ledger[i].r <= Len(origin)
                BY <4>1 DEF LedgerInv, Top, Entry
            <4> QED
                BY <1>1, <4>2 DEF Next1
        <3>2. Status(st.ledger, Next1) = "unknown"
            BY <1>1, <3>1, StatusNone
        <3> QED
            BY <3>2 DEF Closed
    <2> QED
        BY <1>2, <2>1, <2>3, <2>4 DEF OpenInv
<1>5. CASE Handles
    <2>1. UNCHANGED <<prov, origin, receive>> /\ st'.r = st.r
        BY <1>5 DEF Handles, Lives, SameLife, Cuts, NotesCancel, Continues, Acks, Acknowledges
    <2>2. \A x : Closed(Status(st'.ledger, x)) => Closed(Status(st.ledger, x))
        <3>1. CASE Cuts
            BY <3>1, LedgerCuts
        <3>2. CASE Lives \/ Continues \/ Acks
            BY <3>2 DEF Lives, SameLife, Continues, Acks, Acknowledges
        <3> QED
            BY <1>5, <3>1, <3>2 DEF Handles
    <2>3. \A x \in 1..Len(origin) : MayStart(x)' => MayStart(x)
        BY <2>1 DEF MayStart, Starting
    <2> QED
        BY <1>2, <2>1, <2>2, <2>3 DEF OpenInv
<1> QED
    BY <1>3, <1>4, <1>5, LifeCases

Comes(t, x) == \E m \in Elems(receive) : m.t = t /\ m.r = x
Started(x) == Comes("start", x) \/ (st.r = x /\ x # 0)

(* The provider plays x, or has sent its end or the start of a response    *)
(* that replaced it.                                                       *)
WillEnd(x) ==
    \/ prov.active = x \/ Comes("end", x)
    \/ scenario.tagged /\ \E m \in Elems(receive) : m.t = "start" /\ m.r > x

(* A rejected request's message follows the start of the playing response. *)
Announced(q, r) ==
    \A j \in 1..Len(q) : q[j].t = "reject" =>
        q[j].r = r \/ \E i \in 1..(j - 1) : q[i].t = "start" /\ q[i].r = q[j].r

OngoingInv ==
    /\ \A x \in 1..Len(origin) : Started(x) => WillEnd(x)
    /\ prov.active # 0 => Started(prov.active)
    /\ ~scenario.tagged => \A x, y \in 1..Len(origin) :
            Started(x) /\ Comes("start", y) /\ x < y => Comes("end", x)
    /\ Announced(receive, st.r)

(* A start that opens nothing is a second one of the current response.     *)
LEMMA SecondStart ==
    ASSUME TypeInv, StreamInv, OpenInv, OngoingInv, Hears, Head(receive).t = "start",
           ~Opening(st, Head(receive))
    PROVE  st.r = Head(receive).r
<1> DEFINE m == Head(receive)
<1>1. /\ m \in Elems(receive) /\ Elems(receive) = {m} \cup Elems(receive')
      /\ \A k \in Elems(receive') : Before(scenario.tagged, m, k)
    BY StreamHears
<1>2. /\ st.r \in 0..Len(origin) /\ Len(origin) \in Nat
      /\ \A k \in Elems(receive) : k.t # "close" => k.r \in 1..Len(origin)
    BY LedgerFacts
<1>3. m.r \in 1..Len(origin) /\ m.t = "start"
    BY <1>1, <1>2
<1>4. (InFlight(st) <=> st.r # 0)
    BY RunnerFacts
<1>5. ~BeginsResponse(st, m.r)
    BY DEF Opening
<1> HIDE DEF m
<1>6. ~(scenario.tagged /\ Closed(Status(st.ledger, m.r)))
    BY <1>1, <1>3 DEF OpenInv, MayStart, Starting
<1>7. InFlight(st) /\ Id(st.r) = Id(m.r)
    BY <1>5, <1>6 DEF BeginsResponse
<1>8. CASE scenario.tagged
    BY <1>7, <1>8 DEF Id, m
<1>9. CASE ~scenario.tagged
    <2>1. st.r \in 1..Len(origin) /\ Started(st.r) /\ Comes("start", m.r)
        BY <1>1, <1>2, <1>3, <1>4, <1>7 DEF Started, Comes
    <2>2. st.r <= m.r
        <3>1. Before(scenario.tagged, Msg("start", st.r), m)
            BY <1>1 DEF StreamInv
        <3> QED
            BY <1>3, <3>1, MsgTypes DEF Before
    <2>3. ~(st.r < m.r)
        <3> SUFFICES ASSUME st.r < m.r PROVE FALSE
            OBVIOUS
        <3>1. Comes("end", st.r)
            BY <1>3, <1>9, <2>1 DEF OngoingInv
        <3>2. PICK k \in Elems(receive) : k.t = "end" /\ k.r = st.r
            BY <3>1 DEF Comes
        <3>3. Before(scenario.tagged, m, k)
            BY <1>1, <1>3, <3>2
        <3>4. m.r <= st.r
            BY <1>3, <1>9, <3>2, <3>3 DEF Before
        <3> QED
            BY <1>2, <1>3, <3>4
    <2> QED
        BY <1>2, <1>3, <2>2, <2>3 DEF m
<1> QED
    BY <1>8, <1>9

(* The runner owns the end of its current response.                        *)
LEMMA OwnEnd ==
    ASSUME TypeInv, StreamInv, OpenInv, Hears, Head(receive).t = "end",
           st.r = Head(receive).r
    PROVE  Ending(st, Head(receive))
<1> DEFINE m == Head(receive)
<1>1. m \in Elems(receive) /\ m.t = "end" /\ m.r = st.r
    BY StreamHears
<1>2. m.r \in 1..Len(origin) /\ st.r \in 1..Len(origin) /\ InFlight(st)
    BY <1>1, LedgerFacts, RunnerFacts
<1> HIDE DEF m
<1>3. scenario.tagged => ~Closed(Status(st.ledger, m.r))
    BY <1>1, <1>2 DEF OpenInv, MayStart
<1> QED
    BY <1>1, <1>2, <1>3 DEF Ending, OwnsResponseEnd, m

(* An end that is owned is the current response's or a later one's.        *)
LEMMA EndBehind ==
    ASSUME TypeInv, StreamInv, LedgerInv, LateInv, Hears, HearsEnd(Head(receive))
    PROVE  st.r <= Head(receive).r /\ Head(receive).r # prov.active
<1> DEFINE m == Head(receive)
<1>1. m \in Elems(receive) /\ m.t = "end"
    BY StreamHears DEF HearsEnd, Ending
<1>2. Before(scenario.tagged, Msg("start", st.r), m) /\ Sent(m)
    BY <1>1 DEF StreamInv
<1>3. /\ st.r \in 0..Len(origin) /\ Len(origin) \in Nat /\ m.r \in 1..Len(origin)
    BY <1>1, LedgerFacts
<1>4. CASE scenario.tagged
    <2>1. m.r = st.r
        BY <1>4, LedgerEnd
    <2> QED
        BY <1>1, <1>2, <1>3, <2>1 DEF Sent
<1>5. CASE ~scenario.tagged
    BY <1>1, <1>2, <1>5, MsgTypes DEF Before, Sent
<1> QED
    BY <1>4, <1>5

(* What is still started after a message was behind it.                    *)
LEMMA StillStarted ==
    ASSUME TypeInv, StreamInv, OpenInv, OngoingInv, Hears,
           NEW x \in 1..Len(origin), Started(x)'
    PROVE  /\ Started(x)
           /\ Head(receive).t = "start" => Head(receive).r <= x
           /\ Head(receive).t = "end" => Head(receive).r # x
<1> DEFINE m == Head(receive)
<1>1. /\ m \in Elems(receive) /\ Elems(receive) = {m} \cup Elems(receive')
      /\ \A k \in Elems(receive') : Before(scenario.tagged, m, k)
    BY StreamHears
<1>2. /\ st.r \in 0..Len(origin) /\ Len(origin) \in Nat
      /\ \A k \in Elems(receive) : k.t # "close" => k.r \in 1..Len(origin)
    BY LedgerFacts
<1>3. HearsStart(m) \/ HearsEnd(m) \/ HearsClose(m) \/ HearsOther(m)
    BY HearCases
<1>4. m.t = "start" /\ ~Opening(st, m) => st.r = m.r
    BY SecondStart
<1>5. m.t = "end" /\ st.r = m.r => Ending(st, m)
    BY OwnEnd
<1> HIDE DEF m
<1>6. CASE Comes("start", x)'
    <2>1. PICK k \in Elems(receive') : k.t = "start" /\ k.r = x
        BY <1>6 DEF Comes
    <2>2. Started(x)
        BY <1>1, <2>1 DEF Started, Comes
    <2>3. /\ m.t = "start" => m.r <= x
          /\ m.t = "end" => m.r < x
        BY <1>1, <2>1 DEF Before
    <2>4. m.t = "end" => m.r # x
        BY <1>1, <1>2, <2>3
    <2> QED
        BY <2>2, <2>3, <2>4 DEF m
<1>7. CASE st'.r = x /\ x # 0
    <2>1. CASE HearsStart(m)
        <3>1. m.t = "start" /\ x = m.r /\ x <= x
            BY <1>7, <2>1 DEF HearsStart, Opening
        <3>2. Comes("start", x)
            BY <1>1, <3>1 DEF Comes
        <3> QED
            BY <3>1, <3>2 DEF Started, m
    <2>2. CASE HearsEnd(m)
        BY <1>7, <2>2 DEF HearsEnd
    <2>3. CASE HearsClose(m) \/ HearsOther(m)
        <3>1. st.r = x /\ ~Opening(st, m) /\ (m.t = "end" => ~Ending(st, m))
            BY <1>7, <2>3 DEF HearsClose, HearsOther, Opening
        <3>2. m.t = "start" => m.r <= x
            BY <1>2, <1>4, <3>1
        <3>3. m.t = "end" => m.r # x
            BY <1>5, <3>1
        <3> QED
            BY <1>7, <3>1, <3>2, <3>3 DEF Started, m
    <2> QED
        BY <1>3, <2>1, <2>2, <2>3
<1> QED
    BY <1>6, <1>7 DEF Started

LEMMA AnnouncedAppend ==
    ASSUME NEW q \in Seq(Message), NEW k \in Message, NEW r, Announced(q, r),
           k.t = "reject" => k.r = r \/ \E m \in Elems(q) : m.t = "start" /\ m.r = k.r
    PROVE  Announced(Append(q, k), r)
<1> DEFINE p == Append(q, k)
<1>1. /\ p \in Seq(Message) /\ Len(p) = Len(q) + 1 /\ Len(q) \in Nat
      /\ (\A i \in 1..Len(q) : p[i] = q[i]) /\ p[Len(q) + 1] = k
    BY AppendType
<1> HIDE DEF p
<1>2. ASSUME NEW j \in 1..Len(p), p[j].t = "reject"
      PROVE  p[j].r = r \/ \E i \in 1..(j - 1) : p[i].t = "start" /\ p[i].r = p[j].r
    <2>1. CASE j \in 1..Len(q)
        <3>1. p[j] = q[j]
            BY <1>1, <2>1
        <3>2. q[j].r = r \/ \E i \in 1..(j - 1) : q[i].t = "start" /\ q[i].r = q[j].r
            BY <1>2, <2>1, <3>1 DEF Announced
        <3>3. \A i \in 1..(j - 1) : p[i] = q[i]
            BY <1>1, <2>1
        <3> QED
            BY <3>1, <3>2, <3>3
    <2>2. CASE j = Len(q) + 1
        <3>1. p[j] = k /\ k.t = "reject"
            BY <1>1, <1>2, <2>2
        <3>2. CASE k.r = r
            BY <3>1, <3>2
        <3>3. CASE \E m \in Elems(q) : m.t = "start" /\ m.r = k.r
            <4>1. PICK m \in Elems(q) : m.t = "start" /\ m.r = k.r
                BY <3>3
            <4>2. PICK i \in 1..Len(q) : q[i] = m
                BY <4>1 DEF Elems
            <4>3. i \in 1..(j - 1) /\ p[i] = m
                BY <1>1, <2>2, <4>2
            <4> QED
                BY <3>1, <4>1, <4>3
        <3> QED
            BY <3>1, <3>2, <3>3
    <2> QED
        BY <1>1, <2>1, <2>2
<1> QED
    BY <1>2 DEF Announced, p

LEMMA AnnouncedTail ==
    ASSUME NEW q \in Seq(Message), q # <<>>, NEW r, NEW u, Announced(q, r),
           \A k \in Elems(Tail(q)) : k.t = "reject" /\ k.r = r => u = r,
           \A k \in Elems(Tail(q)) :
               k.t = "reject" /\ Head(q).t = "start" /\ Head(q).r = k.r => u = k.r
    PROVE  Announced(Tail(q), u)
<1> DEFINE p == Tail(q)
           h == Head(q)
<1>1. /\ p \in Seq(Message) /\ Len(q) \in Nat /\ Len(q) > 0 /\ Len(p) = Len(q) - 1
      /\ (\A i \in 1..Len(p) : p[i] = q[i + 1]) /\ h = q[1]
    BY TailType
<1>2. \A j \in 1..Len(p) : p[j] \in Elems(p)
    BY <1>1, ElemsType
<1>3. /\ \A k \in Elems(p) : k.t = "reject" /\ k.r = r => u = r
      /\ \A k \in Elems(p) : k.t = "reject" /\ h.t = "start" /\ h.r = k.r => u = k.r
    OBVIOUS
<1> HIDE DEF p, h
<1>4. ASSUME NEW j \in 1..Len(p), p[j].t = "reject"
      PROVE  p[j].r = u \/ \E i \in 1..(j - 1) : p[i].t = "start" /\ p[i].r = p[j].r
    <2>1. p[j] = q[j + 1] /\ j + 1 \in 1..Len(q) /\ j \in Nat /\ p[j] \in Elems(p)
        BY <1>1, <1>2
    <2>2. q[j + 1].r = r \/ \E i \in 1..((j + 1) - 1) : q[i].t = "start" /\ q[i].r = q[j + 1].r
        BY <1>4, <2>1 DEF Announced
    <2>3. CASE q[j + 1].r = r
        BY <1>3, <1>4, <2>1, <2>3
    <2>4. CASE \E i \in 1..((j + 1) - 1) : q[i].t = "start" /\ q[i].r = q[j + 1].r
        <3>1. PICK i \in 1..((j + 1) - 1) : q[i].t = "start" /\ q[i].r = q[j + 1].r
            BY <2>4
        <3>2. CASE i = 1
            BY <1>1, <1>3, <1>4, <2>1, <3>1, <3>2
        <3>3. CASE i # 1
            <4>1. i - 1 \in 1..(j - 1) /\ i - 1 \in 1..Len(p) /\ (i - 1) + 1 = i
                BY <1>1, <2>1, <3>1, <3>3
            <4>2. p[i - 1] = q[i]
                BY <1>1, <4>1
            <4> QED
                BY <2>1, <3>1, <4>1, <4>2
        <3> QED
            BY <3>2, <3>3
    <2> QED
        BY <2>2, <2>3, <2>4
<1> QED
    BY <1>4 DEF Announced, p

LEMMA OngoingHears ==
    ASSUME TypeInv, StreamInv, LedgerInv, LateInv, OpenInv, OngoingInv, Hears
    PROVE  OngoingInv'
<1> DEFINE m == Head(receive)
<1>1. /\ m \in Elems(receive) /\ Elems(receive) = {m} \cup Elems(receive')
      /\ \A k \in Elems(receive') : Before(scenario.tagged, m, k)
    BY StreamHears
<1>2. /\ st.r \in 0..Len(origin) /\ Len(origin) \in Nat
      /\ \A k \in Elems(receive) : k.t # "close" => k.r \in 1..Len(origin)
    BY LedgerFacts
<1>3. /\ HearsStart(m) \/ HearsEnd(m) \/ HearsClose(m) \/ HearsOther(m)
      /\ UNCHANGED <<scenario, prov, origin>> /\ receive # <<>> /\ receive' = Tail(receive)
      /\ m \in Message
    BY HearCases
<1>4. \A x \in 1..Len(origin) :
         Started(x)' => /\ Started(x)
                        /\ m.t = "start" => m.r <= x
                        /\ m.t = "end" => m.r # x
    BY StillStarted
<1>5. /\ \A k \in Elems(receive) : Before(scenario.tagged, Msg("start", st.r), k)
      /\ Sent(m) /\ receive \in Seq(Message)
    BY <1>1 DEF StreamInv, TypeInv, ProviderTypes
<1>6. prov.active \in {0, Len(origin)}
    BY DEF TypeInv, ProviderTypes
<1>7. /\ \A x \in 1..Len(origin) : Started(x) => WillEnd(x)
      /\ prov.active # 0 => Started(prov.active)
      /\ ~scenario.tagged => \A x, y \in 1..Len(origin) :
              Started(x) /\ Comes("start", y) /\ x < y => Comes("end", x)
      /\ Announced(receive, st.r)
    BY DEF OngoingInv
<1>8. m.t = "start" => IF HearsStart(m) THEN st'.r = m.r /\ st.r <= m.r ELSE st.r = m.r /\ st'.r = st.r
    <2>1. m.t = "start" /\ ~Opening(st, m) => st.r = m.r
        BY SecondStart
    <2>2. m.t = "start" => st.r <= m.r
        BY <1>1, <1>5, MsgTypes DEF Before
    <2> QED
        BY <1>3, <2>1, <2>2 DEF HearsStart, HearsEnd, HearsClose, HearsOther, Opening, Ending
<1>9. HearsEnd(m) => m.t = "end" /\ st.r <= m.r /\ m.r # prov.active /\ st'.r = 0
    BY EndBehind DEF HearsEnd, Ending
<1>10. m.t # "start" /\ ~HearsEnd(m) => st'.r = st.r
    BY <1>3 DEF HearsStart, HearsClose, HearsOther, Opening
<1> HIDE DEF m
<1>11. ASSUME NEW x \in 1..Len(origin), Started(x)', Comes("end", x) PROVE Comes("end", x)'
    <2>1. PICK k \in Elems(receive) : k.t = "end" /\ k.r = x
        BY <1>11 DEF Comes
    <2>2. k # m
        BY <1>4, <1>11, <2>1
    <2> QED
        BY <1>1, <2>1, <2>2 DEF Comes
<1>12. ASSUME NEW x \in 1..Len(origin), Started(x)' PROVE WillEnd(x)'
    <2>1. WillEnd(x)
        BY <1>4, <1>7, <1>12
    <2>2. CASE scenario.tagged /\ \E k \in Elems(receive) : k.t = "start" /\ k.r > x
        <3>1. PICK k \in Elems(receive) : k.t = "start" /\ k.r > x
            BY <2>2
        <3>2. k # m
            BY <1>1, <1>2, <1>4, <1>12, <3>1
        <3>3. k \in Elems(receive')
            BY <1>1, <3>2
        <3> QED
            BY <1>3, <2>2, <3>1, <3>3 DEF WillEnd
    <2>3. CASE Comes("end", x)
        BY <1>11, <1>12, <2>3 DEF WillEnd
    <2>4. CASE prov.active = x
        BY <1>3, <2>4 DEF WillEnd
    <2> QED
        BY <2>1, <2>2, <2>3, <2>4 DEF WillEnd
<1>13. ASSUME NEW x \in 1..Len(origin), x = prov.active PROVE Started(x)'
    <2>1. x = Len(origin) /\ x \in 1..Len(origin) /\ Started(x) /\ x # 0
        BY <1>2, <1>6, <1>7, <1>13
    <2>2. CASE Comes("start", x)
        <3>1. PICK k \in Elems(receive) : k.t = "start" /\ k.r = x
            BY <2>2 DEF Comes
        <3>2. CASE k = m
            BY <1>2, <1>8, <2>1, <3>1, <3>2 DEF Started
        <3>3. CASE k # m
            BY <1>1, <3>1, <3>3 DEF Started, Comes
        <3> QED
            BY <3>2, <3>3
    <2>3. CASE st.r = x
        <3>1. m.t = "start" => m.r \in 1..Len(origin)
            BY <1>1, <1>2
        <3>2. CASE m.t = "start"
            BY <1>2, <1>8, <2>1, <2>3, <3>1, <3>2 DEF Started
        <3>3. ~HearsEnd(m)
            <4> SUFFICES ASSUME HearsEnd(m) PROVE FALSE
                OBVIOUS
            <4>1. m.r \in 1..Len(origin) /\ st.r <= m.r /\ m.r # x
                BY <1>1, <1>2, <1>9, <1>13
            <4> QED
                BY <1>2, <2>1, <2>3, <4>1
        <3> QED
            BY <1>10, <2>1, <2>3, <3>2, <3>3 DEF Started
    <2> QED
        BY <2>1, <2>2, <2>3 DEF Started
<1>14. ASSUME ~scenario.tagged, NEW x \in 1..Len(origin), NEW y \in 1..Len(origin),
              Started(x)', Comes("start", y)', x < y
       PROVE  Comes("end", x)'
    <2>1. Comes("start", y)
        BY <1>1, <1>14 DEF Comes
    <2> QED
        BY <1>4, <1>7, <1>11, <1>14, <2>1
<1>15. Announced(receive', st'.r)
    <2>1. ASSUME NEW k \in Elems(receive'), k.t = "reject", k.r = st.r PROVE st'.r = st.r
        <3>1. k.r \in 1..Len(origin) /\ Before(scenario.tagged, m, k)
            BY <1>1, <1>2, <2>1
        <3>2. CASE m.t = "start"
            <4>1. m.r <= k.r /\ m.r \in 1..Len(origin)
                BY <1>1, <1>2, <2>1, <3>1, <3>2 DEF Before
            <4> QED
                BY <1>2, <1>8, <2>1, <3>2, <4>1
        <3>3. ~HearsEnd(m)
            <4> SUFFICES ASSUME HearsEnd(m) PROVE FALSE
                OBVIOUS
            <4>1. m.r < k.r /\ st.r <= m.r /\ m.r \in 1..Len(origin)
                BY <1>1, <1>2, <1>9, <2>1, <3>1 DEF Before
            <4> QED
                BY <1>2, <2>1, <4>1
        <3> QED
            BY <1>10, <3>2, <3>3
    <2>2. ASSUME NEW k \in Elems(receive'), k.t = "reject", m.t = "start", m.r = k.r
          PROVE  st'.r = k.r
        BY <1>8, <2>2
    <2> QED
        BY <1>3, <1>5, <1>7, <2>1, <2>2, AnnouncedTail DEF m
<1>16. (prov.active # 0 => Started(prov.active))'
    BY <1>2, <1>3, <1>6, <1>13
<1> QED
    BY <1>3, <1>12, <1>14, <1>15, <1>16 DEF OngoingInv

(* What becomes of a response the provider stops playing.                  *)
LEMMA ProviderLeaves ==
    ASSUME TypeInv, Provider, prov.active # 0
    PROVE  \/ prov'.active = prov.active
           \/ Msg("end", prov.active) \in Elems(receive')
           \/ scenario.tagged /\ Msg("start", Next1) \in Elems(receive')
<1>1. receive \in Seq(Message) /\ Len(origin) \in Nat
    BY DEF TypeInv, ProviderTypes
<1>2. Msg("start", Next1) \in Message /\ Msg("end", prov.active) \in Message
    BY <1>1, MsgTypes, EndMsg DEF Next1
<1>3. CASE SaysNothing \/ SaysLate
    BY <1>3 DEF SaysNothing, SaysLate
<1>4. CASE SaysStart
    BY <1>1, <1>2, <1>4, ElemsAppend DEF SaysStart
<1>5. CASE SaysEndStart
    <2>1. /\ Append(receive, Msg("end", prov.active)) \in Seq(Message)
          /\ Msg("end", prov.active) \in Elems(Append(receive, Msg("end", prov.active)))
        BY <1>1, <1>2, ElemsAppend, AppendType
    <2> DEFINE q == Append(receive, Msg("end", prov.active))
    <2>2. q \in Seq(Message) /\ Msg("end", prov.active) \in Elems(q)
        BY <2>1
    <2>3. receive' = Append(q, Msg("start", Next1))
        BY <1>5 DEF SaysEndStart
    <2> HIDE DEF q
    <2>4. Msg("end", prov.active) \in Elems(Append(q, Msg("start", Next1)))
        BY <1>2, <2>2, ElemsAppend
    <2> QED
        BY <2>3, <2>4
<1>6. CASE \E k \in Message : SaysMore(k)
    <2>1. PICK k \in Message : SaysMore(k)
        BY <1>6
    <2>2. k \in Elems(receive')
        BY <1>1, <2>1, ElemsAppend DEF SaysMore
    <2>3. k.t = "end" /\ k.r = prov.active => k = Msg("end", prov.active)
        BY DEF Message, Msg
    <2> QED
        BY <2>1, <2>2, <2>3 DEF SaysMore, KeepsPlaying
<1> QED
    BY <1>3, <1>4, <1>5, <1>6, ProviderForms

(* A rejected request's message is announced when it is sent.              *)
LEMMA AnnouncedProvider ==
    ASSUME TypeInv, OngoingInv, Provider
    PROVE  Announced(receive', st.r)
<1>1. /\ receive \in Seq(Message) /\ Announced(receive, st.r) /\ Len(origin) \in Nat
      /\ (prov.active # 0 => Started(prov.active))
    BY DEF TypeInv, ProviderTypes, OngoingInv
<1>2. /\ Msg("start", Next1) \in Message /\ Msg("start", Next1).t = "start"
      /\ \A t \in {"delta", "end"}, n \in Nat : Msg(t, n) \in Message /\ Msg(t, n).t = t
      /\ prov.active \in Nat /\ prov.old \in Nat
    BY <1>1, MsgTypes DEF Next1, TypeInv, ProviderTypes
<1>3. \A q \in Seq(Message), k \in Message :
         Announced(q, st.r) /\ k.t # "reject" =>
            Append(q, k) \in Seq(Message) /\ Announced(Append(q, k), st.r)
    BY AnnouncedAppend, AppendType
<1>4. CASE SaysNothing
    BY <1>1, <1>4 DEF SaysNothing
<1>5. CASE SaysStart
    BY <1>1, <1>2, <1>3, <1>5 DEF SaysStart
<1>6. CASE SaysEndStart
    <2> DEFINE q == Append(receive, Msg("end", prov.active))
    <2>1. q \in Seq(Message) /\ Announced(q, st.r)
        BY <1>1, <1>2, <1>3
    <2>2. receive' = Append(q, Msg("start", Next1))
        BY <1>6 DEF SaysEndStart
    <2> HIDE DEF q
    <2> QED
        BY <1>2, <1>3, <2>1, <2>2
<1>7. CASE SaysLate
    <2> DEFINE q == Append(receive, Msg("delta", prov.old))
    <2>1. q \in Seq(Message) /\ Announced(q, st.r)
        BY <1>1, <1>2, <1>3
    <2>2. receive' = Append(q, Msg("end", prov.old))
        BY <1>7 DEF SaysLate
    <2> HIDE DEF q
    <2> QED
        BY <1>2, <1>3, <2>1, <2>2
<1>8. CASE \E k \in Message : SaysMore(k)
    <2>1. PICK k \in Message : SaysMore(k)
        BY <1>8
    <2>2. receive' = Append(receive, k)
        BY <2>1 DEF SaysMore
    <2>3. k.t = "reject" => k.r = st.r \/ \E m \in Elems(receive) : m.t = "start" /\ m.r = k.r
        BY <1>1, <2>1 DEF SaysMore, Started, Comes
    <2>4. Announced(Append(receive, k), st.r)
        BY <1>1, <2>3, AnnouncedAppend
    <2> QED
        BY <2>2, <2>4
<1> QED
    BY <1>4, <1>5, <1>6, <1>7, <1>8, ProviderForms

LEMMA OngoingProvider ==
    ASSUME TypeInv, StreamInv, OngoingInv, Provider
    PROVE  OngoingInv'
<1>1. /\ Elems(receive) \subseteq Elems(receive')
      /\ \A m \in Elems(receive') : m \in Elems(receive) \/ (SaysNext(m) /\ m \in Message)
      /\ prov'.active \in {prov.active, 0, Next1}
      /\ prov'.active = Next1 => Msg("start", Next1) \in Elems(receive')
      /\ Len(origin') \in {Len(origin), Next1}
      /\ Len(origin') = Next1 => prov'.active = Next1
    BY ProviderAdds
<1>2. /\ st' = st /\ scenario'.tagged = scenario.tagged
    BY ProviderCases, StepProvider DEF ProvidersOnly, Next, SameProvider
<1>3. /\ st.r \in 0..Len(origin) /\ Len(origin) \in Nat
      /\ prov.active \in {0, Len(origin)} /\ (prov.fresh => prov.active # 0)
    BY LedgerFacts DEF TypeInv, ProviderTypes
<1>4. /\ \A x \in 1..Len(origin) : Started(x) => WillEnd(x)
      /\ prov.active # 0 => Started(prov.active)
      /\ ~scenario.tagged => \A x, y \in 1..Len(origin) :
              Started(x) /\ Comes("start", y) /\ x < y => Comes("end", x)
    BY DEF OngoingInv
<1>5. \A t, x : Comes(t, x) => Comes(t, x)'
    BY <1>1 DEF Comes
<1>6. ASSUME NEW x \in 1..Len(origin'), Comes("start", x)'
      PROVE  x = Next1 \/ (x \in 1..Len(origin) /\ Started(x))
    <2>1. PICK k \in Elems(receive') : k.t = "start" /\ k.r = x
        BY <1>6 DEF Comes
    <2>2. x = Next1 \/ x \in 1..Len(origin)
        BY <1>1, <1>3 DEF Next1
    <2> QED
        BY <1>1, <1>4, <2>1, <2>2 DEF SaysNext, Started, Comes
<1>7. ASSUME NEW x \in 1..Len(origin'), Started(x)'
      PROVE  x = Next1 \/ (x \in 1..Len(origin) /\ Started(x))
    <2>1. x = Next1 \/ x \in 1..Len(origin)
        BY <1>1, <1>3 DEF Next1
    <2> QED
        BY <1>2, <1>6, <1>7, <2>1 DEF Started
<1>8. ASSUME NEW x \in 1..Len(origin'), x = Next1 PROVE prov'.active = x
    BY <1>1, <1>3, <1>8 DEF Next1
<1>9. Msg("start", Next1).t = "start" /\ Msg("start", Next1).r = Next1
    BY DEF Msg
<1>10. ASSUME NEW x, x = prov.active, x # 0, NEW z, z = Next1
       PROVE  prov'.active = x \/ Comes("end", x)' \/ (scenario.tagged /\ Comes("start", z)')
    <2>1. Msg("end", x).t = "end" /\ Msg("end", x).r = x /\ Msg("start", z).t = "start"
          /\ Msg("start", z).r = z
        BY DEF Msg
    <2>2. prov'.active = x \/ Msg("end", x) \in Elems(receive')
          \/ (scenario.tagged /\ Msg("start", z) \in Elems(receive'))
        BY <1>10, ProviderLeaves
    <2> QED
        BY <2>1, <2>2 DEF Comes
<1>11. ASSUME NEW x \in 1..Len(origin'), Started(x)' PROVE WillEnd(x)'
    <2>1. CASE x = Next1
        BY <1>8, <2>1 DEF WillEnd
    <2>2. CASE x \in 1..Len(origin) /\ Started(x)
        <3>1. WillEnd(x)
            BY <1>4, <2>2
        <3>2. CASE prov.active = x
            <4> DEFINE z == Next1
            <4>1. x # 0 /\ z > x
                BY <1>3, <2>2 DEF Next1
            <4>5. \/ prov'.active = x \/ Comes("end", x)'
                  \/ scenario.tagged /\ \E m \in Elems(receive') :
                                           m.t = "start" /\ m.r = z
                BY <1>10, <3>2, <4>1 DEF Comes
            <4> HIDE DEF z
            <4>2. CASE prov'.active = x
                BY <4>2 DEF WillEnd
            <4>3. CASE Comes("end", x)'
                BY <4>3 DEF WillEnd
            <4>4. CASE scenario.tagged /\ \E m \in Elems(receive') : m.t = "start" /\ m.r = z
                BY <1>2, <4>1, <4>4 DEF WillEnd
            <4> QED
                BY <4>2, <4>3, <4>4, <4>5
        <3>3. CASE Comes("end", x)
            BY <1>5, <3>3 DEF WillEnd
        <3>4. CASE scenario.tagged /\ \E m \in Elems(receive) : m.t = "start" /\ m.r > x
            BY <1>1, <1>2, <3>4 DEF WillEnd
        <3> QED
            BY <3>1, <3>2, <3>3, <3>4 DEF WillEnd
    <2> QED
        BY <1>7, <1>11, <2>1, <2>2
<1>12. (prov.active # 0 => Started(prov.active))'
    <2>1. Next1 = prov'.active => (Comes("start", prov.active))'
        BY <1>1, <1>9 DEF Comes
    <2>2. ASSUME NEW x, Started(x) PROVE Started(x)'
        BY <1>2, <1>5, <2>2 DEF Started
    <2>4. ASSUME NEW x, x = prov'.active, x # 0, prov'.active = prov.active
          PROVE  Started(x)'
        BY <1>4, <2>2, <2>4
    <2>3. Next1 # 0
        BY <1>3 DEF Next1
    <2> QED
        BY <1>1, <2>1, <2>4, <2>3 DEF Started
<1>13. ASSUME ~scenario.tagged, NEW x \in 1..Len(origin'), NEW y \in 1..Len(origin'),
              Started(x)', Comes("start", y)', x < y
       PROVE  Comes("end", x)'
    <2>1. x \in 1..Len(origin) /\ Started(x)
        BY <1>1, <1>3, <1>7, <1>13 DEF Next1
    <2>2. y = Next1 \/ (y \in 1..Len(origin) /\ Started(y))
        BY <1>6, <1>13
    <2>3. WillEnd(x)
        BY <1>4, <2>1
    <2>4. CASE Comes("end", x)
        BY <1>5, <2>4
    <2>5. CASE prov.active = x
        <3>1. x = Len(origin) /\ y = Next1 /\ x # 0
            BY <1>3, <1>13, <2>1, <2>2, <2>5
        <3>2. prov'.active # x
            BY <1>3, <1>8, <2>5, <3>1 DEF Next1
        <3> QED
            BY <1>10, <1>13, <2>5, <3>1, <3>2
    <2> QED
        BY <1>13, <2>3, <2>4, <2>5 DEF WillEnd
<1>14. Announced(receive', st.r)
    BY AnnouncedProvider
<1> QED
    BY <1>2, <1>11, <1>12, <1>13, <1>14 DEF OngoingInv

LEMMA OngoingStep ==
    ASSUME TypeInv, StreamInv, LedgerInv, LateInv, OpenInv, OngoingInv, [Next]_vars
    PROVE  OngoingInv'
<1>0. scenario'.tagged = scenario.tagged
    BY StepProvider DEF SameProvider
<1>1. CASE Handles
    <2>1. UNCHANGED <<prov, origin, receive>> /\ st'.r = st.r
        BY <1>1 DEF Handles, Lives, SameLife, Cuts, NotesCancel, Continues, Acks, Acknowledges
    <2> QED
        BY <1>0, <2>1 DEF OngoingInv, Started, WillEnd, Comes
<1> QED
    BY <1>1, OngoingHears, OngoingProvider, LifeCases

(* An acknowledgement is outstanding while its response plays, its request *)
(* travels, or the provider's answer is on its way.                        *)
Answered == \E m \in Elems(receive) : m.t \in {"start", "reject"}
AckOnWire == \E w \in Elems(wire) : w.t = "ack"
AckInv == AckOutstanding(st) => st.r # 0 \/ AckOnWire \/ Answered
DeferInv == st.deferred # <<>> => st.r # 0 \/ AckOutstanding(st)

(* The provider answers the request it takes.                              *)
LEMMA AckProvider ==
    ASSUME TypeInv, Provider, AckOnWire \/ Answered
    PROVE  AckOnWire' \/ Answered'
<1>1. /\ receive \in Seq(Message) /\ wire \in Seq(Wired)
      /\ Len(origin) \in Nat /\ prov.active \in Nat
    BY DEF TypeInv, ProviderTypes
<1>2. Answered => Answered'
    BY ProviderAdds DEF Answered
<1>3. /\ wire # <<>> => Elems(wire) = {Head(wire)} \cup Elems(Tail(wire))
      /\ wire' = Tail(wire) /\ AckOnWire /\ wire # <<>>
            => AckOnWire' \/ Head(wire).t = "ack"
    BY <1>1, ElemsTail DEF AckOnWire
<1>4. Speaks \/ StreamsFresh \/ StreamsLate \/ EndsResponse
      \/ TakesCancel \/ TakesRequest \/ TakesSecond \/ Closes
    BY ProviderCases
<1>5. CASE Speaks \/ StreamsFresh \/ StreamsLate \/ Closes
    BY <1>2, <1>5 DEF Speaks, StreamsFresh, StreamsLate, Closes, AckOnWire
<1>6. CASE EndsResponse
    BY <1>2, <1>3, <1>6, ProviderCases DEF AckOnWire
<1>7. CASE TakesCancel
    BY <1>2, <1>3, <1>7 DEF TakesCancel
<1>8. CASE TakesRequest
    <2>1. Head(wire).t \in Request /\ Opens(Head(wire).t, <<>>)
        BY <1>8 DEF TakesRequest
    <2>2. receive' = Append(receive, Msg("start", Next1))
        BY <2>1, OpensForm
    <2>3. Msg("start", Next1) \in Message /\ Msg("start", Next1).t = "start"
        BY <1>1, MsgTypes DEF Next1
    <2>4. Msg("start", Next1) \in Elems(receive')
        BY <1>1, <2>2, <2>3, ElemsAppend
    <2> QED
        BY <2>3, <2>4 DEF Answered
<1>9. CASE TakesSecond
    <2>1. receive' = Append(receive, Msg("reject", prov.active))
        BY <1>9 DEF TakesSecond
    <2>3. Msg("reject", prov.active) \in Message /\ Msg("reject", prov.active).t = "reject"
        BY <1>1, MsgTypes
    <2>4. Msg("reject", prov.active) \in Elems(receive')
        BY <1>1, <2>1, <2>3, ElemsAppend
    <2> QED
        BY <2>3, <2>4 DEF Answered
<1> QED
    BY <1>4, <1>5, <1>6, <1>7, <1>8, <1>9

LEMMA AckHears ==
    ASSUME TypeInv, StreamInv, OpenInv, OngoingInv, AckInv, Hears
    PROVE  AckInv'
<1> DEFINE m == Head(receive)
<1>1. m \in Elems(receive) /\ Elems(receive) = {m} \cup Elems(receive')
    BY StreamHears
<1>2. /\ HearsStart(m) \/ HearsEnd(m) \/ HearsClose(m) \/ HearsOther(m)
      /\ wire' = wire /\ m \in Message
    BY HearCases
<1>3. \A k \in Elems(receive) : k.t # "close" => k.r \in 1..Len(origin)
    BY LedgerFacts
<1>4. m.t = "start" /\ ~Opening(st, m) => st.r = m.r
    BY SecondStart
<1> HIDE DEF m
<1>5. st.r \in Nat /\ Len(origin) \in Nat
    BY RunnerFacts
<1>6. CASE HearsStart(m)
    <2>1. st'.r = m.r /\ m.t = "start"
        BY <1>6 DEF HearsStart, Opening
    <2> QED
        BY <1>1, <1>3, <1>5, <2>1 DEF AckInv
<1>7. CASE HearsEnd(m)
    BY <1>7 DEF HearsEnd, AckInv, AckOutstanding
<1>8. CASE HearsClose(m) \/ HearsOther(m)
    <2>1. /\ st'.r = st.r /\ (AckOutstanding(st') => AckOutstanding(st))
          /\ AckOutstanding(st') => m.t # "reject" /\ (m.t = "start" => ~Opening(st, m))
        BY <1>8 DEF HearsClose, HearsOther, AckOutstanding, Opening
    <2>2. AckOutstanding(st') /\ m.t = "start" => st.r # 0
        BY <1>1, <1>3, <1>4, <1>5, <2>1
    <2>3. Answered /\ m.t \notin {"start", "reject"} => Answered'
        BY <1>1 DEF Answered
    <2> QED
        BY <1>2, <2>1, <2>2, <2>3 DEF AckInv, AckOnWire
<1> QED
    BY <1>2, <1>6, <1>7, <1>8

LEMMA AckHandles ==
    ASSUME TypeInv, AckInv, Handles
    PROVE  AckInv'
<1>1. wire \in Seq(Wired)
    BY DEF TypeInv, ProviderTypes
<1>2. /\ receive' = receive
      /\ wire' = wire \/ \E q \in Wired : wire' = Append(wire, q)
      /\ Lives \/ Cuts \/ Continues \/ Acks
    BY DEF Handles
<1>3. Elems(wire) \subseteq Elems(wire')
    <2>1. \A q \in Wired : Elems(Append(wire, q)) = Elems(wire) \cup {q}
        BY <1>1, ElemsAppend
    <2> QED
        BY <1>2, <2>1
<1>4. CASE Lives \/ Cuts \/ Continues
    <2>1. st'.r = st.r /\ (AckOutstanding(st') => AckOutstanding(st))
        BY <1>4 DEF Lives, SameLife, Cuts, NotesCancel, Continues, AckOutstanding
    <2> QED
        BY <1>2, <1>3, <2>1 DEF AckInv, Answered, AckOnWire
<1>5. CASE Acks
    <2>1. wire' = Append(wire, Msg("ack", 0)) /\ Msg("ack", 0) \in Wired
        BY <1>5, RequestTypes DEF Acks, Acknowledges
    <2>2. Msg("ack", 0) \in Elems(wire') /\ Msg("ack", 0).t = "ack"
        BY <1>1, <2>1, ElemsAppend, WiredTypes
    <2> QED
        BY <2>2 DEF AckInv, AckOnWire
<1> QED
    BY <1>2, <1>4, <1>5

LEMMA AckInvStep ==
    ASSUME TypeInv, StreamInv, OpenInv, OngoingInv, AckInv, [Next]_vars
    PROVE  AckInv'
<1>1. CASE Provider
    <2>1. st' = st
        BY <1>1, ProviderCases DEF ProvidersOnly
    <2> QED
        BY <1>1, <2>1, AckProvider DEF AckInv
<1> QED
    BY <1>1, AckHears, AckHandles, LifeCases

(* Deferred events wait for a response or an acknowledgement to end.       *)
LEMMA DeferStep ==
    ASSUME TypeInv, OngoingInv, DeferInv, [Next]_vars
    PROVE  DeferInv'
<1>0. st.r \in Nat /\ Len(origin) \in Nat /\ (InFlight(st) <=> st.r # 0)
    BY RunnerFacts
<1>1. CASE Hears
    <2> DEFINE m == Head(receive)
    <2>1. /\ HearsStart(m) \/ HearsEnd(m) \/ HearsClose(m) \/ HearsOther(m)
          /\ m \in Message /\ m \in Elems(receive) /\ receive # <<>>
        BY <1>1, HearCases
    <2>2. m.t # "close" => m.r \in 1..Len(origin)
        BY <2>1, LedgerFacts
    <2>3. m.t = "reject" => m.r = st.r
        <3>1. m = receive[1] /\ 1 \in 1..Len(receive)
            BY <2>1, TailType DEF TypeInv, ProviderTypes
        <3>2. Announced(receive, st.r)
            BY DEF OngoingInv
        <3> QED
            BY <3>1, <3>2 DEF Announced
    <2> HIDE DEF m
    <2>4. CASE HearsStart(m)
        BY <1>0, <2>2, <2>4 DEF HearsStart, Opening, DeferInv
    <2>5. CASE HearsEnd(m)
        BY <2>5 DEF HearsEnd, DeferInv
    <2>6. CASE HearsClose(m) \/ HearsOther(m)
        <3>1. /\ st'.r = st.r /\ st'.deferred = st.deferred
              /\ st'.ack = st.ack \/ m.t = "reject"
            BY <2>6 DEF HearsClose, HearsOther
        <3>2. m.t = "reject" => st.r # 0
            BY <1>0, <2>2, <2>3
        <3> QED
            BY <3>1, <3>2 DEF DeferInv, AckOutstanding
    <2> QED
        BY <2>1, <2>4, <2>5, <2>6
<1>2. CASE Provider
    BY <1>2, ProviderCases DEF ProvidersOnly, DeferInv
<1>3. CASE Handles
    <2>1. CASE Lives
        BY <1>0, <2>1 DEF Lives, SameLife, DeferInv, AckOutstanding
    <2>2. CASE Cuts
        BY <2>2 DEF Cuts, NotesCancel, DeferInv, AckOutstanding
    <2>3. CASE Continues
        BY <2>3 DEF Continues, DeferInv, AckOutstanding
    <2>4. CASE Acks
        BY <2>4 DEF Acks, Acknowledges, DeferInv, AckOutstanding
    <2> QED
        BY <1>3, <2>1, <2>2, <2>3, <2>4 DEF Handles
<1> QED
    BY <1>1, <1>2, <1>3, LifeCases

-----------------------------------------------------------------------------
(* Refused results                                                         *)

Waiting == Elems(Line(BatchTask))
Remaining == Elems(Served(BatchTask) \o Behind(BatchTask))

(* The continuation of batch n is still to come.                           *)
Followed(n) ==
    \/ forwarder.step = "failed" \/ (forwarder.step = "cont" /\ forwarder.batch = n)
    \/ Task("cont", n) \in Waiting

(* A refused result is reported with the continuation that is to come.     *)
RejectInv ==
    /\ st.failures # {} => st.rejected
    /\ ~over /\ st.rejected =>
         \/ forwarder.step \in {"cont", "failed"}
         \/ \E x \in Waiting : x.t = "cont"
    /\ ~over => \A x \in Waiting : x.t = "result" => Followed(x.n)

LEMMA LeftOver ==
    ASSUME TypeInv, BatchInv, agenda # <<>>, ~over
    PROVE  /\ Waiting = IF Head(agenda) \in BatchTask THEN {Head(agenda)} \cup Remaining ELSE Remaining
           /\ Gone(BatchTask) => Waiting' = Remaining
           /\ \A y \in Tasks : y \in BatchTask /\ Becomes(BatchTask, y) => Waiting' = {y} \cup Remaining
           /\ Head(agenda) \in BatchTask /\ Head(agenda).t = "cont" =>
                \A x \in Remaining : x.t = "result" => x.n # Head(agenda).n
<1> DEFINE S == Served(BatchTask)
           B == Behind(BatchTask)
           h == Head(agenda)
           L == Line(BatchTask)
<1>1. S \in Seq(Tasks) /\ B \in Seq(Tasks) /\ h \in Tasks
    BY LineHead, RestTypes
<1>2. L = IF h \in BatchTask THEN S \o (<<h>> \o B) ELSE S \o B
    BY LineHead
<1>3. Rising(L)
    BY DEF BatchInv
<1>4. \A y \in Elems(S) : y.t = "cont"
    BY ServedConts
<1>5. /\ Gone(BatchTask) => Waiting' = Elems(S \o B)
      /\ \A y \in Tasks : y \in BatchTask /\ Becomes(BatchTask, y) =>
            Waiting' = Elems(S \o (<<y>> \o B))
    BY DEF Gone, Becomes, Waiting
<1> HIDE DEF S, B, h, L
<1>6. /\ Elems(S \o B) = Elems(S) \cup Elems(B)
      /\ \A y \in Tasks : Elems(S \o (<<y>> \o B)) = {y} \cup Elems(S \o B)
    <2>1. Elems(S \o B) = Elems(S) \cup Elems(B)
        BY <1>1, SplitLen
    <2>2. ASSUME NEW y \in Tasks PROVE Elems(S \o (<<y>> \o B)) = {y} \cup Elems(S \o B)
        BY <1>1, SplitLen
    <2> QED
        BY <2>1, <2>2
<1>7. Rising(S \o (<<h>> \o B)) => \A y \in Elems(B) : Key(h) < Key(y)
    BY <1>1, RisingSplit
<1>8. ASSUME h \in BatchTask, h.t = "cont", NEW x \in Elems(S \o B), x.t = "result"
      PROVE  x.n # h.n
    <2>1. x \in Elems(B) /\ x \in Tasks
        BY <1>1, <1>4, <1>6, <1>8, ElemsType
    <2>2. Key(h) < Key(x)
        BY <1>2, <1>3, <1>7, <1>8, <2>1
    <2>3. Key(h) = 2 * h.n + 1 /\ Key(x) = 2 * x.n
        BY <1>8 DEF Key, Audio
    <2>4. h.n \in Nat /\ x.n \in Nat
        BY <1>1, <2>1 DEF Tasks
    <2> QED
        BY <2>2, <2>3, <2>4
<1> QED
    BY <1>1, <1>2, <1>5, <1>6, <1>8 DEF Waiting, Remaining, S, B, h, L

(* At most h has left the line, and no result has joined it.               *)
LEMMA RejectMoves ==
    ASSUME RejectInv, ~over, forwarder' = forwarder, NEW h,
           Waiting \subseteq Waiting' \cup {h},
           \A x \in Waiting' : x.t = "result" => x \in Waiting,
           h.t = "cont" => ~st'.rejected /\ \A x \in Waiting' : x.t = "result" => x.n # h.n,
           st'.rejected => st.rejected \/ (h.t = "result" /\ h \in Waiting),
           st'.failures # {} => st'.rejected
    PROVE  RejectInv'
<1>1. ASSUME st'.rejected
      PROVE  forwarder.step \in {"cont", "failed"} \/ \E x \in Waiting' : x.t = "cont"
    <2>1. \/ forwarder.step \in {"cont", "failed"}
          \/ \E x \in Waiting : x.t = "cont"
        <3>1. CASE st.rejected
            BY <3>1 DEF RejectInv
        <3>2. CASE h.t = "result" /\ h \in Waiting
            <4>1. Followed(h.n)
                BY <3>2 DEF RejectInv
            <4>2. Task("cont", h.n).t = "cont"
                BY DEF Task
            <4> QED
                BY <4>1, <4>2 DEF Followed
        <3> QED
            BY <1>1, <3>1, <3>2
    <2> QED
        BY <1>1, <2>1
<1>2. ASSUME NEW x \in Waiting', x.t = "result"
      PROVE  \/ forwarder.step = "failed" \/ (forwarder.step = "cont" /\ forwarder.batch = x.n)
             \/ Task("cont", x.n) \in Waiting'
    <2>1. Followed(x.n)
        BY <1>2 DEF RejectInv
    <2>2. Task("cont", x.n).t = "cont" /\ Task("cont", x.n).n = x.n
        BY DEF Task
    <2>3. Task("cont", x.n) # h
        BY <1>2, <2>2
    <2> QED
        BY <2>1, <2>3 DEF Followed
<1> QED
    BY <1>1, <1>2 DEF RejectInv, Followed

LEMMA RejectStays ==
    ASSUME RejectInv, UNCHANGED <<forwarder, over>>, Line(BatchTask)' = Line(BatchTask),
           st'.rejected = st.rejected, st'.failures = st.failures \/ st'.failures = {}
    PROVE  RejectInv'
BY DEF RejectInv, Followed, Waiting

LEMMA RejectForwards ==
    ASSUME TypeInv, RejectInv, ForwardResult
    PROVE  RejectInv'
<1> DEFINE b == forwarder.batch
<1>1. /\ b \in Batch
      /\ ResultArrives \/ ContArrives \/ RequestArrives \/ ForwarderFails
      /\ UNCHANGED <<st, agenda, over>>
    BY ForwardCases
<1>2. /\ BatchTask \cap Plain = {}
      /\ \A t \in {"result", "cont"} : Task(t, b) \in Inputs /\ Task(t, b) \in BatchTask
                                       /\ Task(t, b) \in Tasks
                                       /\ Task(t, b).t = t /\ Task(t, b).n = b
    <2>1. Task("result", b) \in Inputs /\ Task("cont", b) \in Inputs
        BY <1>1, InputNames
    <2>2. \A t \in {"result", "cont"} : Task(t, b) \in BatchTask /\ Task(t, b) \in Tasks
        BY <1>1, BatchTasks
    <2> QED
        BY <2>1, <2>2, BatchTasks DEF Task
<1>3. Line(BatchTask) \in Seq(Tasks)
      /\ forwarder \in [batch : Nat, step : {"result", "cont", "request", "failed"}]
    BY BatchFacts
<1>4. \A t \in {"result", "cont"} : Push(Task(t, b)) => Waiting' = Waiting \cup {Task(t, b)}
    <2> SUFFICES ASSUME NEW t \in {"result", "cont"}, Push(Task(t, b))
                 PROVE  Waiting' = Waiting \cup {Task(t, b)}
        OBVIOUS
    <2>1. Line(BatchTask)' = Append(Line(BatchTask), Task(t, b))
        BY <1>1, <1>2, LinePush
    <2>2. Elems(Append(Line(BatchTask), Task(t, b))) = Elems(Line(BatchTask)) \cup {Task(t, b)}
        BY <1>2, <1>3, ElemsAppend
    <2> QED
        BY <2>1, <2>2 DEF Waiting
<1> HIDE DEF b
<1>5. CASE ResultArrives
    <2>1. /\ forwarder.step = "result" /\ forwarder'.step = "cont" /\ forwarder'.batch = b
          /\ Waiting' = Waiting \cup {Task("result", b)}
        BY <1>3, <1>4, <1>5 DEF ResultArrives, b
    <2> QED
        BY <1>1, <1>2, <2>1 DEF RejectInv, Followed
<1>6. CASE ContArrives
    <2>1. /\ forwarder.step = "cont" /\ forwarder'.step = "request" /\ forwarder.batch = b
          /\ Waiting' = Waiting \cup {Task("cont", b)}
        BY <1>3, <1>4, <1>6 DEF ContArrives, b
    <2> QED
        BY <1>1, <1>2, <2>1 DEF RejectInv, Followed
<1>7. CASE RequestArrives \/ ForwarderFails
    <2>1. UNCHANGED ordered
        BY <1>7 DEF RequestArrives, ForwarderFails
    <2>2. Waiting' = Waiting
        BY <1>1, <2>1, LineStack DEF Waiting
    <2>3. /\ forwarder'.step \in {"result", "failed"}
          /\ forwarder'.step = "result" => forwarder.step = "request"
        BY <1>3, <1>7 DEF RequestArrives, ForwarderFails
    <2> QED
        BY <1>1, <2>2, <2>3 DEF RejectInv, Followed
<1> QED
    BY <1>1, <1>5, <1>6, <1>7

LEMMA RejectStep ==
    ASSUME TypeInv, BatchInv, RejectInv, [Next]_vars
    PROVE  RejectInv'
<1>0. BatchTask \cap Plain = {}
    BY BatchTasks
<1>1. CASE IdleStep \/ FlushHeld
    <2>1. Idles(BatchTask)
        BY <1>0, <1>1, IdleSteps, FlushIdles
    <2> QED
        BY <2>1, RejectStays DEF Idles, MayReport
<1>2. CASE SendAudio \/ SendAck
    <2>1. UNCHANGED <<st, agenda, over, forwarder>>
        BY <1>2 DEF SendAudio, SendAck
    <2>2. \E x \in Inputs : Push(x) /\ x \notin BatchTask
        <3>1. CASE SendAudio
            <4>1. PICK t \in Audio : Push(Task(t, frames + 1))
                BY <3>1 DEF SendAudio
            <4>2. Task(t, frames + 1) \in Inputs /\ Task(t, frames + 1) \in AudioTask
                BY InputNames DEF TypeInv, InputTypes, Task, AudioTask
            <4> QED
                BY <4>1, <4>2, BatchTasks
        <3>2. CASE SendAck
            <4>1. Task("ack", 0) \in Inputs
                BY InputNames
            <4> QED
                BY <3>2, <4>1, BatchTasks DEF SendAck
        <3> QED
            BY <1>2, <3>1, <3>2
    <2>3. Line(BatchTask)' = Line(BatchTask)
        BY <1>0, <2>1, <2>2, LinePush
    <2> QED
        BY <2>1, <2>3, RejectStays
<1>3. CASE ForwardResult
    BY <1>3, RejectForwards
<1>4. CASE AwaitRequest
    <2>1. Line(BatchTask)' = Line(BatchTask) /\ UNCHANGED <<st, over, forwarder>>
        BY <1>0, <1>4, LineSteps, InboxStep
    <2> QED
        BY <2>1, RejectStays
<1>5. CASE AwaitEnd
    <2>1. over' /\ st'.failures = {}
        BY <1>5, EndStep DEF Reports
    <2> QED
        BY <2>1 DEF RejectInv
<1>6. CASE ForwardAudio
    <2>0. /\ agenda # <<>> /\ ~over /\ Head(agenda) \notin BatchTask
          /\ UNCHANGED forwarder /\ st'.rejected = st.rejected
          /\ HoldsFrame \/ SendsFrame \/ LosesSession
        BY <1>6, AudioCases, BatchTasks DEF inputVars
    <2>1. CASE LosesSession
        BY <2>1 DEF LosesSession, RejectInv
    <2>2. CASE HoldsFrame \/ SendsFrame
        <3>1. st'.failures = st.failures /\ over' = over
            BY <2>2 DEF HoldsFrame, SendsFrame
        <3>2. Waiting' = Waiting
            BY <1>0, <1>6, <2>0, <3>1, LineSteps, LeftOver
        <3> QED
            BY <2>0, <3>1, <3>2 DEF RejectInv, Followed
    <2> QED
        BY <2>0, <2>1, <2>2
<1>7. CASE ForwardToolResult
    <2>0. /\ agenda # <<>> /\ ~over /\ Head(agenda).t = "result" /\ forwarder' = forwarder
          /\ Head(agenda) \in Tasks /\ (Delivers \/ Refuses(Head(agenda).n))
        BY <1>7, ResultStep DEF KeepInput
    <2>1. Head(agenda) \in BatchTask /\ Gone(BatchTask)
        BY <1>0, <1>7, <2>0, BatchTasks, LineSteps
    <2>2. Waiting = {Head(agenda)} \cup Remaining /\ Waiting' = Remaining
        BY <2>0, <2>1, LeftOver
    <2>3. st'.failures # {} => st'.rejected
        BY <2>0 DEF Delivers, Refuses, RejectInv
    <2> QED
        BY <2>0, <2>2, <2>3, RejectMoves
<1>8. CASE SuppressContinuation
    <2>0. /\ agenda # <<>> /\ ~over /\ Head(agenda).t = "cont" /\ forwarder' = forwarder
          /\ Head(agenda) \in Tasks /\ ~st'.rejected /\ st'.failures = {}
        BY <1>8, SuppressStep, RestTypes DEF KeepInput, Reports
    <2>1. Head(agenda) \in BatchTask /\ Gone(BatchTask)
        BY <1>0, <1>8, <2>0, BatchTasks, LineSteps
    <2>2. /\ Waiting = {Head(agenda)} \cup Remaining /\ Waiting' = Remaining
          /\ \A x \in Remaining : x.t = "result" => x.n # Head(agenda).n
        BY <2>0, <2>1, LeftOver
    <2> QED
        BY <2>0, <2>2, RejectMoves
<1>9. CASE HoldOrSync
    <2> DEFINE h == Head(agenda)
               y == Task("request", h.n)
    <2>0. /\ agenda # <<>> /\ ~over /\ h.t = "cont" /\ h \in Tasks /\ h.n \in Batch
          /\ forwarder' = forwarder /\ ~st'.rejected /\ st'.failures = st.failures
        BY <1>9, HoldStep DEF inputVars, Defers
    <2>1. /\ h \in BatchTask /\ (Becomes(BatchTask, h) \/ Becomes(BatchTask, y))
          /\ y \in BatchTask /\ y \in Tasks /\ y.t = "request"
        <3>1. h \in BatchTask /\ y \in BatchTask /\ y \in Tasks /\ y.t = "request"
            BY <2>0, BatchTasks, TaskTypes
        <3>2. Becomes(BatchTask, h) \/ Becomes(BatchTask, y)
            BY <1>0, <1>9, LineSteps
        <3> QED
            BY <3>1, <3>2
    <2>2. /\ Waiting = {h} \cup Remaining
          /\ Waiting' = {h} \cup Remaining \/ Waiting' = {y} \cup Remaining
          /\ \A x \in Remaining : x.t = "result" => x.n # h.n
        BY <2>0, <2>1, LeftOver
    <2>3. st.failures = {}
        BY <1>9, HoldStep DEF RejectInv
    <2> HIDE DEF h, y
    <2>4. /\ \A x \in Waiting' : x.t = "result" => x \in Waiting /\ x.n # h.n
          /\ Waiting \subseteq Waiting' \cup {h}
        BY <2>0, <2>1, <2>2
    <2> QED
        BY <2>0, <2>3, <2>4, RejectMoves
<1>10. CASE RequestContinuation
    <2> DEFINE h == Head(agenda)
               y == Task("cont", h.n)
    <2>0. /\ agenda # <<>> /\ ~over /\ h.t = "request" /\ h \in Tasks /\ h.n \in Batch
          /\ forwarder' = forwarder /\ st'.rejected = st.rejected /\ st'.failures = st.failures
        BY <1>10, RequestStep, RestTypes DEF KeepInput, Defers, Asks, KeepsQueues
    <2>1. /\ h \in BatchTask /\ (Becomes(BatchTask, y) \/ Gone(BatchTask))
          /\ y \in BatchTask /\ y \in Tasks /\ y.t = "cont"
        <3>1. h \in BatchTask /\ y \in BatchTask /\ y \in Tasks /\ y.t = "cont"
            BY <2>0, BatchTasks, TaskTypes
        <3>2. Becomes(BatchTask, y) \/ Gone(BatchTask)
            BY <1>0, <1>10, LineSteps
        <3> QED
            BY <3>1, <3>2
    <2>2. /\ Waiting = {h} \cup Remaining
          /\ Waiting' = Remaining \/ Waiting' = {y} \cup Remaining
        BY <2>0, <2>1, LeftOver
    <2>3. st.failures # {} => st.rejected
        BY DEF RejectInv
    <2> HIDE DEF h, y
    <2>4. /\ \A x \in Waiting' : x.t = "result" => x \in Waiting
          /\ Waiting \subseteq Waiting' \cup {h}
        BY <2>0, <2>1, <2>2
    <2> QED
        BY <2>0, <2>3, <2>4, RejectMoves
<1>11. CASE ForwardAck
    <2>0. /\ agenda # <<>> /\ ~over /\ Head(agenda).t = "ack" /\ forwarder' = forwarder
          /\ st'.rejected = st.rejected /\ st'.failures = st.failures
        BY <1>11, AckStep DEF KeepInput, Acknowledges, KeepsQueues
    <2>1. Gone(BatchTask)
        BY <1>0, <1>11, LineSteps
    <2>2. /\ Waiting \subseteq {Head(agenda)} \cup Remaining /\ Waiting' = Remaining
          /\ Remaining \subseteq Waiting
        BY <2>0, <2>1, LeftOver
    <2>3. st.failures # {} => st.rejected
        BY DEF RejectInv
    <2> QED
        BY <2>0, <2>2, <2>3, RejectMoves
<1> QED
    BY <1>1, <1>2, <1>3, <1>4, <1>5, <1>6, <1>7, <1>8, <1>9, <1>10, <1>11, StepCases

-----------------------------------------------------------------------------
(* The runner at rest                                                      *)

(* The goroutine has returned, with everything it had to do.               *)
OverInv == over => agenda = <<>>

LEMMA OverStep ==
    ASSUME TypeInv, OverInv, [Next]_vars
    PROVE  OverInv'
<1>1. CASE UNCHANGED vars
    BY <1>1 DEF vars, OverInv
<1>2. CASE Environment \/ Provider
    <2>1. UNCHANGED <<over, agenda>>
        BY <1>2, ProviderCases
           DEF ProvidersOnly, Environment, SendAudio, SendControl, SendAck, ForwardResult
    <2> QED
        BY <2>1 DEF OverInv
<1>3. CASE Runner
    <2>1. CASE ForwardAudio
        BY <2>1, AudioCases DEF HoldsFrame, SendsFrame, LosesSession, OverInv
    <2>2. CASE AwaitEnd
        BY <2>2, EndStep DEF OverInv
    <2>3. CASE Reads
        <3>1. over' = over
            BY <2>3, ReadsKeep
        <3>2. ~over
            BY <2>3 DEF Reads, ForwardPendingMessages, ForwardPendingInputs, ReleaseExpired,
                        AwaitMessage, AwaitInput, AwaitCancel, AwaitExpiry, Doing
        <3> QED
            BY <3>1, <3>2 DEF OverInv
    <2>4. CASE FlushHeld \/ Report \/ Events \/ AwaitRequest
        <3>1. over' = over /\ ~over
            BY <2>4, FlushStep, ReportStep, CancelStep, CommitStep, MessageStep, ResultStep,
               SuppressStep, HoldStep, RequestStep, AckStep, InboxStep DEF Events
        <3> QED
            BY <3>1 DEF OverInv
    <2> QED
        BY <1>3, <2>1, <2>2, <2>3, <2>4 DEF Runner, Await, Reads
<1> QED
    BY <1>1, <1>2, <1>3 DEF Next

LEMMA RestHolds ==
    Spec => [](OpenInv /\ OngoingInv /\ AckInv /\ DeferInv /\ RejectInv /\ OverInv)
<1>1. Init => OpenInv /\ OngoingInv /\ AckInv /\ DeferInv /\ RejectInv /\ OverInv
    <2> SUFFICES ASSUME Init
                 PROVE  OpenInv /\ OngoingInv /\ AckInv /\ DeferInv /\ RejectInv /\ OverInv
        OBVIOUS
    <2>1. /\ receive = <<>> /\ Elems(receive) = {} /\ origin = <<>> /\ Len(origin) = 0
          /\ Len(receive) = 0
          /\ prov.active = 0 /\ st.r = 0 /\ st.ack = "none" /\ st.deferred = <<>>
          /\ st.failures = {} /\ ~st.rejected /\ ~over
        BY ElemsSmall DEF Init
    <2>2. Line(BatchTask) = <<>> /\ Elems(<<>>) = {}
        BY InitLine, BatchTasks, ElemsSmall
    <2>3. OpenInv /\ OngoingInv
        BY <2>1 DEF OpenInv, OngoingInv, Announced
    <2>4. AckInv /\ DeferInv /\ OverInv
        BY <2>1 DEF AckInv, DeferInv, AckOutstanding, OverInv
    <2>5. RejectInv
        BY <2>1, <2>2 DEF RejectInv, Waiting
    <2> QED
        BY <2>3, <2>4, <2>5
<1>2. TypeInv /\ BatchInv /\ StreamInv /\ LedgerInv /\ LateInv /\ OpenInv /\ OngoingInv
      /\ AckInv /\ DeferInv /\ RejectInv /\ OverInv /\ [Next]_vars
      => (OpenInv /\ OngoingInv /\ AckInv /\ DeferInv /\ RejectInv /\ OverInv)'
    BY OpenStep, OngoingStep, AckInvStep, DeferStep, RejectStep, OverStep
<1> QED
    BY <1>1, <1>2, TypesHold, BatchHolds, StreamHolds, LedgerHolds, PTL DEF Spec

(* Once the provider is silent, the wire, Receive and the ingress are      *)
(* empty and the goroutine waits in awaitSessionStep, nothing is left      *)
(* behind: no response is taken for open whose end was missed, no          *)
(* acknowledgement for outstanding that was answered, no deferred event    *)
(* waits for either, pendingToolEvents is zero, and every refused result   *)
(* was reported when its batch's continuation was suppressed.              *)
THEOREM NothingLeft == Spec => []Settled
<1>1. ASSUME TypeInv, CountInv, BatchInv, OngoingInv, AckInv, DeferInv, RejectInv, OverInv
      PROVE  Settled
    <2> SUFFICES ASSUME AtRest
                 PROVE  /\ st.deferred = <<>> /\ ~InFlight(st) /\ ~AckOutstanding(st)
                        /\ toolEvents = 0
                        /\ forwarder.step = "result" => st.failures = {}
        BY DEF Settled
    <2>1. /\ agenda = <<Task("await", 0)>> /\ ordered = <<>> /\ receive = <<>>
          /\ wire = <<>> /\ prov.active = 0
        BY DEF AtRest
    <2>2. Elems(receive) = {} /\ Elems(wire) = {} /\ ~over
        BY <1>1, <2>1, ElemsSmall DEF OverInv
    <2>3. st.r = 0 /\ ~InFlight(st)
        <3>1. st.r # 0 => st.r \in 1..Len(origin) /\ (InFlight(st) <=> st.r # 0)
            BY <1>1, RunnerFacts
        <3>2. st.r # 0 => WillEnd(st.r)
            BY <1>1, <3>1 DEF OngoingInv, Started
        <3>3. ~WillEnd(st.r) \/ st.r = 0
            BY <2>1, <2>2 DEF WillEnd, Comes
        <3> QED
            BY <1>1, <3>2, <3>3, RunnerFacts
    <2>4. ~AckOutstanding(st)
        BY <1>1, <2>2, <2>3 DEF AckInv, AckOnWire, Answered
    <2>5. st.deferred = <<>>
        BY <1>1, <2>3, <2>4 DEF DeferInv
    <2>6. \A T : T \cap Plain = {} => Line(T) = <<>>
        <3> SUFFICES ASSUME NEW T, T \cap Plain = {} PROVE Line(T) = <<>>
            OBVIOUS
        <3>1. Elems(agenda) \subseteq Plain
            <4>1. Elems(agenda) = {Task("await", 0)}
                BY <2>1, ElemsSmall
            <4>2. /\ Task("await", 0) \in Tasks /\ Task("await", 0).t = "await"
                BY TaskTypes DEF TaskName, Audio, ToolEvent
            <4> QED
                BY <4>1, <4>2 DEF Plain
        <3>2. Only(agenda, T) = <<>>
            BY <1>1, <3>1, QueueFacts, OnlyNone
        <3>3. Only(ordered, T) = <<>> /\ Only(st.deferred, T) = <<>>
            BY <2>1, <2>5, OnlyEmpty
        <3> QED
            BY <3>2, <3>3, EmptyPath DEF Line, LineOf
    <2>7. toolEvents = 0
        <3>1. Line(ToolTask) = <<>>
            BY <2>6, PlainTasks
        <3> QED
            BY <1>1, <2>2, <3>1 DEF CountInv
    <2>8. ASSUME forwarder.step = "result" PROVE st.failures = {}
        <3>1. Waiting = {}
            BY <2>6, BatchTasks, ElemsSmall DEF Waiting
        <3> QED
            BY <1>1, <2>2, <2>8, <3>1 DEF RejectInv
    <2> QED
        BY <2>3, <2>4, <2>5, <2>7, <2>8
<1> QED
    BY <1>1, TypesHold, CountHolds, BatchHolds, RestHolds, PTL

=============================================================================
